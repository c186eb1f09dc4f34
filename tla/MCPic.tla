------------------------------- MODULE MCPic -------------------------------
(* Small instances of Pic: how software sets the controllers up.            *)
EXTENDS Pic

Out(k, a, v) == <<[chip |-> k, address |-> a, write |-> TRUE, value |-> v]>>
In(k, a) == <<[chip |-> k, address |-> a, write |-> FALSE, value |-> 0]>>

\* What a BIOS does: vectors 08h and 70h, the slave on line 2, and a mask.
SetUp(mask) ==
  Out(0, 0, 17) \o Out(0, 1, 8) \o Out(0, 1, 4) \o Out(0, 1, 1)
    \o Out(1, 0, 17) \o Out(1, 1, 112) \o Out(1, 1, 2) \o Out(1, 1, 1)
    \o Out(1, 1, 0) \o Out(0, 1, mask)

Scenario(accesses, sources, nest, steady, patient) ==
  [program |-> accesses, sources |-> sources, nest |-> nest,
   steady |-> steady, patient |-> patient]

\* As the BIOS does, with line 0 masked, the in-service register selected, and line 0
\* unmasked; and with the priorities rotated, line 1 the highest.
BiosPrograms == {SetUp(1) \o Out(0, 0, 11) \o In(0, 0) \o Out(0, 1, 0),
                 SetUp(0) \o Out(0, 0, 192)}
TwoSources == {<<0, 0>>, <<0, 1>>}
ThreeSources == TwoSources \cup {<<1, 0>>}
FourSources == ThreeSources \cup {<<0, 3>>}

\* Every other command, before the set-up: polling, specific and rotating ends of
\* interrupt, special mask, level triggering, automatic end of interrupt.
Commands == {
  Out(0, 0, 25) \o Out(0, 1, 8) \o Out(0, 1, 4) \o Out(0, 1, 3) \o Out(0, 0, 128)
    \o Out(0, 0, 12) \o In(0, 0) \o Out(0, 0, 104) \o Out(0, 0, 0),
  Out(0, 0, 16) \o Out(0, 1, 8) \o Out(0, 1, 0) \o Out(0, 0, 104) \o Out(0, 0, 12) \o In(0, 0)
    \o Out(0, 0, 160) \o Out(0, 0, 97) \o Out(0, 0, 226) }

\* Handlers that nest, with devices that wait for them; devices that withdraw their
\* requests; and a controller that was used in every way before it is set up.
SafetyScenarios ==
  {Scenario(p, FourSources, 3, TRUE, TRUE) : p \in BiosPrograms}
    \cup {Scenario(p, ThreeSources, 1, TRUE, FALSE) : p \in BiosPrograms}
    \cup {Scenario(c \o SetUp(0), TwoSources, 1, TRUE, FALSE) : c \in Commands}

ServedScenarios == {Scenario(SetUp(0), ThreeSources, 2, TRUE, TRUE)}

\* A line may rise while the CPU acknowledges another.
LateScenarios == {Scenario(SetUp(0), ThreeSources, 2, FALSE, TRUE)}

=============================================================================
