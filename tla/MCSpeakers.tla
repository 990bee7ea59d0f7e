----------------------------- MODULE MCSpeakers -----------------------------
(* Instances of the speakers for TLC. *)
EXTENDS Speakers, TLC

\* The blocks of the heap are interchangeable.
CellSymmetry == Permutations(Cells)

MCSamples == 0..MaxFrames

F(c, ps) == [cmd |-> c, ports |-> ps]

\* Every command; a full port number; 00000; and, as answers to the selector,
\* the one-byte commands, which leave the port undefined.
MCFragments == {F("x", {}), F("1", PortValues), F("2", PortValues), F("3", PortValues),
                F("other", {50009}), F("other", {0})}
=============================================================================
