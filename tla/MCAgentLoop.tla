---------------------------- MODULE MCAgentLoop ----------------------------
(***************************************************************************)
(* TLC instances of AgentLoop.                                             *)
(***************************************************************************)
EXTENDS AgentLoop, TLC

\* Sound for the runs that check invariants only.
Symmetry == Permutations(SourceIds) \cup Permutations(EventIds) \cup Permutations(Callers)

\* A timeline saved before anything was written to it; the run fills it.
Saved == EmptyTimeline

\* A timeline saved with an event attached to a source.
SavedWithEvent ==
    LET s == CHOOSE i \in SourceIds : TRUE
        e == CHOOSE i \in EventIds : TRUE
    IN  PutEvent(PutSource(EmptyTimeline, s, None), e, [start |-> 0, end |-> 1, source |-> s])
=============================================================================
