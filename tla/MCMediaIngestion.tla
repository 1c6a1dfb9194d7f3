--------------------------- MODULE MCMediaIngestion ---------------------------
(* Instances of MediaIngestion for TLC. *)
EXTENDS MediaIngestion, TLC

CONSTANTS h1, h2, c1

MCRequests == {h1, h2}
MCRequest == {h1}
MCPurgers == {c1}
MCWorkers == {h1, h2, c1}
MCWorker == {h1, c1}

\* Events times generations.
TwoEventRow == {1, 2} \X {0}
ThreeEventRows == {1, 2, 3} \X (0 .. 1)

\* A follow-up with other media; one with the same and then one with other media.
MCOther == <<"first", "second">>
MCBoth == <<"first", "first", "second">>

\* The corners of the safety run: one event, one row and every lifecycle event;
\* three events and nothing else; one event with a second row, while no seal of a
\* dead purge is on its way.
Events(n) == stream.settled <= n /\ \A h \in Request : request[h].event <= n
FirstRows == \A r \in Row : r[2] > 0 => asset[r].state = "absent"
Undisturbed == workspace = "active" /\ privacy = "none" /\ stream.shown = stream.settled
GoodSource == (\A u \in uploads : u.content = "data") /\ (\A r \in Row : object[r] # "wrong")

MediaCorners ==
    \/ Events(1) /\ FirstRows
    \/ FirstRows /\ Undisturbed /\ GoodSource
    \/ Events(1) /\ Undisturbed /\ (FirstRows \/ lateSeals = {})

MCSymmetry == Permutations({h1, h2})
=============================================================================
