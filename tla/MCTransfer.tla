----------------------------- MODULE MCTransfer -----------------------------
(***************************************************************************)
(* Transfers of small trees: a directory "d" with one place "df" in it,    *)
(* and a place "g" beside it.                                              *)
(***************************************************************************)
EXTENDS Transfer

MCNoPath == "none"
MCPaths == {"d", "df", "g"}
MCAbove == [p \in MCPaths |-> IF p = "df" THEN {"d"} ELSE {}]
FaultySize == 2   \* bound of the model: the size of a file where faults are possible
MCLong == {"g"}

\* Settled at the start: may anything fail in this transfer?
VARIABLE faults

\* Every fault.  What the walk cannot see says nothing of the tree at the receiver: where
\* there is such an entry at the start, the output directory is empty and can be written to.
AnyInit == Init /\ faults = TRUE /\ (hidden # {} => DOMAIN old = {} /\ staging)

AnySpec == AnyInit /\ [][Next /\ UNCHANGED faults]_<<vars, faults>>

\* Otherwise nothing fails, the user agrees, and nobody touches the tree, whose paths fit
\* into packets; the output directory is empty.
Faultless == /\ spc # "failed"
             /\ rpc \notin {"refused", "failed", "commit_failed", "killed"}
             /\ changes = 0

LiveInit ==
    /\ Init /\ faults \in BOOLEAN
    /\ \/ faults /\ hidden = {} /\ \A p \in DOMAIN source : source[p].size <= FaultySize
       \/ ~faults /\ staging /\ DOMAIN old = {} /\ DOMAIN source \intersect LongPaths = {}

Live(action) == action /\ (faults \/ Faultless') /\ UNCHANGED faults

\* A side that runs takes its next step; when nothing can come any more the receiver's
\* idle timeout ends its wait.  A user of whom nothing fails answers.
LiveSpec ==
    /\ LiveInit /\ [][Live(Next)]_<<vars, faults>>
    /\ WF_<<vars, faults>>(Live(SenderNext /\ ~SourceChanges))
    /\ WF_<<vars, faults>>(Live(ReceiverNext /\ (receive \/ commit \/ receiver_close)))
    /\ WF_<<vars, faults>>(Live(ReceiverNext /\ Silence /\ receive_error))
    /\ WF_<<vars, faults>>(Live(ReceiverNext /\ ~faults))

\* Nothing failing, a transfer of any tree completes, also of files that end exactly at
\* the boundary of a packet.
FaultlessCompletes == ~faults => <>(rpc = "done" /\ spc = "done")

\* A receiver that the user has let go on comes to an end, although a failing sender
\* says nothing: the wait for packets always ends.
ReceiverEnds ==
    rpc = "receiving" ~> rpc \in {"done", "failed", "commit_failed", "killed"}
=============================================================================
