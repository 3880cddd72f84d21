----------------------------- MODULE TreeOverlay -----------------------------
(***************************************************************************)
(* What a transfer promises to the user of the receiving host: the output  *)
(* tree changes only after the sender has said that everything is sent,    *)
(* one whole entry at a time; nothing disappears, a directory is never     *)
(* replaced, and nothing is replaced by a directory.  A transfer may stop  *)
(* anywhere, also half-way through.                                        *)
(***************************************************************************)
EXTENDS Functions

VARIABLES
    incoming,   \* path -> entry, what the sender has read of its own tree
    complete,   \* the sender has said that this is all
    tree        \* path -> entry, the output directory

overlayVars == <<incoming, complete, tree>>

Init == DOMAIN incoming = {} /\ ~complete

\* The sender reads one more entry; what it has read stays.
Read == /\ ~complete
        /\ DOMAIN incoming \subseteq DOMAIN incoming'
        /\ \A p \in DOMAIN incoming : incoming'[p] = incoming[p]
        /\ UNCHANGED <<complete, tree>>

Finish == complete' = TRUE /\ UNCHANGED <<incoming, tree>>

Install(p) ==
    /\ complete
    /\ p \in DOMAIN tree => tree[p].kind # "dir" /\ incoming[p].kind # "dir"
    /\ tree' = [q \in DOMAIN tree \union {p} |-> IF q = p THEN incoming[p] ELSE tree[q]]
    /\ UNCHANGED <<incoming, complete>>

Next == Read \/ Finish \/ \E p \in DOMAIN incoming : Install(p)

Spec == Init /\ [][Next]_overlayVars
=============================================================================
