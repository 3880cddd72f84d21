--------------------------- MODULE TransferProofs ---------------------------
(***************************************************************************)
(* For any paths, trees and sizes, whatever happens to the source and      *)
(* wherever either side fails: a transfer implements TreeOverlay and a     *)
(* commit that succeeds leaves the whole tree of the sender over the old   *)
(* one, as long as every path fits into a packet; and, with paths of any   *)
(* length, a commit means that what was announced has been sent, and that  *)
(* what was read is the source if nobody has changed it.                   *)
(***************************************************************************)
EXTENDS Transfer, SequenceTheorems, FiniteSetTheorems, NaturalsInduction,
        WellFoundedInduction, TLAPS

-----------------------------------------------------------------------------
(* What the receiver will have built when it has read a sequence of packets *)

\* An open stream is flushed and closed.
Closed(tree, open, id) ==
    [p \in DOMAIN tree |-> IF open[id].path = p THEN Entry("file", open[id].size, "sender")
                                                ELSE tree[p]]

Made(tree, p, kind) == Put(WithDirectories(tree, p), p, Entry(kind, 0, "sender"))

\* One packet takes the staged tree and the open streams to tree2 and open2.
Handled(m, tree, open, tree2, open2) ==
    /\ m.type = "CREATE_DIRECTORY" => tree2 = Made(tree, m.path, "dir") /\ open2 = open
    /\ m.type = "CREATE_SYMLINK" => tree2 = Made(tree, m.path, "link") /\ open2 = open
    /\ m.type = "CREATE_FILE" => /\ tree2 = Made(tree, m.path, "file")
                                 /\ open2 = Put(open, m.id, [path |-> m.path, size |-> 0])
    /\ m.type = "FILE_DATA" => /\ tree2 = tree
                               /\ open2 = [open EXCEPT ![m.id].size = @ + m.size]
    /\ m.type = "END_FILE" => tree2 = Closed(tree, open, m.id) /\ open2 = Remove(open, m.id)
    /\ m.type \in {"SIZE", "END_TRANSFER"} => tree2 = tree /\ open2 = open

\* A sequence of packets takes the first pair to the second, by way of all between.
Replay(tree, open, packets, tree2, open2) ==
    \E trees, opens :
        /\ trees[0] = tree /\ opens[0] = open
        /\ \A i \in 1 .. Len(packets) :
              Handled(packets[i], trees[i - 1], opens[i - 1], trees[i], opens[i])
        /\ trees[Len(packets)] = tree2 /\ opens[Len(packets)] = open2

\* No packets change nothing.
LEMMA ReplayEmpty ==
    ASSUME NEW tree, NEW open, NEW tree2, NEW open2
    PROVE  Replay(tree, open, << >>, tree2, open2) <=> tree2 = tree /\ open2 = open
<1>1. Len(<< >>) = 0
  OBVIOUS
<1>2. ASSUME Replay(tree, open, << >>, tree2, open2)
      PROVE  tree2 = tree /\ open2 = open
  BY <1>1, <1>2 DEF Replay
<1>3. Replay(tree, open, << >>, tree, open)
  <2> DEFINE trees == [i \in Nat |-> tree]
             opens == [i \in Nat |-> open]
  <2>1. trees[0] = tree /\ opens[0] = open
    OBVIOUS
  <2> HIDE DEF trees, opens
  <2>2. /\ trees[0] = tree /\ opens[0] = open
        /\ \A i \in 1 .. Len(<< >>) :
              Handled(<< >>[i], trees[i - 1], opens[i - 1], trees[i], opens[i])
        /\ trees[Len(<< >>)] = tree /\ opens[Len(<< >>)] = open
    BY <1>1, <2>1
  <2> QED
    BY <2>2 DEF Replay
<1> QED
  BY <1>2, <1>3

\* The sender adds a packet.
LEMMA ReplayAppend ==
    ASSUME NEW S, NEW packets \in Seq(S), NEW m,
           NEW tree, NEW open, NEW tree1, NEW open1, NEW tree2, NEW open2,
           Replay(tree, open, packets, tree1, open1),
           Handled(m, tree1, open1, tree2, open2)
    PROVE  Replay(tree, open, Append(packets, m), tree2, open2)
<1> DEFINE n == Len(packets)
           more == Append(packets, m)
<1>1. /\ n \in Nat /\ Len(more) = n + 1
      /\ \A i \in 1 .. n : more[i] = packets[i]
      /\ more[n + 1] = m
  <2>1. packets \in Seq(S \union {m}) /\ m \in S \union {m}
    BY SeqMonotonic
  <2> QED
    BY <2>1, AppendProperties, LenProperties
<1>2. PICK trees, opens :
        /\ trees[0] = tree /\ opens[0] = open
        /\ \A i \in 1 .. n : Handled(packets[i], trees[i - 1], opens[i - 1], trees[i], opens[i])
        /\ trees[n] = tree1 /\ opens[n] = open1
  BY DEF Replay
<1> HIDE DEF n, more
<1> DEFINE trees2 == [i \in Nat |-> IF i = n + 1 THEN tree2 ELSE trees[i]]
           opens2 == [i \in Nat |-> IF i = n + 1 THEN open2 ELSE opens[i]]
<1>3. /\ \A i \in 0 .. n : trees2[i] = trees[i] /\ opens2[i] = opens[i]
      /\ trees2[n + 1] = tree2 /\ opens2[n + 1] = open2
  BY <1>1
<1> HIDE DEF trees2, opens2
<1>4. ASSUME NEW i \in 1 .. n + 1
      PROVE  Handled(more[i], trees2[i - 1], opens2[i - 1], trees2[i], opens2[i])
  <2>1. CASE i \in 1 .. n
    <3>1. i - 1 \in 0 .. n /\ i \in 0 .. n
      BY <1>1, <2>1
    <3> QED
      BY <1>1, <1>2, <1>3, <2>1, <3>1
  <2>2. CASE i = n + 1
    <3>1. i - 1 = n /\ n \in 0 .. n
      BY <1>1, <2>2
    <3> QED
      BY <1>1, <1>2, <1>3, <2>2, <3>1
  <2> QED
    BY <1>1, <2>1, <2>2
<1>5. trees2[0] = tree /\ opens2[0] = open
  BY <1>1, <1>2, <1>3
<1> QED
  BY <1>1, <1>3, <1>4, <1>5 DEF Replay, more

\* The receiver takes one away.
LEMMA ReplayTail ==
    ASSUME NEW S, NEW packets \in Seq(S), packets # << >>,
           NEW tree, NEW open, NEW tree2, NEW open2,
           Replay(tree, open, packets, tree2, open2)
    PROVE  \E tree1, open1 : /\ Handled(Head(packets), tree, open, tree1, open1)
                             /\ Replay(tree1, open1, Tail(packets), tree2, open2)
<1> DEFINE n == Len(packets)
           rest == Tail(packets)
<1>1. /\ n \in Nat \ {0} /\ Len(rest) = n - 1
      /\ \A i \in 1 .. n - 1 : rest[i] = packets[i + 1]
      /\ Head(packets) = packets[1]
  BY HeadTailProperties, EmptySeq
<1>2. PICK trees, opens :
        /\ trees[0] = tree /\ opens[0] = open
        /\ \A i \in 1 .. n : Handled(packets[i], trees[i - 1], opens[i - 1], trees[i], opens[i])
        /\ trees[n] = tree2 /\ opens[n] = open2
  BY DEF Replay
<1> HIDE DEF n, rest
<1> DEFINE trees1 == [i \in Nat |-> trees[i + 1]]
           opens1 == [i \in Nat |-> opens[i + 1]]
<1>3. \A i \in Nat : trees1[i] = trees[i + 1] /\ opens1[i] = opens[i + 1]
  OBVIOUS
<1> HIDE DEF trees1, opens1
<1>4. ASSUME NEW i \in 1 .. n - 1
      PROVE  Handled(rest[i], trees1[i - 1], opens1[i - 1], trees1[i], opens1[i])
  <2>1. i \in Nat /\ i - 1 \in Nat /\ (i - 1) + 1 = i /\ i + 1 \in 1 .. n /\ (i + 1) - 1 = i
    BY <1>1
  <2>2. Handled(packets[i + 1], trees[i], opens[i], trees[i + 1], opens[i + 1])
    BY <1>2, <2>1
  <2>3. trees1[i - 1] = trees[i] /\ opens1[i - 1] = opens[i]
    BY <1>3, <2>1
  <2> QED
    BY <1>1, <1>3, <2>1, <2>2, <2>3
<1>5. trees1[n - 1] = tree2 /\ opens1[n - 1] = open2
  <2>1. n - 1 \in Nat /\ (n - 1) + 1 = n
    BY <1>1
  <2> QED
    BY <1>2, <1>3, <2>1
<1>6. Replay(trees1[0], opens1[0], rest, tree2, open2)
  BY <1>1, <1>4, <1>5 DEF Replay
<1>7. Handled(Head(packets), tree, open, trees1[0], opens1[0])
  <2>1. 1 \in 1 .. n /\ 1 - 1 = 0 /\ 0 \in Nat /\ 0 + 1 = 1
    BY <1>1
  <2>2. Handled(packets[1], trees[0], opens[0], trees[1], opens[1])
    BY <1>2, <2>1
  <2> QED
    BY <1>1, <1>2, <1>3, <2>1, <2>2
<1> QED
  BY <1>6, <1>7 DEF rest

-----------------------------------------------------------------------------
(* the invariant *)

\* The tree to send: only the size of a regular file can change.
SourceOK ==
    /\ IsTree(source)
    /\ \A p \in DOMAIN source :
          /\ source[p] = Entry(source[p].kind, source[p].size, "sender")
          /\ source[p].kind # "file" => source[p].size = 0

Reading == spc \in {"reading", "ending"}

\* What the second walk has passed is read, but for the file that is open.
Walk ==
    /\ ended => spc \in {"closing", "done", "failed"}
    /\ spc \in {"closing", "done"} => ended
    /\ DOMAIN read \subseteq visited
    /\ IsTree(read)
    /\ spc \in {"start", "asked"} => visited = {}
    /\ spc \in {"start", "asked", "walking"} \/ Reading =>
          \A p \in DOMAIN source \intersect visited :
             \/ Reading /\ p = file.path
             \/ p \in DOMAIN read /\ read[p].kind = source[p].kind
    /\ file = [path |-> file.path, id |-> file.id, pos |-> file.pos]
    /\ Reading => /\ file.path \in DOMAIN source \intersect visited
                  /\ source[file.path].kind = "file"
                  /\ file.path \notin DOMAIN read
                  /\ \A d \in Above[file.path] : IsDir(read, d)

\* Before the answer only the announcement is under way; END_TRANSFER is the last packet.
StreamOK ==
    /\ \E S : stream \in Seq(S)
    /\ \A i \in 1 .. Len(stream) : stream[i].type = "END_TRANSFER" => ended /\ i = Len(stream)
    /\ rpc \in {"start", "asking"} =>
          /\ spc \in {"start", "asked", "failed"} /\ reply = "none"
          /\ \A i \in 1 .. Len(stream) : stream[i].type = "SIZE"

\* What the receiver will have built from everything sent so far.
SentState(tree, open) ==
    /\ ended \/ spc \in {"start", "asked", "walking"} => tree = read /\ DOMAIN open = {}
    /\ Reading => /\ tree = Put(read, file.path, Entry("file", 0, "sender"))
                  /\ open = [i \in {file.id} |-> [path |-> file.path, size |-> file.pos]]

Promised == \E tree, open : Replay(staged, open_files, stream, tree, open) /\ SentState(tree, open)

\* Until the commit the packets under way lead from the staging directory to what is read.
Building == rpc \in {"start", "asking", "receiving"} => user = old /\ committed = {} /\ Promised

\* The committed entries lie over the old tree, and nothing else has changed.
UserOK ==
    /\ DOMAIN user = DOMAIN old \union committed
    /\ \A p \in DOMAIN user :
          IF p \notin committed THEN user[p] = old[p]
          ELSE IF read[p].kind = "dir" THEN user[p].kind = "dir"
          ELSE user[p] = read[p]

\* What is not committed yet is staged, whole.
Committing ==
    /\ rpc = "committing" =>
          /\ ended /\ UserOK
          /\ DOMAIN staged \subseteq DOMAIN read
          /\ \A p \in DOMAIN staged : staged[p] = read[p]
          /\ DOMAIN read \subseteq DOMAIN staged \union committed
          /\ committed \subseteq DOMAIN read
    /\ rpc \in {"closing", "done"} => ended /\ UserOK /\ committed = DOMAIN read

AreFunctions == read = [p \in DOMAIN read |-> read[p]] /\ user = [p \in DOMAIN user |-> user[p]]

Inv == AreFunctions /\ SourceOK /\ Walk /\ StreamOK /\ Building /\ Committing

USE DEF Entry, senderVars, receiverVars, builderVars

-----------------------------------------------------------------------------
(* the sender *)

\* Put adds or replaces one entry and leaves the others.
LEMMA PutFacts ==
    ASSUME NEW f, NEW key, NEW value
    PROVE  /\ DOMAIN Put(f, key, value) = DOMAIN f \union {key}
           /\ Put(f, key, value)[key] = value
           /\ \A x \in DOMAIN f : x # key => Put(f, key, value)[x] = f[x]
BY DEF Put

\* Where the directories are there, an entry is just added.
LEMMA MadeIn ==
    ASSUME NEW tree, NEW p, NEW kind, tree = [q \in DOMAIN tree |-> tree[q]],
           \A d \in Above[p] : IsDir(tree, d)
    PROVE  Made(tree, p, kind) = Put(tree, p, Entry(kind, 0, "sender"))
<1>1. DOMAIN tree \union Above[p] = DOMAIN tree
  BY DEF IsDir
<1>2. WithDirectories(tree, p) = tree
  BY <1>1 DEF WithDirectories
<1> QED
  BY <1>2 DEF Made

\* Whatever others do to the source, it stays a tree of the entries of the sender.
LEMMA SourceStep ==
    ASSUME SourceOK, SenderNext \/ ReceiverNext
    PROVE  SourceOK'
<1>0. SourceOK
  OBVIOUS
<1>1. CASE SourceChanges
  <2>2. ASSUME NEW p \in DOMAIN source, source[p].kind = "file",
               \E size \in 0 .. MaxSize : source' = [source EXCEPT ![p].size = size]
        PROVE  SourceOK'
    <3>1. PICK size \in 0 .. MaxSize : source' = [source EXCEPT ![p].size = size]
      BY <2>2
    <3>2. source'[p] = [kind |-> "file", size |-> size, owner |-> "sender"]
      BY <1>0, <2>2, <3>1 DEF SourceOK
    <3>3. DOMAIN source' = DOMAIN source /\ \A q \in DOMAIN source : q # p => source'[q] = source[q]
      BY <3>1
    <3>4. \A q \in DOMAIN source : source'[q].kind = source[q].kind
      BY <2>2, <3>2, <3>3
    <3>5. IsTree(source)'
      BY <1>0, <3>3, <3>4 DEF SourceOK, IsTree, IsDir
    <3>6. \A q \in DOMAIN source' :
             /\ source'[q] = [kind |-> source'[q].kind, size |-> source'[q].size, owner |-> "sender"]
             /\ source'[q].kind # "file" => source'[q].size = 0
      BY <1>0, <3>2, <3>3 DEF SourceOK
    <3> QED
      BY <3>5, <3>6 DEF SourceOK
  <2>3. ASSUME NEW p \in DOMAIN source, \A q \in DOMAIN source : p \notin Above[q],
               source' = Remove(source, p)
        PROVE  SourceOK'
    <3>1. DOMAIN source' = DOMAIN source \ {p} /\ \A q \in DOMAIN source' : source'[q] = source[q]
      BY <2>3 DEF Remove, Restrict
    <3>2. IsTree(source)'
      BY <1>0, <2>3, <3>1 DEF SourceOK, IsTree, IsDir
    <3> QED
      BY <1>0, <3>1, <3>2 DEF SourceOK
  <2>4. CASE UNCHANGED source
    BY <1>0, <2>4 DEF SourceOK, IsTree, IsDir
  <2> QED
    BY <1>1, <2>2, <2>3, <2>4 DEF SourceChanges
<1>2. CASE UNCHANGED source
  BY <1>0, <1>2 DEF SourceOK, IsTree, IsDir
<1> QED
  BY <1>1, <1>2 DEF SenderNext, ReceiverNext, announce, take_reply, path_handler, read_file, end_file,
     end_transfer, sender_close, sender_fails

\* An entry that is read comes after the directories it lies in, and stays.
LEMMA ReadGrows ==
    ASSUME IsTree(read), NEW p, p \notin DOMAIN read, NEW entry, read' = Put(read, p, entry),
           \A d \in Above[p] : IsDir(read, d)
    PROVE  /\ DOMAIN read' = DOMAIN read \union {p} /\ read'[p] = entry
           /\ \A q \in DOMAIN read : read'[q] = read[q]
           /\ IsTree(read)'
<1>1. /\ DOMAIN read' = DOMAIN read \union {p} /\ read'[p] = entry
      /\ \A q \in DOMAIN read : read'[q] = read[q]
  BY PutFacts
<1>2. ASSUME NEW q \in DOMAIN read', NEW d \in Above[q]
      PROVE  IsDir(read', d)
  <2>1. IsDir(read, d)
    BY <1>1 DEF IsTree
  <2> QED
    BY <1>1, <2>1 DEF IsDir
<1> QED
  BY <1>1, <1>2 DEF IsTree

\* What path_handler finds above an entry is read already.
LEMMA AboveIsRead ==
    ASSUME SourceOK, Walk, spc = "walking", NEW p \in Unvisited
    PROVE  /\ p \in DOMAIN source /\ p \notin visited /\ p \notin DOMAIN read
           /\ \A d \in Above[p] : IsDir(read, d)
<1>1. p \in DOMAIN source /\ p \notin visited /\ Above[p] \subseteq visited
  BY DEF Unvisited, Walked
<1>2. ASSUME NEW d \in Above[p]
      PROVE  IsDir(read, d)
  <2>1. d \in DOMAIN source \intersect visited /\ source[d].kind = "dir"
    BY <1>1 DEF SourceOK, IsTree, IsDir
  <2> QED
    BY <2>1 DEF Walk, Reading, IsDir
<1> QED
  BY <1>1, <1>2 DEF Walk

\* path_handler reports one entry of the walk and adds it to what has been read.
LEMMA PathHandlerWalk ==
    ASSUME SourceOK, Walk, NEW p \in DOMAIN source, path_handler(p)
    PROVE  Walk'
<1>1. /\ spc = "walking" /\ p \in Unvisited /\ visited' = visited \union {p}
      /\ UNCHANGED <<source, ended>>
  BY DEF path_handler
<1>2. /\ p \notin visited /\ p \notin DOMAIN read /\ \A d \in Above[p] : IsDir(read, d)
  BY <1>1, AboveIsRead
<1>3. ~ended
  BY <1>1 DEF Walk
<1>4. CASE spc' = spc /\ file' = file /\ read' = Put(read, p, source[p])
  <2>1. /\ DOMAIN read' = DOMAIN read \union {p} /\ read'[p] = source[p]
        /\ \A q \in DOMAIN read : read'[q] = read[q]
        /\ IsTree(read)'
    BY <1>2, <1>4, ReadGrows DEF Walk
  <2> QED
    BY <1>1, <1>3, <1>4, <2>1 DEF Walk, Reading
<1>5. CASE /\ source[p].kind = "file" /\ spc' = "reading" /\ UNCHANGED read
           /\ file' = [path |-> p, id |-> file_id_counter, pos |-> 0]
  <2>1. IsTree(read)'
    BY <1>5 DEF Walk, IsTree, IsDir
  <2>2. \A d \in Above[p] : IsDir(read, d)'
    BY <1>2, <1>5 DEF IsDir
  <2> QED
    BY <1>1, <1>2, <1>3, <1>5, <2>1, <2>2 DEF Walk, Reading
<1>6. CASE spc' = "failed" /\ UNCHANGED <<read, file>>
  BY <1>1, <1>3, <1>6 DEF Walk, Reading, IsTree, IsDir
<1> QED
  BY <1>4, <1>5, <1>6 DEF path_handler

\* Every step of the sender keeps what is known of its walk.
LEMMA WalkStep ==
    ASSUME SourceOK, Walk, SenderNext \/ ReceiverNext
    PROVE  Walk'
<1>0. SourceOK /\ Walk /\ SourceOK'
  BY SourceStep
<1>1. CASE announce \/ take_reply
  <2>1. /\ spc \in {"start", "asked"} /\ spc' \in {"asked", "walking", "failed"}
        /\ UNCHANGED <<source, visited, file, read, ended>>
    BY <1>1 DEF announce, take_reply
  <2> QED
    BY <1>0, <2>1 DEF Walk, Reading, IsTree, IsDir
<1>2. ASSUME NEW p \in DOMAIN source, path_handler(p)
      PROVE  Walk'
  BY <1>0, <1>2, PathHandlerWalk
<1>3. CASE read_file
  <2>1. /\ spc = "reading" /\ spc' \in {"reading", "ending"}
        /\ file' = [file EXCEPT !.pos = @ + Readable]
        /\ UNCHANGED <<source, visited, read, ended>>
    BY <1>3 DEF read_file
  <2>2. file' = [path |-> file.path, id |-> file.id, pos |-> file.pos + Readable]
    BY <1>0, <2>1 DEF Walk
  <2>3. file'.path = file.path /\ file' = [path |-> file'.path, id |-> file'.id, pos |-> file'.pos]
    BY <2>2
  <2> HIDE DEF Readable
  <2> QED
    BY <1>0, <2>1, <2>3 DEF Walk, Reading, IsTree, IsDir
<1>4. CASE end_file
  <2>1. /\ spc = "ending" /\ spc' = "walking"
        /\ read' = Put(read, file.path, Entry("file", file.pos, "sender"))
        /\ UNCHANGED <<source, visited, file, ended>>
    BY <1>4 DEF end_file
  <2>2. /\ file.path \in DOMAIN source \intersect visited /\ source[file.path].kind = "file"
        /\ file.path \notin DOMAIN read /\ \A d \in Above[file.path] : IsDir(read, d)
    BY <1>0, <2>1 DEF Walk, Reading
  <2>3. /\ DOMAIN read' = DOMAIN read \union {file.path}
        /\ read'[file.path] = Entry("file", file.pos, "sender")
        /\ \A q \in DOMAIN read : read'[q] = read[q]
        /\ IsTree(read)'
    BY <1>0, <2>1, <2>2, ReadGrows DEF Walk
  <2> QED
    BY <1>0, <2>1, <2>2, <2>3 DEF Walk, Reading
<1>5. CASE end_transfer \/ sender_close \/ sender_fails
  <2>1. /\ \/ spc' = "closing" /\ ended'
           \/ spc = "closing" /\ spc' = "done" /\ ended' = ended
           \/ spc' = "failed" /\ ended' = ended
        /\ UNCHANGED <<source, visited, file, read>>
    BY <1>5 DEF end_transfer, sender_close, sender_fails
  <2> QED
    BY <1>0, <2>1 DEF Walk, Reading, IsTree, IsDir
<1>6. CASE SourceChanges
  <2> DEFINE Kept ==
          /\ DOMAIN source' \subseteq DOMAIN source
          /\ \A q \in DOMAIN source' : source'[q].kind = source[q].kind
          /\ Reading => file.path \in DOMAIN source \intersect DOMAIN source' \/ file.path \notin DOMAIN source
  <2>1. UNCHANGED <<spc, visited, file, read, ended>> /\ Kept
    <3>1. UNCHANGED <<spc, visited, file, read, ended>>
      BY <1>6 DEF SourceChanges
    <3>2. ASSUME NEW p \in DOMAIN source, source' = Remove(source, p),
                 spc \in {"reading", "ending"} => file.path # p
          PROVE  Kept
      <4>1. DOMAIN source' = DOMAIN source \ {p} /\ \A q \in DOMAIN source' : source'[q] = source[q]
        BY <3>2 DEF Remove, Restrict
      <4> QED
        BY <3>2, <4>1 DEF Reading
    <3>3. ASSUME NEW p \in DOMAIN source, NEW size \in 0 .. MaxSize,
                 source' = [source EXCEPT ![p].size = size]
          PROVE  DOMAIN source' = DOMAIN source /\ \A q \in DOMAIN source : source'[q].kind = source[q].kind
      <4>1. source'[p] = [source[p] EXCEPT !.size = size]
        BY <3>3
      <4>2. source[p] = [kind |-> source[p].kind, size |-> source[p].size, owner |-> "sender"]
        BY <1>0 DEF SourceOK
      <4>3. source'[p].kind = source[p].kind
        BY <4>1, <4>2
      <4> QED
        BY <3>3, <4>3
    <3>4. ASSUME source' = source
          PROVE  Kept
      <4>1. file.path \in DOMAIN source \intersect DOMAIN source' \/ file.path \notin DOMAIN source
        BY <3>4
      <4> QED
        BY <3>4, <4>1
    <3> QED
      BY <1>6, <3>1, <3>2, <3>3, <3>4 DEF SourceChanges
  <2> QED
    BY <1>0, <2>1 DEF Walk, Reading, IsTree, IsDir
<1>7. CASE ReceiverNext
  BY <1>0, <1>7 DEF ReceiverNext, Walk, Reading, IsTree, IsDir
<1> QED
  BY <1>1, <1>2, <1>3, <1>4, <1>5, <1>6, <1>7 DEF SenderNext

-----------------------------------------------------------------------------
(* the packets *)

\* The indices of a sequence with one packet more.
LEMMA Appended ==
    ASSUME \E S : stream \in Seq(S), NEW m, stream' = Append(stream, m)
    PROVE  /\ \E S : stream' \in Seq(S)
           /\ Len(stream) \in Nat /\ Len(stream') = Len(stream) + 1
           /\ \A i \in 1 .. Len(stream) : stream'[i] = stream[i]
           /\ stream'[Len(stream) + 1] = m
<1>1. PICK S : stream \in Seq(S)
  OBVIOUS
<1>2. stream \in Seq(S \union {m}) /\ m \in S \union {m}
  BY <1>1, SeqMonotonic
<1>3. stream' \in Seq(S \union {m})
  BY <1>2, AppendProperties
<1> QED
  BY <1>2, <1>3, AppendProperties, LenProperties

\* The indices of a sequence without its first packet.
LEMMA Taken ==
    ASSUME \E S : stream \in Seq(S), stream # << >>, stream' = Tail(stream)
    PROVE  /\ \E S : stream' \in Seq(S)
           /\ Len(stream) \in Nat \ {0} /\ Len(stream') = Len(stream) - 1
           /\ \A i \in 1 .. Len(stream') : stream'[i] = stream[i + 1]
           /\ Head(stream) = stream[1]
<1>1. PICK S : stream \in Seq(S)
  OBVIOUS
<1>2. stream' \in Seq(S)
  BY <1>1, HeadTailProperties
<1> QED
  BY <1>1, <1>2, HeadTailProperties, EmptySeq, LenProperties

\* The steps that send nothing and read nothing.
Silent == take_reply \/ sender_close \/ sender_fails \/ SourceChanges

\* Every step keeps the stream: END_TRANSFER is last, and the announcement is alone.
LEMMA StreamStep ==
    ASSUME Walk, StreamOK, SenderNext \/ ReceiverNext
    PROVE  StreamOK'
<1>0. Walk /\ StreamOK
  OBVIOUS
<1>1. CASE announce
  <2>1. /\ stream' = Append(stream, Message("SIZE", NoPath, 0, announced')) /\ spc = "start"
        /\ spc' = "asked" /\ UNCHANGED <<ended, reply>>
    BY <1>1 DEF announce, Say
  <2>2. Message("SIZE", NoPath, 0, announced').type = "SIZE"
    BY DEF Message
  <2>3. rpc' = rpc
    BY <1>1, <2>1 DEF SenderNext, ReceiverNext
  <2>4. ~ended
    BY <1>0, <2>1 DEF Walk
  <2> QED
    BY <1>0, <2>1, <2>2, <2>3, <2>4, Appended DEF StreamOK
<1>2. CASE (\E p \in DOMAIN source : path_handler(p)) \/ read_file \/ end_file
  <2>1. /\ spc \in {"walking", "reading", "ending"} /\ UNCHANGED <<ended, reply>>
        /\ \/ stream' = stream
           \/ \E m : stream' = Append(stream, m) /\ m.type # "END_TRANSFER"
    <3>1. ASSUME NEW type, NEW path, NEW id, NEW size, type # "END_TRANSFER",
                 Say(Message(type, path, id, size))
          PROVE  \E m : stream' = Append(stream, m) /\ m.type # "END_TRANSFER"
      BY <3>1 DEF Say, Message
    <3>2. ASSUME NEW p \in DOMAIN source, path_handler(p)
          PROVE  /\ spc = "walking" /\ UNCHANGED <<ended, reply>>
                 /\ \/ stream' = stream
                    \/ \E m : stream' = Append(stream, m) /\ m.type # "END_TRANSFER"
      BY <3>1, <3>2 DEF path_handler
    <3>3. CASE read_file
      BY <3>1, <3>3 DEF read_file
    <3>4. CASE end_file
      BY <3>1, <3>4 DEF end_file
    <3> QED
      BY <1>2, <3>2, <3>3, <3>4
  <2>2. ~ended /\ rpc \notin {"start", "asking"}
    BY <1>0, <2>1 DEF Walk, StreamOK
  <2>3. rpc' \notin {"start", "asking"}
    BY <2>2 DEF SenderNext, ReceiverNext, receive_announcement, answer, receive, receive_error, commit,
       receiver_close, Kill, handle_packet, begin_commit, fail_transfer
  <2>4. CASE stream' = stream
    BY <1>0, <2>1, <2>2, <2>3, <2>4 DEF StreamOK
  <2>5. CASE \E m : stream' = Append(stream, m) /\ m.type # "END_TRANSFER"
    <3>1. PICK m : stream' = Append(stream, m) /\ m.type # "END_TRANSFER"
      BY <2>5
    <3> QED
      BY <1>0, <2>1, <2>2, <2>3, <3>1, Appended DEF StreamOK
  <2> QED
    BY <2>1, <2>4, <2>5
<1>3. CASE end_transfer
  <2>1. /\ spc = "walking" /\ ended' /\ reply' = reply /\ stream' = Append(stream, EndTransfer)
    BY <1>3 DEF end_transfer, Say
  <2>2. ~ended /\ rpc \notin {"start", "asking"}
    BY <1>0, <2>1 DEF Walk, StreamOK
  <2>3. rpc' = rpc
    BY <1>3, <2>1, <2>2 DEF SenderNext, ReceiverNext
  <2> QED
    BY <1>0, <2>1, <2>2, <2>3, Appended DEF StreamOK
<1>4. CASE Silent /\ UNCHANGED rpc
  <2>1. stream' = stream /\ ended' = ended
    BY <1>4 DEF Silent, take_reply, sender_close, sender_fails, SourceChanges
  <2>2. rpc \in {"start", "asking"} => spc' \in {"start", "asked", "failed"} /\ reply' = "none"
    BY <1>0, <1>4 DEF Silent, take_reply, sender_close, sender_fails, SourceChanges, StreamOK
  <2> QED
    BY <1>0, <1>4, <2>1, <2>2 DEF StreamOK
<1>5. CASE receive_announcement /\ UNCHANGED <<senderVars, old>>
  <2>1. stream # << >> /\ stream' = Tail(stream) /\ rpc = "start" /\ UNCHANGED <<spc, reply, ended>>
    BY <1>5 DEF receive_announcement
  <2> QED
    BY <1>0, <2>1, Taken DEF StreamOK
<1>6. CASE receive /\ UNCHANGED <<senderVars, old>>
  <2>1. stream # << >> /\ stream' = Tail(stream) /\ rpc = "receiving" /\ UNCHANGED <<spc, reply, ended>>
    BY <1>6 DEF receive
  <2>2. rpc' \notin {"start", "asking"}
    BY <1>6, <2>1 DEF receive, handle_packet, fail_transfer, begin_commit
  <2> QED
    BY <1>0, <2>1, <2>2, Taken DEF StreamOK
<1>7. CASE (answer \/ receive_error \/ commit \/ receiver_close \/ Kill) /\ UNCHANGED <<senderVars, old>>
  <2>1. /\ UNCHANGED <<stream, spc, ended>>
        /\ rpc' \notin {"start", "asking"}
    BY <1>7 DEF answer, receive_error, commit, receiver_close, Kill, fail_transfer
  <2> QED
    BY <1>0, <2>1 DEF StreamOK
<1> QED
  BY <1>1, <1>2, <1>3, <1>4, <1>5, <1>6, <1>7 DEF SenderNext, ReceiverNext, Silent

-----------------------------------------------------------------------------
(* what the receiver will have built *)

\* A packet more takes both ends of the promise one step further.
LEMMA PromiseSent ==
    ASSUME StreamOK, Promised, NEW m, stream' = Append(stream, m), UNCHANGED <<staged, open_files>>,
           \A tree, open : SentState(tree, open) =>
              \E tree2, open2 : Handled(m, tree, open, tree2, open2) /\ SentState(tree2, open2)'
    PROVE  Promised'
<1>1. PICK tree, open : Replay(staged, open_files, stream, tree, open) /\ SentState(tree, open)
  BY DEF Promised
<1>2. PICK tree2, open2 : Handled(m, tree, open, tree2, open2) /\ SentState(tree2, open2)'
  BY <1>1
<1>3. PICK S : stream \in Seq(S)
  BY DEF StreamOK
<1>4. Replay(staged, open_files, stream', tree2, open2)
  BY <1>1, <1>2, <1>3, ReplayAppend
<1> QED
  BY <1>2, <1>4 DEF Promised

\* A step that leaves the packets, the staged tree and what is read keeps the promise.
LEMMA PromiseKept ==
    ASSUME Promised, UNCHANGED <<stream, staged, open_files>>,
           \A tree, open : SentState(tree, open) => SentState(tree, open)'
    PROVE  Promised'
BY DEF Promised

\* A packet less: the staging directory is where the packet leads to.
LEMMA PromiseTaken ==
    ASSUME StreamOK, Promised, stream # << >>, stream' = Tail(stream), UNCHANGED senderVars,
           \A tree, open : Handled(Head(stream), staged, open_files, tree, open) =>
              staged' = tree /\ open_files' = open
    PROVE  Promised'
<1>1. PICK tree2, open2 : Replay(staged, open_files, stream, tree2, open2) /\ SentState(tree2, open2)
  BY DEF Promised
<1>2. PICK S : stream \in Seq(S)
  BY DEF StreamOK
<1>3. PICK tree1, open1 : /\ Handled(Head(stream), staged, open_files, tree1, open1)
                          /\ Replay(tree1, open1, Tail(stream), tree2, open2)
  BY <1>1, <1>2, ReplayTail
<1>4. staged' = tree1 /\ open_files' = open1
  BY <1>3
<1>5. SentState(tree2, open2)'
  BY <1>1 DEF SentState, Reading
<1> QED
  BY <1>3, <1>4, <1>5 DEF Promised

\* The packet of path_handler takes the promise to the entry it has read.
LEMMA PathHandlerSends ==
    ASSUME Inv, LongPaths = {}, NEW p \in DOMAIN source, path_handler(p), UNCHANGED builderVars, Promised
    PROVE  Promised'
<1>0. AreFunctions /\ SourceOK /\ Walk /\ StreamOK
  BY DEF Inv
<1>1. /\ spc = "walking" /\ p \in Unvisited /\ UNCHANGED <<source, ended>> /\ p \notin LongPaths
      /\ SentAs(p) = {p}
  BY DEF path_handler, SentAs
<1>2. ~ended /\ \A d \in Above[p] : IsDir(read, d)
  BY <1>0, <1>1, AboveIsRead DEF Walk
<1>3. ASSUME NEW kind
      PROVE  Made(read, p, kind) = Put(read, p, Entry(kind, 0, "sender"))
  <2>1. read = [q \in DOMAIN read |-> read[q]]
    BY <1>0 DEF AreFunctions
  <2> QED
    BY <1>2, <2>1, MadeIn
<1>4. \A tree, open : SentState(tree, open) => tree = read /\ DOMAIN open = {}
  BY <1>1 DEF SentState
<1>5. CASE source[p].kind = "link"
  <2> DEFINE m == Message("CREATE_SYMLINK", p, 0, 0)
  <2>1. stream' = Append(stream, m) /\ spc' = spc /\ read' = Put(read, p, source[p])
    BY <1>1, <1>5 DEF path_handler, Say
  <2>2. PICK made : made = Made(read, p, "link")
    OBVIOUS
  <2>3. read' = made
    <3>1. source[p] = Entry("link", 0, "sender")
      BY <1>0, <1>5 DEF SourceOK
    <3> QED
      BY <2>1, <2>2, <1>3, <3>1
  <2>4. ASSUME NEW tree, NEW open, SentState(tree, open)
        PROVE  Handled(m, tree, open, made, open) /\ SentState(made, open)'
    BY <1>1, <1>4, <2>1, <2>2, <2>3, <2>4 DEF Handled, Message, SentState, Reading
  <2> HIDE DEF m
  <2> QED
    BY <1>0, <2>1, <2>4, PromiseSent
<1>6. CASE source[p].kind = "dir"
  <2> DEFINE m == Message("CREATE_DIRECTORY", p, file_id_counter, 0)
  <2>1. stream' = Append(stream, m) /\ spc' = spc /\ read' = Put(read, p, source[p])
    BY <1>1, <1>6 DEF path_handler, Say
  <2>2. PICK made : made = Made(read, p, "dir")
    OBVIOUS
  <2>3. read' = made
    <3>1. source[p] = Entry("dir", 0, "sender")
      BY <1>0, <1>6 DEF SourceOK
    <3> QED
      BY <2>1, <2>2, <1>3, <3>1
  <2>4. ASSUME NEW tree, NEW open, SentState(tree, open)
        PROVE  Handled(m, tree, open, made, open) /\ SentState(made, open)'
    BY <1>1, <1>4, <2>1, <2>2, <2>3, <2>4 DEF Handled, Message, SentState, Reading
  <2> HIDE DEF m
  <2> QED
    BY <1>0, <2>1, <2>4, PromiseSent
<1>7. CASE source[p].kind = "file"
  <2> DEFINE m == Message("CREATE_FILE", p, file_id_counter, 0)
  <2>1. /\ stream' = Append(stream, m) /\ spc' = "reading" /\ read' = read
        /\ file' = [path |-> p, id |-> file_id_counter, pos |-> 0]
    BY <1>1, <1>7 DEF path_handler, Say
  <2>2. PICK made : made = Made(read, p, "file")
    OBVIOUS
  <2>3. PICK id : id = file_id_counter
    OBVIOUS
  <2>4. made = Put(read, p, Entry("file", 0, "sender"))
    BY <1>3, <2>2
  <2>5. made = Put(read, p, Entry("file", 0, "sender"))'
    BY <2>1, <2>4 DEF Put
  <2>6. ASSUME NEW tree, NEW open, SentState(tree, open)
        PROVE  \E open2 : Handled(m, tree, open, made, open2) /\ SentState(made, open2)'
    <3>1. Handled(m, tree, open, made, Put(open, id, [path |-> p, size |-> 0]))
      BY <1>4, <2>2, <2>3, <2>6 DEF Handled, Message
    <3>2. PICK open2 : open2 = Put(open, id, [path |-> p, size |-> 0])
      OBVIOUS
    <3>3. open2 = [i \in {id} |-> [path |-> p, size |-> 0]]
      BY <1>4, <2>6, <3>2 DEF Put
    <3>4. SentState(made, open2)'
      <4>1. file'.path = p /\ file'.id = id /\ file'.pos = 0 /\ ~ended' /\ spc' = "reading"
        BY <1>1, <1>2, <2>1, <2>3
      <4> QED
        BY <2>5, <3>3, <4>1 DEF SentState, Reading
    <3> QED
      BY <3>1, <3>2, <3>4
  <2> HIDE DEF m
  <2> QED
    BY <1>0, <2>1, <2>6, PromiseSent
<1> QED
  BY <1>5, <1>6, <1>7 DEF path_handler

\* Every step of the sender keeps the promise.
LEMMA SenderPromise ==
    ASSUME Inv, LongPaths = {}, SenderNext, Promised
    PROVE  Promised'
<1>0. AreFunctions /\ SourceOK /\ Walk /\ StreamOK /\ UNCHANGED builderVars
  BY DEF Inv, SenderNext
<1>1. CASE announce
  <2>1. PICK m : m = Message("SIZE", NoPath, 0, announced')
    OBVIOUS
  <2>2. stream' = Append(stream, m) /\ m.type = "SIZE"
    BY <1>1, <2>1 DEF announce, Say, Message
  <2>3. spc = "start" /\ spc' = "asked" /\ UNCHANGED <<read, ended, file>>
    BY <1>1 DEF announce
  <2>4. ASSUME NEW tree, NEW open, SentState(tree, open)
        PROVE  Handled(m, tree, open, tree, open) /\ SentState(tree, open)'
    BY <2>2, <2>3, <2>4 DEF Handled, SentState, Reading
  <2> QED
    BY <1>0, <2>2, <2>4, PromiseSent
<1>2. ASSUME NEW p \in DOMAIN source, path_handler(p)
      PROVE  Promised'
  BY <1>0, <1>2, PathHandlerSends
<1>3. CASE read_file
  <2>1. PICK part : part = Readable
    OBVIOUS
  <2>2. PICK m : m = Message("FILE_DATA", NoPath, file.id, part)
    OBVIOUS
  <2>3. /\ stream' = Append(stream, m) /\ file' = [file EXCEPT !.pos = @ + part]
        /\ spc = "reading" /\ spc' \in {"reading", "ending"} /\ UNCHANGED <<read, ended>>
    BY <1>3, <2>1, <2>2 DEF read_file, Say
  <2>4. m.type = "FILE_DATA" /\ m.id = file.id /\ m.size = part
    BY <2>2 DEF Message
  <2>5. file'.path = file.path /\ file'.id = file.id /\ file'.pos = file.pos + part
    <3>1. file' = [path |-> file.path, id |-> file.id, pos |-> file.pos + part]
      BY <1>0, <2>3 DEF Walk
    <3> QED
      BY <3>1
  <2>6. ~ended
    BY <1>0, <2>3 DEF Walk
  <2>7. ASSUME NEW tree, NEW open, SentState(tree, open)
        PROVE  \E open2 : Handled(m, tree, open, tree, open2) /\ SentState(tree, open2)'
    <3>1. PICK open2 : open2 = [open EXCEPT ![m.id].size = @ + m.size]
      OBVIOUS
    <3>2. /\ tree = Put(read, file.path, Entry("file", 0, "sender"))
          /\ open = [i \in {file.id} |-> [path |-> file.path, size |-> file.pos]]
      BY <2>3, <2>7 DEF SentState, Reading
    <3>3. open2 = [i \in {file.id} |-> [path |-> file.path, size |-> file.pos + part]]
      <4>1. open[file.id] = [path |-> file.path, size |-> file.pos]
        BY <3>2
      <4>2. open2 = [i \in {file.id} |-> [open[file.id] EXCEPT !.size = @ + part]]
        BY <2>4, <3>1, <3>2
      <4> QED
        BY <4>1, <4>2
    <3>4. Handled(m, tree, open, tree, open2)
      BY <2>4, <3>1 DEF Handled
    <3>5. tree = Put(read, file.path, Entry("file", 0, "sender"))'
      BY <2>3, <2>5, <3>2 DEF Put
    <3>6. SentState(tree, open2)'
      BY <2>3, <2>5, <2>6, <3>3, <3>5 DEF SentState, Reading
    <3> QED
      BY <3>4, <3>6
  <2> QED
    BY <1>0, <2>3, <2>7, PromiseSent
<1>4. CASE end_file
  <2>1. PICK m : m = Message("END_FILE", NoPath, file.id, 0)
    OBVIOUS
  <2>2. /\ stream' = Append(stream, m) /\ read' = Put(read, file.path, Entry("file", file.pos, "sender"))
        /\ spc = "ending" /\ spc' = "walking" /\ UNCHANGED ended
    BY <1>4, <2>1 DEF end_file, Say
  <2>3. m.type = "END_FILE" /\ m.id = file.id
    BY <2>1 DEF Message
  <2>4. ~ended
    BY <1>0, <2>2 DEF Walk
  <2>5. ASSUME NEW tree, NEW open, SentState(tree, open)
        PROVE  \E tree2, open2 : Handled(m, tree, open, tree2, open2) /\ SentState(tree2, open2)'
    <3>1. /\ tree = Put(read, file.path, Entry("file", 0, "sender"))
          /\ open = [i \in {file.id} |-> [path |-> file.path, size |-> file.pos]]
      BY <2>2, <2>5 DEF SentState, Reading
    <3>2. PICK tree2 : tree2 = Closed(tree, open, m.id)
      OBVIOUS
    <3>3. PICK open2 : open2 = Remove(open, m.id)
      OBVIOUS
    <3>4. DOMAIN open2 = {}
      BY <2>3, <3>1, <3>3 DEF Remove, Restrict
    <3>5. open[m.id].path = file.path /\ open[m.id].size = file.pos
      BY <2>3, <3>1
    <3>6. /\ tree = [x \in DOMAIN read \union {file.path} |->
                        IF x = file.path THEN Entry("file", 0, "sender") ELSE read[x]]
          /\ read' = [x \in DOMAIN read \union {file.path} |->
                        IF x = file.path THEN Entry("file", file.pos, "sender") ELSE read[x]]
      BY <2>2, <3>1 DEF Put
    <3>7. tree2 = [x \in DOMAIN read \union {file.path} |->
                        IF file.path = x THEN Entry("file", file.pos, "sender") ELSE tree[x]]
      BY <3>2, <3>5, <3>6 DEF Closed
    <3>8. tree2 = read'
      BY <3>6, <3>7
    <3>9. SentState(tree2, open2)'
      BY <2>2, <2>4, <3>4, <3>8 DEF SentState, Reading
    <3>10. Handled(m, tree, open, tree2, open2)
      BY <2>3, <3>2, <3>3 DEF Handled
    <3> QED
      BY <3>9, <3>10
  <2> QED
    BY <1>0, <2>2, <2>5, PromiseSent
<1>5. CASE end_transfer
  <2>1. PICK m : m = EndTransfer
    OBVIOUS
  <2>2. /\ stream' = Append(stream, m) /\ spc = "walking" /\ spc' = "closing" /\ UNCHANGED read
    BY <1>5, <2>1 DEF end_transfer, Say
  <2>3. m.type = "END_TRANSFER"
    BY <2>1 DEF EndTransfer, Message
  <2>4. ASSUME NEW tree, NEW open, SentState(tree, open)
        PROVE  Handled(m, tree, open, tree, open) /\ SentState(tree, open)'
    BY <2>2, <2>3, <2>4 DEF Handled, SentState, Reading
  <2> QED
    BY <1>0, <2>2, <2>4, PromiseSent
<1>6. CASE Silent
  <2>1. /\ UNCHANGED <<stream, read, ended, file>>
        /\ \/ spc = "asked" /\ spc' \in {"walking", "failed"}
           \/ spc = "closing" /\ spc' = "done"
           \/ spc' = "failed"
           \/ spc' = spc
    BY <1>6 DEF Silent, take_reply, sender_close, sender_fails, SourceChanges
  <2>2. spc = "closing" => ended
    BY <1>0 DEF Walk
  <2>3. ASSUME NEW tree, NEW open, SentState(tree, open)
        PROVE  SentState(tree, open)'
    BY <2>1, <2>2, <2>3 DEF SentState, Reading, Put
  <2> QED
    BY <1>0, <2>1, <2>3, PromiseKept
<1> QED
  BY <1>1, <1>2, <1>3, <1>4, <1>5, <1>6 DEF SenderNext, Silent

\* The receiver takes one packet off the near end: what is left keeps the promise.
LEMMA ReceivePromise ==
    ASSUME Inv, UNCHANGED senderVars, Promised,
           stream # << >>, stream' = Tail(stream), handle_packet(Head(stream)), rpc' = "receiving"
    PROVE  Promised' /\ UNCHANGED <<user, committed>>
<1> DEFINE m == Head(stream)
<1>0. StreamOK
  BY DEF Inv
<1>1. ASSUME NEW kind, NEW p, staged' = Put(WithDirectories(staged, p), p, Entry(kind, 0, "sender"))
      PROVE  staged' = Made(staged, p, kind)
  BY <1>1 DEF Made
<1>2. CASE m.type \in {"CREATE_DIRECTORY", "CREATE_SYMLINK", "CREATE_FILE"}
  <2>1. /\ UNCHANGED <<user, committed>>
        /\ m.type = "CREATE_DIRECTORY" => staged' = Made(staged, m.path, "dir") /\ open_files' = open_files
        /\ m.type = "CREATE_SYMLINK" => staged' = Made(staged, m.path, "link") /\ open_files' = open_files
        /\ m.type = "CREATE_FILE" => /\ staged' = Made(staged, m.path, "file")
                                     /\ open_files' = Put(open_files, m.id, [path |-> m.path, size |-> 0])
    BY <1>1, <1>2 DEF handle_packet, create_directory, create_symlink, create_file
  <2> HIDE DEF m
  <2>2. \A tree, open : Handled(m, staged, open_files, tree, open) => staged' = tree /\ open_files' = open
    BY <1>2, <2>1 DEF Handled
  <2> USE DEF m
  <2> QED
    BY <1>0, <2>1, <2>2, PromiseTaken
<1>3. CASE m.type = "FILE_DATA"
  <2>1. /\ UNCHANGED <<user, committed, staged>>
        /\ open_files' = [open_files EXCEPT ![m.id].size = @ + m.size]
    BY <1>3 DEF handle_packet, write
  <2>2. \A tree, open : Handled(m, staged, open_files, tree, open) => staged' = tree /\ open_files' = open
    BY <1>3, <2>1 DEF Handled
  <2> QED
    BY <1>0, <2>1, <2>2, PromiseTaken
<1>4. CASE m.type = "END_FILE"
  <2>1. /\ UNCHANGED <<user, committed>> /\ staged' = Flushed({m.id}) /\ open_files' = Remove(open_files, m.id)
    BY <1>4 DEF handle_packet, close_file
  <2> HIDE DEF m
  <2>2. Flushed({m.id}) = Closed(staged, open_files, m.id)
    BY DEF Flushed, Closed
  <2>3. \A tree, open : Handled(m, staged, open_files, tree, open) => staged' = tree /\ open_files' = open
    BY <1>4, <2>1, <2>2 DEF Handled
  <2> USE DEF m
  <2> QED
    BY <1>0, <2>1, <2>3, PromiseTaken
<1> QED
  BY <1>2, <1>3, <1>4 DEF handle_packet, begin_commit

\* Every step keeps what is known of the staged tree while it is built.
LEMMA BuildingStep ==
    ASSUME Inv, LongPaths = {}, SenderNext \/ ReceiverNext
    PROVE  Building'
<1>0. Building /\ StreamOK
  BY DEF Inv
<1>1. CASE SenderNext
  <2>1. UNCHANGED <<rpc, old, user, committed>>
    BY <1>1 DEF SenderNext
  <2> QED
    BY <1>0, <1>1, <2>1, SenderPromise DEF Building
<1>2. CASE receive_announcement /\ UNCHANGED <<senderVars, old>>
  <2>1. /\ rpc = "start" /\ rpc' = "asking" /\ stream # << >> /\ stream' = Tail(stream)
        /\ UNCHANGED <<user, committed, staged, open_files, old>>
    BY <1>2 DEF receive_announcement
  <2>2. Head(stream).type = "SIZE"
    BY <1>0, <2>1, Taken DEF StreamOK
  <2>3. \A tree, open : Handled(Head(stream), staged, open_files, tree, open) =>
           staged' = tree /\ open_files' = open
    BY <2>1, <2>2 DEF Handled
  <2> QED
    BY <1>0, <1>2, <2>1, <2>3, PromiseTaken DEF Building
<1>3. CASE answer /\ UNCHANGED <<senderVars, old>>
  <2>1. /\ rpc = "asking" /\ UNCHANGED <<stream, user, committed, staged, open_files, old>>
    BY <1>3 DEF answer
  <2>2. \A tree, open : SentState(tree, open) => SentState(tree, open)'
    BY <1>3 DEF SentState, Reading
  <2> QED
    BY <1>0, <2>1, <2>2, PromiseKept DEF Building
<1>4. CASE receive /\ UNCHANGED <<senderVars, old>>
  <2>1. CASE rpc' = "receiving"
    <3>1. rpc = "receiving" /\ stream # << >> /\ stream' = Tail(stream) /\ handle_packet(Head(stream))
      BY <1>4, <2>1 DEF receive, fail_transfer
    <3> QED
      BY <1>0, <1>4, <2>1, <3>1, ReceivePromise DEF Building
  <2>2. rpc' \notin {"start", "asking"}
    BY <1>4 DEF receive, fail_transfer, handle_packet, begin_commit
  <2> QED
    BY <2>1, <2>2 DEF Building
<1>5. CASE receive_error \/ commit \/ receiver_close \/ Kill
  <2>1. rpc' \notin {"start", "asking", "receiving"}
    BY <1>5 DEF receive_error, commit, receiver_close, Kill, fail_transfer
  <2> QED
    BY <2>1 DEF Building
<1> QED
  BY <1>1, <1>2, <1>3, <1>4, <1>5 DEF ReceiverNext

-----------------------------------------------------------------------------
(* the commit *)

\* The last packet is taken: what is staged is all that the sender has read.
LEMMA AllStaged ==
    ASSUME Inv, rpc = "receiving", stream # << >>, Head(stream).type = "END_TRANSFER"
    PROVE  staged = read /\ DOMAIN open_files = {} /\ ended
<1>0. Building /\ StreamOK
  BY DEF Inv
<1>1. PICK S : stream \in Seq(S)
  BY <1>0 DEF StreamOK
<1>2. ended /\ 1 = Len(stream)
  <2>1. Len(stream) \in Nat \ {0} /\ Head(stream) = stream[1]
    BY <1>1, HeadTailProperties, EmptySeq, LenProperties
  <2>2. 1 \in 1 .. Len(stream)
    BY <2>1
  <2> QED
    BY <1>0, <2>1, <2>2 DEF StreamOK
<1>3. Tail(stream) = << >>
  <2>1. Tail(stream) \in Seq(S) /\ Len(Tail(stream)) = Len(stream) - 1
    BY <1>1, HeadTailProperties
  <2> QED
    BY <1>2, <2>1, EmptySeq
<1>4. PICK tree, open : Replay(staged, open_files, stream, tree, open) /\ SentState(tree, open)
  BY <1>0 DEF Building, Promised
<1>5. PICK tree1, open1 : /\ Handled(Head(stream), staged, open_files, tree1, open1)
                          /\ Replay(tree1, open1, Tail(stream), tree, open)
  BY <1>1, <1>4, ReplayTail
<1>6. tree = staged /\ open = open_files
  <2>1. tree1 = staged /\ open1 = open_files
    BY <1>5 DEF Handled
  <2>2. Replay(staged, open_files, << >>, tree, open)
    BY <1>3, <1>5, <2>1
  <2> QED
    BY <2>2, ReplayEmpty
<1> QED
  BY <1>2, <1>4, <1>6 DEF SentState

\* An entry is moved into place: the directories it lies in are there.
LEMMA EntryMoved ==
    ASSUME Inv, rpc = "committing", NEW p, p \in DOMAIN staged \ committed,
           Above[p] \subseteq committed, Reachable(user, p)
    PROVE  /\ p \in DOMAIN read /\ staged[p] = read[p]
           /\ WithDirectories(user, p) = user
           /\ WithDirectories(Put(user, p, staged[p]), p) = Put(user, p, staged[p])
<1>0. AreFunctions /\ Committing
  BY DEF Inv
<1>1. Above[p] \subseteq DOMAIN user
  BY <1>0 DEF Committing, UserOK
<1>2. DOMAIN user \union Above[p] = DOMAIN user
  BY <1>1
<1>3. WithDirectories(user, p) = [q \in DOMAIN user |-> user[q]]
  BY <1>2 DEF WithDirectories
<1>4. (DOMAIN user \union {p}) \union Above[p] = DOMAIN user \union {p}
  BY <1>1
<1>5. DOMAIN Put(user, p, staged[p]) = DOMAIN user \union {p}
  BY DEF Put
<1>6. WithDirectories(Put(user, p, staged[p]), p) =
         [q \in DOMAIN user \union {p} |-> Put(user, p, staged[p])[q]]
  BY <1>4, <1>5 DEF WithDirectories
<1>7. Put(user, p, staged[p]) = [q \in DOMAIN user \union {p} |-> Put(user, p, staged[p])[q]]
  BY DEF Put
<1> QED
  BY <1>0, <1>3, <1>6, <1>7 DEF Committing, AreFunctions

\* What commit does with an entry.
LEMMA CommitEntry ==
    ASSUME Inv, rpc = "committing", NEW p \in DOMAIN staged, commit_directory(p) \/ commit_entry(p)
    PROVE  /\ p \in DOMAIN read /\ p \notin committed /\ committed' = committed \union {p}
           /\ \/ /\ user' = user /\ staged' = staged
                 /\ read[p].kind = "dir" /\ IsDir(user, p)
              \/ /\ user' = Put(user, p, read[p])
                 /\ staged' = staged /\ read[p].kind = "dir" /\ p \notin DOMAIN user
              \/ /\ user' = Put(user, p, read[p])
                 /\ staged' = Remove(staged, p)
                 /\ read[p].kind # "dir" /\ ~IsDir(user, p)
<1>1. /\ p \in DOMAIN staged \ committed /\ Above[p] \subseteq committed /\ Reachable(user, p)
      /\ committed' = committed \union {p}
  BY DEF commit_directory, commit_entry, NextEntry
<1>2. /\ p \in DOMAIN read /\ staged[p] = read[p]
      /\ WithDirectories(user, p) = user
      /\ WithDirectories(Put(user, p, staged[p]), p) = Put(user, p, staged[p])
  BY <1>1, EntryMoved
<1>3. CASE commit_directory(p)
  BY <1>1, <1>2, <1>3 DEF commit_directory, IsDir
<1>4. CASE commit_entry(p)
  BY <1>1, <1>2, <1>4 DEF commit_entry, IsDir
<1> QED
  BY <1>3, <1>4

\* Trees stay functions.
LEMMA FunctionsStep ==
    ASSUME Inv, SenderNext \/ ReceiverNext
    PROVE  AreFunctions'
<1>0. AreFunctions
  BY DEF Inv
<1>1. read' = [p \in DOMAIN read' |-> read'[p]]
  <2>1. CASE UNCHANGED read
    BY <1>0, <2>1 DEF AreFunctions
  <2>2. ASSUME NEW p, NEW entry, read' = Put(read, p, entry)
        PROVE  read' = [q \in DOMAIN read' |-> read'[q]]
    BY <2>2 DEF Put
  <2> QED
    BY <2>1, <2>2 DEF SenderNext, ReceiverNext, announce, take_reply, path_handler, read_file, end_file,
       end_transfer, sender_close, sender_fails, SourceChanges
<1>2. user' = [p \in DOMAIN user' |-> user'[p]]
  <2>1. CASE UNCHANGED user
    BY <1>0, <2>1 DEF AreFunctions
  <2>2. ASSUME NEW p \in DOMAIN staged, rpc = "committing", commit_directory(p) \/ commit_entry(p)
        PROVE  user' = [q \in DOMAIN user' |-> user'[q]]
    <3>1. user' = user \/ user' = Put(user, p, read[p])
      BY <2>2, CommitEntry
    <3> QED
      BY <2>1, <3>1 DEF Put
  <2> QED
    BY <2>1, <2>2 DEF SenderNext, ReceiverNext, receive_announcement, answer, receive, receive_error,
       commit, receiver_close, Kill, handle_packet, create_directory, create_file, create_symlink,
       write, close_file, begin_commit, close_all, fail_transfer, cleanup, commit_done
<1> QED
  BY <1>1, <1>2 DEF AreFunctions

\* Every step keeps where each entry is during the commit.
LEMMA CommittingStep ==
    ASSUME Inv, SenderNext \/ ReceiverNext
    PROVE  Committing'
<1>0. Walk /\ Building /\ Committing
  BY DEF Inv
<1>1. CASE SenderNext
  <2>1. UNCHANGED <<rpc, old, user, staged, committed>>
    BY <1>1 DEF SenderNext
  <2>2. ended => UNCHANGED <<ended, read>>
    BY <1>0, <1>1 DEF SenderNext, Walk, announce, take_reply, path_handler, read_file, end_file,
       end_transfer, sender_close, sender_fails, SourceChanges
  <2> QED
    BY <1>0, <2>1, <2>2 DEF Committing, UserOK
<1>2. CASE receive /\ UNCHANGED <<senderVars, old>>
  <2>1. CASE rpc' \in {"committing", "closing", "done"}
    <3>1. /\ rpc = "receiving" /\ stream # << >> /\ Head(stream).type = "END_TRANSFER"
          /\ rpc' = "committing" /\ close_all
      BY <1>2, <2>1 DEF receive, handle_packet, begin_commit, fail_transfer
    <3>2. staged = read /\ DOMAIN open_files = {} /\ ended
      BY <3>1, AllStaged
    <3>3. DOMAIN staged' = DOMAIN staged /\ \A p \in DOMAIN staged : staged'[p] = staged[p]
      BY <3>1, <3>2 DEF close_all, Flushed
    <3>4. user' = old /\ committed' = {} /\ UNCHANGED <<read, ended, old>>
      BY <1>0, <1>2, <3>1 DEF close_all, Building
    <3> QED
      BY <3>1, <3>2, <3>3, <3>4 DEF Committing, UserOK
  <2> QED
    BY <2>1 DEF Committing
<1>3. CASE commit /\ UNCHANGED <<senderVars, old>>
  <2>1. rpc = "committing" /\ UNCHANGED <<read, ended, old>>
    BY <1>3 DEF commit
  <2>2. CASE rpc' = rpc /\ \E p \in DOMAIN staged : commit_directory(p) \/ commit_entry(p)
    <3>1. PICK p \in DOMAIN staged : commit_directory(p) \/ commit_entry(p)
      BY <2>2
    <3>2. /\ p \in DOMAIN read /\ p \notin committed /\ committed' = committed \union {p}
          /\ \/ /\ user' = user /\ staged' = staged
                /\ read[p].kind = "dir" /\ IsDir(user, p)
             \/ /\ user' = Put(user, p, read[p])
                /\ staged' = staged /\ read[p].kind = "dir" /\ p \notin DOMAIN user
             \/ /\ user' = Put(user, p, read[p])
                /\ staged' = Remove(staged, p)
                /\ read[p].kind # "dir" /\ ~IsDir(user, p)
      BY <2>1, <3>1, CommitEntry
    <3>3. /\ DOMAIN staged \ {p} \subseteq DOMAIN staged' /\ DOMAIN staged' \subseteq DOMAIN staged
          /\ \A q \in DOMAIN staged' : staged'[q] = staged[q]
      BY <3>2 DEF Remove, Restrict
    <3>4. UserOK'
      <4>1. CASE user' = user /\ read[p].kind = "dir" /\ IsDir(user, p)
        BY <1>0, <2>1, <3>2, <4>1 DEF Committing, UserOK, IsDir
      <4>2. CASE user' = Put(user, p, read[p])
        <5>1. /\ DOMAIN user' = DOMAIN user \union {p} /\ user'[p] = read[p]
              /\ \A q \in DOMAIN user : q # p => user'[q] = user[q]
          BY <4>2 DEF Put
        <5> QED
          BY <1>0, <2>1, <3>2, <5>1 DEF Committing, UserOK
      <4> QED
        BY <3>2, <4>1, <4>2
    <3> QED
      BY <1>0, <2>1, <2>2, <3>2, <3>3, <3>4 DEF Committing
  <2>3. CASE commit_done /\ rpc' = "closing"
    BY <1>0, <2>1, <2>3 DEF Committing, UserOK, commit_done
  <2> QED
    BY <1>3, <2>2, <2>3 DEF commit, Committing
<1>4. CASE receiver_close /\ UNCHANGED <<senderVars, old>>
  BY <1>0, <1>4 DEF receiver_close, Committing, UserOK
<1>5. CASE receive_announcement \/ answer \/ receive_error \/ Kill
  <2>1. rpc' \notin {"committing", "closing", "done"}
    BY <1>5 DEF receive_announcement, answer, receive_error, Kill, fail_transfer
  <2> QED
    BY <2>1 DEF Committing
<1> QED
  BY <1>1, <1>2, <1>3, <1>4, <1>5 DEF ReceiverNext

-----------------------------------------------------------------------------
(* the theorems *)

\* The invariant holds at the start.
LEMMA InvInit == Init => Inv
<1> SUFFICES ASSUME Init PROVE Inv
  OBVIOUS
<1>1. SourceOK
  BY DEF Init, TreesOf, SourceOK
<1>2. AreFunctions
  BY DEF Init, TreesOf, AreFunctions
<1>3. Walk
  BY DEF Init, Walk, Reading, IsTree
<1>4. StreamOK
  <2>1. stream \in Seq({}) /\ Len(stream) = 0
    BY DEF Init
  <2> QED
    BY <2>1 DEF Init, StreamOK
<1>5. Building
  <2>1. Replay(staged, open_files, stream, staged, open_files)
    BY ReplayEmpty DEF Init
  <2>2. SentState(staged, open_files)
    BY DEF Init, BuilderInit, SentState, Reading
  <2> QED
    BY <2>1, <2>2 DEF Init, BuilderInit, Building, Promised
<1>6. Committing
  BY DEF Init, Committing
<1> QED
  BY <1>1, <1>2, <1>3, <1>4, <1>5, <1>6 DEF Inv

\* The invariant is inductive where every path fits into a packet.
LEMMA InvStep == LongPaths = {} /\ Inv /\ [Next]_vars => Inv'
<1> SUFFICES ASSUME LongPaths = {}, Inv, [Next]_vars PROVE Inv'
  OBVIOUS
<1>1. CASE SenderNext \/ ReceiverNext
  BY <1>1, SourceStep, WalkStep, StreamStep, FunctionsStep, BuildingStep, CommittingStep DEF Inv
<1>2. CASE UNCHANGED vars
  <2>0. AreFunctions /\ SourceOK /\ Walk /\ StreamOK /\ Building /\ Committing
    BY DEF Inv
  <2>1. AreFunctions' /\ SourceOK' /\ StreamOK'
    BY <1>2, <2>0 DEF vars, AreFunctions, SourceOK, StreamOK, IsTree, IsDir
  <2>2. Walk'
    BY <1>2, <2>0 DEF vars, Walk, Reading, IsTree, IsDir
  <2>3. Building'
    <3>1. UNCHANGED <<stream, staged, open_files, user, committed, old, rpc, spc, read, ended, file>>
      BY <1>2 DEF vars
    <3>2. \A tree, open : SentState(tree, open) => SentState(tree, open)'
      BY <3>1 DEF SentState, Reading, Put
    <3> QED
      BY <2>0, <3>1, <3>2, PromiseKept DEF Building
  <2>4. Committing'
    BY <1>2, <2>0 DEF vars, Committing, UserOK
  <2> QED
    BY <2>1, <2>2, <2>3, <2>4 DEF Inv
<1> QED
  BY <1>1, <1>2 DEF Next

\* When every path fits into a packet and commit() succeeds, the output tree is the old one
\* with every entry the sender has read laid over it, for any trees, any sizes and any
\* interleaving of the two sides, their failures and changes of the source.
THEOREM CommitOverlays ==
    ASSUME LongPaths = {}
    PROVE  Spec => []CommittedIsOverlay
<1>1. Inv => CommittedIsOverlay
  BY DEF Inv, Committing, UserOK, CommittedIsOverlay
<1> QED
  BY <1>1, InvInit, InvStep, PTL DEF Spec

\* When every path fits into a packet, a transfer implements TreeOverlay: the output tree
\* changes only by whole entries of what the sender has read, after END_TRANSFER.
THEOREM TransferImplementsOverlay ==
    ASSUME LongPaths = {}
    PROVE  Spec => OverlaySpec
<1>1. Init => Overlay!Init
  BY DEF Init, Overlay!Init
<1>2. ASSUME LongPaths = {}, Inv, [Next]_vars
      PROVE  [Overlay!Next]_(Overlay!overlayVars)
  <2>0. AreFunctions /\ SourceOK /\ Walk /\ Committing
    BY <1>2 DEF Inv
  <2>1. CASE UNCHANGED <<read, ended, user>>
    BY <2>1 DEF Overlay!overlayVars
  <2>2. ASSUME NEW p, NEW entry, read' = Put(read, p, entry), p \notin DOMAIN read, ~ended,
               UNCHANGED <<ended, user>>
        PROVE  Overlay!Next
    <3>1. /\ DOMAIN read \subseteq DOMAIN read'
          /\ \A q \in DOMAIN read : read'[q] = read[q]
      BY <2>2 DEF Put
    <3> QED
      BY <2>2, <3>1 DEF Overlay!Next, Overlay!Read
  <2>3. ASSUME NEW p \in DOMAIN source, path_handler(p), UNCHANGED user
        PROVE  [Overlay!Next]_(Overlay!overlayVars)
    <3>1. p \notin DOMAIN read /\ ~ended /\ ended' = ended
      BY <2>0, <2>3, AboveIsRead DEF path_handler, Walk
    <3>2. read' = read \/ read' = Put(read, p, source[p])
      BY <2>3 DEF path_handler
    <3> QED
      BY <2>1, <2>2, <2>3, <3>1, <3>2
  <2>4. CASE end_file /\ UNCHANGED user
    <3>1. file.path \notin DOMAIN read /\ ~ended /\ ended' = ended
      BY <2>0, <2>4 DEF end_file, Walk, Reading
    <3> QED
      BY <2>2, <2>4, <3>1 DEF end_file
  <2>5. CASE end_transfer /\ UNCHANGED user
    BY <2>5 DEF end_transfer, Overlay!Next, Overlay!Finish
  <2>6. CASE commit /\ UNCHANGED senderVars
    <3>1. ASSUME NEW p \in DOMAIN staged, rpc = "committing", commit_directory(p) \/ commit_entry(p)
          PROVE  [Overlay!Next]_(Overlay!overlayVars)
      <4>1. CASE user' = user
        BY <2>1, <2>6, <4>1
      <4>2. CASE user' # user
        <5>1. /\ p \in DOMAIN read /\ user' = Put(user, p, read[p])
              /\ p \in DOMAIN user => user[p].kind # "dir" /\ read[p].kind # "dir"
          <6>1. /\ p \in DOMAIN read
                /\ \/ /\ user' = Put(user, p, read[p])
                      /\ read[p].kind = "dir" /\ p \notin DOMAIN user
                   \/ /\ user' = Put(user, p, read[p])
                      /\ read[p].kind # "dir" /\ ~IsDir(user, p)
            BY <1>2, <3>1, <4>2, CommitEntry
          <6> QED
            BY <6>1 DEF IsDir
        <5>2. Overlay!Install(p)
          BY <2>0, <2>6, <3>1, <5>1 DEF Overlay!Install, Put, Committing
        <5> QED
          BY <5>1, <5>2 DEF Overlay!Next
      <4> QED
        BY <4>1, <4>2
    <3>2. CASE UNCHANGED user
      BY <2>1, <2>6, <3>2
    <3> QED
      BY <2>6, <3>1, <3>2 DEF commit, commit_done
  <2>7. CASE /\ announce \/ take_reply \/ read_file \/ sender_close \/ sender_fails \/ SourceChanges
             /\ UNCHANGED user
    <3>1. UNCHANGED <<read, ended>>
      BY <2>7 DEF announce, take_reply, read_file, sender_close, sender_fails, SourceChanges
    <3> QED
      BY <1>2, <2>1, <2>7, <3>1
  <2>8. CASE (receive_announcement \/ answer \/ receive \/ receive_error \/ receiver_close \/ Kill)
             /\ UNCHANGED senderVars
    <3>1. UNCHANGED user
      BY <2>8 DEF receive_announcement, answer, receive, receive_error, receiver_close, Kill,
         handle_packet, create_directory, create_file, create_symlink, write, close_file, begin_commit,
         close_all, fail_transfer, cleanup
    <3> QED
      BY <2>1, <2>8, <3>1
  <2> QED
    BY <1>2, <2>1, <2>3, <2>4, <2>5, <2>6, <2>7, <2>8 DEF Next, SenderNext, ReceiverNext, vars
<1> QED
  BY <1>1, <1>2, InvInit, InvStep, PTL DEF Spec, OverlaySpec, Overlay!Spec

-----------------------------------------------------------------------------
(* The size of a tree *)

Sized(tree) == IsFiniteSet(DOMAIN tree) /\ \A p \in DOMAIN tree : tree[p].size \in Nat

\* The sizes of the sets of entries, whichever entry is taken out.
Sums(f, tree) ==
    /\ f[{}] = 0
    /\ \A s \in SUBSET DOMAIN tree :
          /\ f[s] \in Nat
          /\ \A p \in s : f[s] = tree[p].size + f[s \ {p}]

\* Induction over the naturals, for a set.
LEMMA NatSetInduction ==
    ASSUME NEW N, 0 \in N, \A n \in Nat : n \in N => n + 1 \in N
    PROVE  Nat \subseteq N
<1> SUFFICES ASSUME Nat \ N # {} PROVE FALSE
  OBVIOUS
<1> DEFINE R == {ss \in Nat \X Nat : ss[1] < ss[2]}
<1>1. IsWellFoundedOn(R, Nat)
  BY NatLessThanWellFounded DEF OpToRel
<1>2. \A m, n \in Nat : m < n => <<m, n>> \in R
  OBVIOUS
<1> HIDE DEF R
<1>3. PICK n \in Nat \ N : \A m \in Nat \ N : ~ (<<m, n>> \in R)
  BY <1>1, WFMin
<1>4. n # 0 /\ n - 1 \in Nat /\ n - 1 < n /\ (n - 1) + 1 = n
  OBVIOUS
<1> QED
  BY <1>2, <1>3, <1>4

\* Sets of entries of a tree can be taken one entry after the other.
LEMMA SetInduction ==
    ASSUME NEW D, IsFiniteSet(D), NEW W, {} \in W,
           \A s \in SUBSET D : s # {} /\ (\A p \in s : s \ {p} \in W) => s \in W
    PROVE  SUBSET D \subseteq W
<1> DEFINE N == {n \in Nat : \A s \in SUBSET D : Cardinality(s) = n => s \in W}
<1>0. \A s \in SUBSET D : IsFiniteSet(s) /\ Cardinality(s) \in Nat
  BY FS_Subset, FS_CardinalityType
<1>1. 0 \in N
  BY <1>0, FS_EmptySet
<1>2. ASSUME NEW n \in Nat, n \in N
      PROVE  n + 1 \in N
  <2> SUFFICES ASSUME NEW s \in SUBSET D, Cardinality(s) = n + 1
               PROVE  s \in W
    OBVIOUS
  <2>1. s # {}
    BY FS_EmptySet
  <2>2. ASSUME NEW p \in s
        PROVE  s \ {p} \in W
    <3>1. Cardinality(s \ {p}) = n /\ s \ {p} \in SUBSET D
      BY <1>0, FS_RemoveElement
    <3> QED
      BY <1>2, <3>1
  <2> QED
    BY <2>1, <2>2
<1> HIDE DEF N
<1>3. Nat \subseteq N
  BY <1>1, <1>2, NatSetInduction
<1> QED
  BY <1>0, <1>3 DEF N

\* FoldFunction takes the entries out in an order of its own; the sum is that of any order.
LEMMA TotalSums ==
    ASSUME NEW tree, Sized(tree)
    PROVE  \E f : Sums(f, tree) /\ Total(tree) = f[DOMAIN tree]
<1> DEFINE D == DOMAIN tree
           c(s) == CHOOSE p \in s : TRUE
           Rec(f) == [s \in SUBSET D |-> IF s = {} THEN 0 ELSE tree[c(s)].size + f[s \ {c(s)}]]
           iter == CHOOSE f : f = Rec(f)
<1>1. Total(tree) = iter[D]
  BY DEF Total, FoldFunction, FoldFunctionOnSet, MapThenFoldSet
<1>2. \A s \in SUBSET D : IsFiniteSet(s) /\ Cardinality(s) \in Nat /\ Cardinality(s) <= Cardinality(D)
  BY FS_Subset, FS_CardinalityType DEF Sized
<1>3. \A s \in SUBSET D : s # {} => c(s) \in s
  OBVIOUS
<1>4. \E f : f = Rec(f)
  <2> DEFINE Upto(k) == {s \in SUBSET D : Cardinality(s) <= k}
             Is(k, g) == \A s \in Upto(k) :
                           g[s] = IF s = {} THEN 0 ELSE tree[c(s)].size + g[s \ {c(s)}]
             N == {k \in Nat : \E g : Is(k, g)}
  <2> HIDE DEF c
  <2>1. 0 \in N
    <3> DEFINE g == [s \in SUBSET D |-> 0]
    <3>1. \A s \in Upto(0) : s = {} /\ g[s] = 0
      BY <1>2, FS_EmptySet
    <3> QED
      BY <3>1
  <2>2. ASSUME NEW k \in Nat, k \in N
        PROVE  k + 1 \in N
    <3>1. PICK g : Is(k, g)
      BY <2>2
    <3> DEFINE h == [s \in SUBSET D |-> IF Cardinality(s) <= k THEN g[s]
                                        ELSE tree[c(s)].size + g[s \ {c(s)}]]
    <3>2. \A s \in Upto(k) : h[s] = g[s]
      OBVIOUS
    <3>3. ASSUME NEW s \in SUBSET D, s # {}, Cardinality(s) <= k + 1
          PROVE  s \ {c(s)} \in Upto(k)
      <4>1. Cardinality(s \ {c(s)}) = Cardinality(s) - 1
        BY <1>2, <1>3, <3>3, FS_RemoveElement
      <4>2. Cardinality(s) \in Nat /\ s \ {c(s)} \in SUBSET D
        BY <1>2
      <4> QED
        BY <3>3, <4>1, <4>2
    <3>4. ASSUME NEW s \in Upto(k + 1)
          PROVE  h[s] = IF s = {} THEN 0 ELSE tree[c(s)].size + h[s \ {c(s)}]
      <4>1. CASE s \in Upto(k)
        <5>1. s # {} => s \ {c(s)} \in Upto(k)
          BY <1>2, <3>3, <4>1
        <5> QED
          BY <3>1, <3>2, <4>1, <5>1
      <4>2. CASE s \notin Upto(k)
        <5>1. s # {}
          BY <4>2, FS_EmptySet
        <5>2. s \ {c(s)} \in Upto(k)
          BY <3>3, <5>1
        <5>3. h[s] = tree[c(s)].size + g[s \ {c(s)}]
          BY <4>2
        <5> QED
          BY <3>2, <5>1, <5>2, <5>3
      <4> QED
        BY <4>1, <4>2
    <3>5. Is(k + 1, h)
      BY <3>4
    <3> HIDE DEF h, Is
    <3> QED
      BY <3>5
  <2> HIDE DEF N
  <2>3. Cardinality(D) \in N
    BY <1>2, <2>1, <2>2, NatSetInduction
  <2>4. PICK g : Is(Cardinality(D), g)
    BY <2>3 DEF N
  <2> DEFINE f == [s \in SUBSET D |-> g[s]]
  <2>5. \A s \in SUBSET D : f[s] = Rec(f)[s]
    BY <1>2, <1>3, <2>4
  <2>6. f = Rec(f)
    BY <2>5
  <2> QED
    BY <2>6
<1>5. iter = Rec(iter)
  <2> HIDE DEF Rec
  <2> QED
    BY <1>4
<1> HIDE DEF iter
<1>6. iter[{}] = 0 /\ \A s \in SUBSET D : s # {} => iter[s] = tree[c(s)].size + iter[s \ {c(s)}]
  BY <1>5
<1> HIDE DEF c
<1>7. \A s \in SUBSET D : iter[s] \in Nat
  <2> DEFINE W == {s \in SUBSET D : iter[s] \in Nat}
  <2>1. {} \in W
    BY <1>6
  <2>2. ASSUME NEW s \in SUBSET D, s # {}, \A p \in s : s \ {p} \in W
        PROVE  s \in W
    <3> DEFINE b == c(s)
    <3>1. b \in s /\ iter[s] = tree[b].size + iter[s \ {b}]
      BY <1>3, <1>6, <2>2
    <3> HIDE DEF b
    <3>2. iter[s \ {b}] \in Nat /\ tree[b].size \in Nat
      BY <2>2, <3>1 DEF Sized
    <3> QED
      BY <3>1, <3>2
  <2>3. IsFiniteSet(D)
    BY DEF Sized
  <2> HIDE DEF W, D
  <2>4. SUBSET D \subseteq W
    BY <2>1, <2>2, <2>3, SetInduction
  <2> QED
    BY <2>4 DEF W
<1>8. \A s \in SUBSET D : \A p \in s : iter[s] = tree[p].size + iter[s \ {p}]
  <2> DEFINE W == {s \in SUBSET D : \A p \in s : iter[s] = tree[p].size + iter[s \ {p}]}
  <2>1. {} \in W
    OBVIOUS
  <2>2. ASSUME NEW s \in SUBSET D, s # {}, \A p \in s : s \ {p} \in W
        PROVE  s \in W
    <3> DEFINE b == c(s)
    <3>1. b \in s /\ iter[s] = tree[b].size + iter[s \ {b}]
      BY <1>3, <1>6, <2>2
    <3> HIDE DEF b
    <3>2. ASSUME NEW p \in s, p # b
          PROVE  iter[s] = tree[p].size + iter[s \ {p}]
      <4> DEFINE t == (s \ {b}) \ {p}
      <4>1. iter[s \ {b}] = tree[p].size + iter[t]
        BY <2>2, <3>1, <3>2
      <4>2. t = (s \ {p}) \ {b} /\ t \in SUBSET D
        OBVIOUS
      <4>3. iter[s \ {p}] = tree[b].size + iter[t]
        BY <2>2, <3>1, <3>2, <4>2
      <4> HIDE DEF t
      <4>4. iter[t] \in Nat /\ tree[b].size \in Nat /\ tree[p].size \in Nat
        BY <1>7, <3>1, <4>2 DEF Sized
      <4> QED
        BY <3>1, <4>1, <4>3, <4>4
    <3> QED
      BY <3>1, <3>2
  <2>3. IsFiniteSet(D)
    BY DEF Sized
  <2> HIDE DEF W, D
  <2>4. SUBSET D \subseteq W
    BY <2>1, <2>2, <2>3, SetInduction
  <2> QED
    BY <2>4 DEF W
<1>10. Sums(iter, tree)
  BY <1>6, <1>7, <1>8 DEF Sums
<1> QED
  BY <1>1, <1>10

\* Two sums of one tree, taken in whatever orders, agree.
LEMMA SumsAgree ==
    ASSUME NEW tree, NEW tree2, NEW f, NEW g, Sized(tree), Sums(f, tree), Sums(g, tree2),
           \A p \in DOMAIN tree : p \in DOMAIN tree2 /\ tree[p].size = tree2[p].size
    PROVE  f[DOMAIN tree] = g[DOMAIN tree]
<1> DEFINE D == DOMAIN tree
           W == {s \in SUBSET D : f[s] = g[s]}
<1>1. {} \in W
  BY DEF Sums
<1>2. ASSUME NEW s \in SUBSET D, s # {}, \A p \in s : s \ {p} \in W
      PROVE  s \in W
  <2>1. PICK p \in s : TRUE
    BY <1>2
  <2>2. f[s] = tree[p].size + f[s \ {p}] /\ g[s] = tree2[p].size + g[s \ {p}]
    BY DEF Sums
  <2> QED
    BY <1>2, <2>2
<1>3. IsFiniteSet(D)
  BY DEF Sized
<1> HIDE DEF W, D
<1>4. SUBSET D \subseteq W
  BY <1>1, <1>2, <1>3, SetInduction
<1> QED
  BY <1>4 DEF W, D

\* The size of a tree is a natural number.
LEMMA TotalType ==
    ASSUME NEW tree, Sized(tree)
    PROVE  Total(tree) \in Nat
BY TotalSums DEF Sums

\* The empty tree has no size.
LEMMA TotalEmpty ==
    ASSUME NEW tree, DOMAIN tree = {}
    PROVE  Total(tree) = 0
<1>1. Sized(tree)
  BY FS_EmptySet DEF Sized
<1> QED
  BY <1>1, TotalSums DEF Sums

\* An entry more adds its size.
LEMMA TotalPut ==
    ASSUME NEW tree, Sized(tree), NEW p, p \notin DOMAIN tree, NEW entry, entry.size \in Nat
    PROVE  /\ Sized(Put(tree, p, entry))
           /\ Total(Put(tree, p, entry)) = Total(tree) + entry.size
<1> DEFINE more == Put(tree, p, entry)
           D == DOMAIN tree
<1>1. DOMAIN more = D \union {p} /\ more[p] = entry /\ \A q \in D : more[q] = tree[q]
  BY DEF Put
<1> HIDE DEF more
<1>2. Sized(more)
  BY <1>1, FS_AddElement DEF Sized
<1>3. PICK f : Sums(f, tree) /\ Total(tree) = f[D]
  BY TotalSums
<1>4. PICK g : Sums(g, more) /\ Total(more) = g[D \union {p}]
  BY <1>1, <1>2, TotalSums
<1>5. f[D] = g[D]
  BY <1>1, <1>3, <1>4, SumsAgree
<1>6. g[D \union {p}] = entry.size + g[(D \union {p}) \ {p}] /\ (D \union {p}) \ {p} = D
  BY <1>1, <1>4 DEF Sums
<1>7. Total(tree) \in Nat
  BY TotalType
<1> QED
  BY <1>2, <1>3, <1>4, <1>5, <1>6, <1>7 DEF more

-----------------------------------------------------------------------------
(* What is left of the announcement *)

\* The bytes a packet takes off it.
Spent(m) == IF m.type = "FILE_DATA" THEN m.size ELSE 0

\* A sequence of packets takes the first number to the second.
Budget(left, packets, left2) ==
    \E b : /\ b[0] = left
           /\ \A i \in 1 .. Len(packets) : b[i] = b[i - 1] - Spent(packets[i])
           /\ b[Len(packets)] = left2

\* What the sender has announced and not sent.
Unsent == announced - Total(read) - (IF Reading THEN file.pos ELSE 0)

\* No packets have no budget.
LEMMA BudgetEmpty ==
    ASSUME NEW packets, Len(packets) = 0, NEW left
    PROVE  Budget(left, packets, left)
<1> DEFINE b == [i \in Nat |-> left]
<1>1. b[0] = left
  OBVIOUS
<1> HIDE DEF b
<1> QED
  BY <1>1 DEF Budget

\* A packet that is sent adds its size to the budget.
LEMMA BudgetAppend ==
    ASSUME \E S : stream \in Seq(S), NEW m, stream' = Append(stream, m),
           NEW left, NEW left2, Budget(left, stream, left2)
    PROVE  Budget(left, stream', left2 - Spent(m))
<1> DEFINE n == Len(stream)
<1>1. /\ n \in Nat /\ Len(stream') = n + 1
      /\ \A i \in 1 .. n : stream'[i] = stream[i]
      /\ stream'[n + 1] = m
  BY Appended
<1>2. PICK b : /\ b[0] = left
               /\ \A i \in 1 .. n : b[i] = b[i - 1] - Spent(stream[i])
               /\ b[n] = left2
  BY DEF Budget
<1> HIDE DEF n
<1> DEFINE b2 == [i \in Nat |-> IF i = n + 1 THEN left2 - Spent(m) ELSE b[i]]
<1>3. b2[n + 1] = left2 - Spent(m) /\ \A i \in 0 .. n : b2[i] = b[i]
  BY <1>1
<1> HIDE DEF b2
<1>4. ASSUME NEW i \in 1 .. n + 1
      PROVE  b2[i] = b2[i - 1] - Spent(stream'[i])
  <2>1. CASE i \in 1 .. n
    <3>1. i - 1 \in 0 .. n /\ i \in 0 .. n
      BY <1>1, <2>1
    <3> QED
      BY <1>1, <1>2, <1>3, <2>1, <3>1
  <2>2. CASE i = n + 1
    <3>1. i - 1 = n /\ n \in 0 .. n
      BY <1>1, <2>2
    <3> QED
      BY <1>1, <1>2, <1>3, <2>2, <3>1
  <2> QED
    BY <1>1, <2>1, <2>2
<1>5. b2[0] = left
  BY <1>1, <1>2, <1>3
<1> QED
  BY <1>1, <1>3, <1>4, <1>5 DEF Budget

\* A packet that is taken leaves the budget with its size.
LEMMA BudgetTail ==
    ASSUME \E S : stream \in Seq(S), stream # << >>, stream' = Tail(stream),
           NEW left, NEW left2, Budget(left, stream, left2)
    PROVE  /\ Budget(left - Spent(Head(stream)), stream', left2)
           /\ Len(stream) = 1 => left2 = left - Spent(Head(stream))
<1> DEFINE n == Len(stream)
<1>1. /\ n \in Nat \ {0} /\ Len(stream') = n - 1
      /\ \A i \in 1 .. n - 1 : stream'[i] = stream[i + 1]
      /\ Head(stream) = stream[1]
  BY Taken
<1>2. PICK b : /\ b[0] = left
               /\ \A i \in 1 .. n : b[i] = b[i - 1] - Spent(stream[i])
               /\ b[n] = left2
  BY DEF Budget
<1> HIDE DEF n
<1> DEFINE b2 == [i \in Nat |-> b[i + 1]]
<1>3. \A i \in Nat : b2[i] = b[i + 1]
  OBVIOUS
<1> HIDE DEF b2
<1>4. ASSUME NEW i \in 1 .. n - 1
      PROVE  b2[i] = b2[i - 1] - Spent(stream'[i])
  <2>1. i \in Nat /\ i - 1 \in Nat /\ (i - 1) + 1 = i /\ i + 1 \in 1 .. n /\ (i + 1) - 1 = i
    BY <1>1
  <2>2. b[i + 1] = b[i] - Spent(stream[i + 1])
    BY <1>2, <2>1
  <2> QED
    BY <1>1, <1>3, <2>1, <2>2
<1>5. b2[0] = left - Spent(Head(stream)) /\ b2[n - 1] = left2
  <2>1. 1 \in 1 .. n /\ 1 - 1 = 0 /\ 0 \in Nat /\ 0 + 1 = 1 /\ n - 1 \in Nat /\ (n - 1) + 1 = n
    BY <1>1
  <2>2. b[1] = b[0] - Spent(stream[1])
    BY <1>2, <2>1
  <2> QED
    BY <1>1, <1>2, <1>3, <2>1, <2>2
<1>6. n = 1 => left2 = left - Spent(Head(stream))
  BY <1>1, <1>2
<1> QED
  BY <1>1, <1>4, <1>5, <1>6 DEF Budget, n

-----------------------------------------------------------------------------
(* types *)

TreeTyped(tree) == DOMAIN tree \subseteq Paths /\ \A p \in DOMAIN tree : tree[p] \in Entries

Messages == [type : Kinds, path : Paths \union {NoPath}, id : Nat, size : Nat]

SenderTyped ==
    /\ spc \in SenderStates
    /\ TreeTyped(source) /\ TreeTyped(read) /\ visited \subseteq Paths
    /\ hidden \in Hideable(source)
    /\ file.path \in Paths \union {NoPath} /\ file.id \in Nat /\ file.pos \in Nat
    /\ file_id_counter \in Nat /\ announced \in Nat
    /\ ended \in BOOLEAN /\ changes \in 0 .. MaxChanges

PacketsTyped ==
    /\ \A i \in 1 .. Len(stream) : stream[i] \in Messages
    /\ reply \in {"none", "CONFIRM", "CONFIRM_FAILED"}

ReceiverTyped ==
    /\ rpc \in ReceiverStates /\ bytes_remaining \in Nat
    /\ TreeTyped(user) /\ TreeTyped(old) /\ TreeTyped(staged) /\ committed \subseteq Paths
    /\ \A id \in DOMAIN open_files : open_files[id] \in [path : Paths, size : Nat]
    /\ staging \in BOOLEAN

\* Put keeps the type of a tree.
LEMMA PutTyped ==
    ASSUME NEW tree, TreeTyped(tree), NEW p \in Paths, NEW entry \in Entries
    PROVE  TreeTyped(Put(tree, p, entry))
BY DEF TreeTyped, Put

\* Remove keeps the type of a map.
LEMMA RemoveTyped ==
    ASSUME NEW tree, TreeTyped(tree), NEW p
    PROVE  TreeTyped(Remove(tree, p))
BY DEF TreeTyped, Remove, Restrict

\* The directories that are made above an entry keep the type of a tree.
LEMMA DirectoriesTyped ==
    ASSUME NEW tree, TreeTyped(tree), NEW p \in Paths
    PROVE  TreeTyped(WithDirectories(tree, p))
<1>1. Above[p] \subseteq Paths
  BY PathsAssumption
<1>2. [kind |-> "dir", size |-> 0, owner |-> "sender"] \in Entries
  BY DEF Entries
<1> QED
  BY <1>1, <1>2 DEF TreeTyped, WithDirectories

\* Closing the streams keeps the type of a tree.
LEMMA FlushedTyped ==
    ASSUME ReceiverTyped, NEW ids \in SUBSET DOMAIN open_files
    PROVE  TreeTyped(Flushed(ids))
<1>1. DOMAIN Flushed(ids) = DOMAIN staged
  BY DEF Flushed
<1>2. ASSUME NEW p \in DOMAIN staged
      PROVE  Flushed(ids)[p] \in Entries
  <2>1. CASE \E id \in ids : open_files[id].path = p
    <3> DEFINE id == CHOOSE id \in ids : open_files[id].path = p
    <3>1. id \in ids
      BY <2>1
    <3>2. Flushed(ids)[p] = [kind |-> "file", size |-> open_files[id].size, owner |-> "sender"]
      BY <2>1 DEF Flushed
    <3> HIDE DEF id
    <3>3. open_files[id].size \in Nat
      BY <3>1 DEF ReceiverTyped
    <3> QED
      BY <3>2, <3>3 DEF Entries
  <2>2. CASE ~ \E id \in ids : open_files[id].path = p
    BY <2>2 DEF Flushed, ReceiverTyped, TreeTyped
  <2> QED
    BY <2>1, <2>2
<1> QED
  BY <1>1, <1>2 DEF ReceiverTyped, TreeTyped

\* The trees of the model have finitely many entries, each with a size.
LEMMA TreesAreSized ==
    ASSUME NEW tree, TreeTyped(tree)
    PROVE  Sized(tree)
BY PathsAssumption, FS_Subset DEF TreeTyped, Sized, Entries

\* What the walk can see of the source has a size.
LEMMA WalkedIsSized ==
    ASSUME SenderTyped
    PROVE  Total(Restrict(source, Walked)) \in Nat
<1>1. TreeTyped(Restrict(source, Walked))
  BY DEF SenderTyped, TreeTyped, Restrict, Walked
<1> QED
  BY <1>1, TreesAreSized, TotalType

\* An entry that changes or goes stays as visible as it was, and what lies in a directory
\* that cannot be seen is never seen.
LEMMA HiddenStep ==
    ASSUME SenderTyped, SenderNext \/ ReceiverNext
    PROVE  hidden' \in Hideable(source')
<1>0. hidden \in SUBSET DOMAIN source /\ \A p \in DOMAIN source : Above[p] \intersect hidden # {} => p \in hidden
  BY DEF SenderTyped, Hideable
<1>1. CASE SourceChanges
  <2>1. ASSUME NEW p \in DOMAIN source, NEW size, source' = [source EXCEPT ![p].size = size],
               UNCHANGED hidden
        PROVE  hidden' \in Hideable(source')
    <3>1. DOMAIN source' = DOMAIN source
      BY <2>1
    <3> QED
      BY <1>0, <2>1, <3>1 DEF Hideable
  <2>2. ASSUME NEW p \in DOMAIN source, source' = Remove(source, p), hidden' = hidden \ {p}
        PROVE  hidden' \in Hideable(source')
    <3>1. DOMAIN source' = DOMAIN source \ {p}
      BY <2>2 DEF Remove, Restrict
    <3> QED
      BY <1>0, <2>2, <3>1 DEF Hideable
  <2>3. CASE hidden' \in Hideable(source) /\ UNCHANGED source
    BY <2>3
  <2> QED
    BY <1>1, <2>1, <2>2, <2>3 DEF SourceChanges
<1>2. CASE UNCHANGED <<source, hidden>>
  BY <1>2 DEF SenderTyped
<1> QED
  BY <1>1, <1>2 DEF SenderNext, ReceiverNext, announce, take_reply, path_handler, read_file, end_file,
     end_transfer, sender_close, sender_fails

\* What the open file gives is never more than a packet holds.
LEMMA ReadableType ==
    ASSUME SenderTyped, Walk, spc = "reading"
    PROVE  /\ Readable \in 0 .. PacketSize
           /\ source[file.path].size \in Nat
           /\ file' = [file EXCEPT !.pos = @ + Readable] =>
                 file' = [path |-> file.path, id |-> file.id, pos |-> file.pos + Readable]
<1>1. file.path \in DOMAIN source /\ file = [path |-> file.path, id |-> file.id, pos |-> file.pos]
  BY DEF Walk, Reading
<1>2. source[file.path].size \in Nat /\ file.pos \in Nat /\ PacketSize \in Nat
  BY <1>1, TransferAssumption DEF SenderTyped, TreeTyped, Entries
<1>3. Readable \in 0 .. PacketSize
  BY <1>2 DEF Readable
<1>4. file' = [file EXCEPT !.pos = @ + Readable] =>
         file' = [path |-> file.path, id |-> file.id, pos |-> file.pos + Readable]
  <2> HIDE DEF Readable
  <2> QED
    BY <1>1
<1> QED
  BY <1>2, <1>3, <1>4

\* Every step keeps the type of the sender.
LEMMA SenderTypedStep ==
    ASSUME SenderTyped, SourceOK, Walk, SenderNext \/ ReceiverNext
    PROVE  SenderTyped'
<1>0. hidden' \in Hideable(source')
  BY HiddenStep
<1>1. CASE announce
  <2>1. Total(Restrict(source, Walked)) \in Nat
    BY WalkedIsSized
  <2> QED
    BY <1>0, <1>1, <2>1 DEF announce, SenderTyped, SenderStates, TreeTyped
<1>2. CASE take_reply \/ end_transfer \/ sender_close \/ sender_fails
  BY <1>0, <1>2 DEF take_reply, end_transfer, sender_close, sender_fails, SenderTyped, SenderStates,
     TreeTyped
<1>3. ASSUME NEW p \in DOMAIN source, path_handler(p)
      PROVE  SenderTyped'
  <2>1. p \in Paths /\ source[p] \in Entries /\ visited' \subseteq Paths
    BY <1>3 DEF SenderTyped, TreeTyped, path_handler
  <2>2. TreeTyped(Put(read, p, source[p]))
    BY <2>1, PutTyped DEF SenderTyped
  <2>3. /\ UNCHANGED <<source, announced, ended, changes>>
        /\ read' = read \/ read' = Put(read, p, source[p])
        /\ spc' \in {spc, "failed", "reading"}
        /\ file_id_counter' \in {file_id_counter, file_id_counter + 1}
        /\ file' = file \/ file' = [path |-> p, id |-> file_id_counter, pos |-> 0]
    BY <1>3 DEF path_handler
  <2>4. TreeTyped(read')
    BY <2>2, <2>3 DEF SenderTyped
  <2> QED
    BY <1>0, <2>1, <2>3, <2>4 DEF SenderTyped, SenderStates, TreeTyped
<1>4. CASE read_file
  <2>1. /\ spc = "reading" /\ spc' \in {"ending", "reading"}
        /\ file' = [file EXCEPT !.pos = @ + Readable]
        /\ UNCHANGED <<source, visited, file_id_counter, announced, read, ended, changes>>
    BY <1>4 DEF read_file
  <2>2. Readable \in Nat /\ file' = [path |-> file.path, id |-> file.id, pos |-> file.pos + Readable]
    BY <2>1, ReadableType, TransferAssumption
  <2> HIDE DEF Readable
  <2>3. file'.path = file.path /\ file'.id = file.id /\ file'.pos = file.pos + Readable
    BY <2>2
  <2> QED
    BY <1>0, <2>1, <2>2, <2>3 DEF SenderTyped, SenderStates, TreeTyped
<1>5. CASE end_file
  <2>1. /\ spc = "ending" /\ spc' = "walking"
        /\ read' = Put(read, file.path, [kind |-> "file", size |-> file.pos, owner |-> "sender"])
        /\ UNCHANGED <<source, visited, file, file_id_counter, announced, ended, changes>>
    BY <1>5 DEF end_file
  <2>2. file.path \in Paths
    BY <2>1 DEF Walk, Reading, SenderTyped, TreeTyped
  <2>3. [kind |-> "file", size |-> file.pos, owner |-> "sender"] \in Entries
    BY DEF SenderTyped, Entries
  <2>4. TreeTyped(read')
    BY <2>1, <2>2, <2>3, PutTyped DEF SenderTyped
  <2> QED
    BY <1>0, <2>1, <2>4 DEF SenderTyped, SenderStates, TreeTyped
<1>6. CASE SourceChanges
  <2>2. ASSUME NEW p \in DOMAIN source, NEW size \in 0 .. MaxSize, source' = [source EXCEPT ![p].size = size]
        PROVE  TreeTyped(source')
    <3>1. size \in Nat
      BY TransferAssumption
    <3>2. [source[p] EXCEPT !.size = size] \in Entries
      BY <3>1 DEF SenderTyped, TreeTyped, Entries
    <3>3. DOMAIN source' = DOMAIN source /\ source'[p] = [source[p] EXCEPT !.size = size]
          /\ \A q \in DOMAIN source : q # p => source'[q] = source[q]
      BY <2>2
    <3> QED
      BY <3>2, <3>3 DEF SenderTyped, TreeTyped
  <2>3. TreeTyped(source')
    <3>1. CASE UNCHANGED source
      BY <3>1 DEF SenderTyped
    <3> QED
      BY <1>6, <2>2, <3>1, RemoveTyped DEF SenderTyped, SourceChanges
  <2>4. changes' \in 0 .. MaxChanges
    BY <1>6, TransferAssumption DEF SourceChanges, SenderTyped
  <2> QED
    BY <1>0, <1>6, <2>3, <2>4 DEF SourceChanges, SenderTyped, TreeTyped
<1>7. CASE ReceiverNext
  BY <1>0, <1>7 DEF ReceiverNext, SenderTyped, TreeTyped
<1> QED
  BY <1>1, <1>2, <1>3, <1>4, <1>5, <1>6, <1>7 DEF SenderNext

\* What Say sends is a packet.
LEMMA SaidTyped ==
    ASSUME PacketsTyped, StreamOK, NEW m \in Messages, stream' = Append(stream, m)
    PROVE  \A i \in 1 .. Len(stream') : stream'[i] \in Messages
<1>1. /\ Len(stream) \in Nat /\ Len(stream') = Len(stream) + 1
      /\ \A i \in 1 .. Len(stream) : stream'[i] = stream[i]
      /\ stream'[Len(stream) + 1] = m
  BY Appended DEF StreamOK
<1> QED
  BY <1>1 DEF PacketsTyped

\* Every step keeps the type of the packets under way.
LEMMA PacketsTypedStep ==
    ASSUME SenderTyped, PacketsTyped, StreamOK, Walk, SenderNext \/ ReceiverNext
    PROVE  PacketsTyped'
<1>0. ASSUME NEW type \in Kinds, NEW path \in Paths \union {NoPath}, NEW id \in Nat, NEW size \in Nat,
             Say(Message(type, path, id, size)), reply' = reply
      PROVE  PacketsTyped'
  <2>1. Message(type, path, id, size) \in Messages
    BY DEF Message, Messages
  <2> QED
    BY <1>0, <2>1, SaidTyped DEF Say, PacketsTyped
<1>1. CASE announce
  <2>1. Total(Restrict(source, Walked)) \in Nat /\ 0 \in Nat /\ "SIZE" \in Kinds
    BY WalkedIsSized DEF Kinds
  <2> QED
    BY <1>0, <1>1, <2>1 DEF announce
<1>2. ASSUME NEW p \in DOMAIN source, path_handler(p)
      PROVE  PacketsTyped'
  <2>0. 0 \in Nat /\ file_id_counter \in Nat /\ p \in Paths /\ reply' = reply
    BY <1>2 DEF SenderTyped, TreeTyped, path_handler
  <2>1. SentAs(p) \subseteq Paths \union {NoPath}
    BY <2>0 DEF SentAs, SenderTyped, TreeTyped
  <2>2. {"CREATE_SYMLINK", "CREATE_DIRECTORY", "CREATE_FILE"} \subseteq Kinds
    BY DEF Kinds
  <2>3. CASE UNCHANGED stream
    BY <2>0, <2>3 DEF PacketsTyped
  <2>4. CASE Say(Message("CREATE_SYMLINK", p, 0, 0))
    BY <1>0, <2>0, <2>2, <2>4
  <2>5. CASE \E path \in SentAs(p) : Say(Message("CREATE_DIRECTORY", path, file_id_counter, 0))
    BY <1>0, <2>0, <2>1, <2>2, <2>5
  <2>6. CASE \E path \in SentAs(p) : Say(Message("CREATE_FILE", path, file_id_counter, 0))
    BY <1>0, <2>0, <2>1, <2>2, <2>6
  <2> HIDE DEF SentAs
  <2> QED
    BY <1>2, <2>3, <2>4, <2>5, <2>6 DEF path_handler
<1>3. CASE read_file
  <2>1. Readable \in Nat /\ file.id \in Nat /\ "FILE_DATA" \in Kinds
    BY <1>3, ReadableType, TransferAssumption DEF read_file, SenderTyped, Kinds
  <2> HIDE DEF Readable
  <2> QED
    BY <1>0, <1>3, <2>1 DEF read_file
<1>4. CASE end_file
  <2>1. 0 \in Nat /\ file.id \in Nat /\ "END_FILE" \in Kinds
    BY DEF SenderTyped, Kinds
  <2> QED
    BY <1>0, <1>4, <2>1 DEF end_file
<1>5. CASE end_transfer
  <2>1. 0 \in Nat /\ "END_TRANSFER" \in Kinds
    BY DEF Kinds
  <2> QED
    BY <1>0, <1>5, <2>1 DEF end_transfer, EndTransfer
<1>6. CASE Silent
  BY <1>6 DEF Silent, take_reply, sender_close, sender_fails, SourceChanges, PacketsTyped
<1>7. CASE receive_announcement \/ receive
  <2>1. stream # << >> /\ stream' = Tail(stream) /\ reply' = reply
    BY <1>7 DEF receive_announcement, receive
  <2>2. /\ Len(stream) \in Nat \ {0} /\ Len(stream') = Len(stream) - 1
        /\ \A i \in 1 .. Len(stream') : stream'[i] = stream[i + 1]
    BY <2>1, Taken DEF StreamOK
  <2> QED
    BY <2>1, <2>2 DEF PacketsTyped
<1>8. CASE answer \/ receive_error \/ commit \/ receiver_close \/ Kill
  BY <1>8 DEF answer, receive_error, commit, receiver_close, Kill, PacketsTyped
<1> QED
  BY <1>1, <1>2, <1>3, <1>4, <1>5, <1>6, <1>7, <1>8 DEF SenderNext, ReceiverNext, Silent

\* handle_packet keeps the type of the receiver, whatever packet it is given.
LEMMA HandlePacketTyped ==
    ASSUME ReceiverTyped, NEW m \in Messages, rpc = "receiving", handle_packet(m), old' = old
    PROVE  ReceiverTyped'
<1>0. /\ m.path \in Paths \union {NoPath} /\ m.id \in Nat /\ m.size \in Nat
      /\ bytes_remaining \in Nat /\ TreeTyped(staged) /\ TreeTyped(user) /\ TreeTyped(old)
  BY DEF ReceiverTyped, Messages
<1>1. \A p \in Paths : \A kind \in {"dir", "file", "link"} :
         TreeTyped(Put(WithDirectories(staged, p), p, [kind |-> kind, size |-> 0, owner |-> "sender"]))
  <2> SUFFICES ASSUME NEW p \in Paths, NEW kind \in {"dir", "file", "link"}
               PROVE  TreeTyped(Put(WithDirectories(staged, p), p,
                                    [kind |-> kind, size |-> 0, owner |-> "sender"]))
    OBVIOUS
  <2>1. [kind |-> kind, size |-> 0, owner |-> "sender"] \in Entries
    BY DEF Entries
  <2> QED
    BY <1>0, <2>1, DirectoriesTyped, PutTyped
<1>2. CASE /\ m.path # NoPath /\ UNCHANGED receiverVars
           /\ create_directory(m.path) \/ create_symlink(m.path)
  <2>1. TreeTyped(staged') /\ UNCHANGED <<user, open_files, staging, committed>>
    BY <1>0, <1>1, <1>2 DEF create_directory, create_symlink
  <2> QED
    BY <1>2, <2>1 DEF ReceiverTyped, TreeTyped
<1>3. CASE m.path # NoPath /\ UNCHANGED receiverVars /\ create_file(m.path, m.id)
  <2>1. TreeTyped(staged') /\ UNCHANGED <<user, staging, committed>>
    BY <1>0, <1>1, <1>3 DEF create_file
  <2>2. \A id \in DOMAIN open_files' : open_files'[id] \in [path : Paths, size : Nat]
    BY <1>0, <1>3 DEF create_file, Put, ReceiverTyped
  <2> QED
    BY <1>3, <2>1, <2>2 DEF ReceiverTyped, TreeTyped
<1>4. CASE /\ WithinAnnounced(m.size) /\ write(m.id, m.size) /\ rpc' = rpc
           /\ bytes_remaining' = bytes_remaining - m.size
  <2>1. bytes_remaining' \in Nat
    BY <1>0, <1>4 DEF WithinAnnounced
  <2>2. UNCHANGED <<user, staging, staged, committed>> /\ m.id \in DOMAIN open_files
    BY <1>4 DEF write
  <2>3. [open_files[m.id] EXCEPT !.size = @ + m.size] \in [path : Paths, size : Nat]
    <3>1. open_files[m.id] \in [path : Paths, size : Nat]
      BY <2>2 DEF ReceiverTyped
    <3> QED
      BY <1>0, <3>1
  <2>4. \A id \in DOMAIN open_files' : open_files'[id] \in [path : Paths, size : Nat]
    BY <1>4, <2>3 DEF write, ReceiverTyped
  <2> QED
    BY <1>4, <2>1, <2>2, <2>4 DEF ReceiverTyped, TreeTyped
<1>5. CASE close_file(m.id) /\ UNCHANGED receiverVars
  <2>1. TreeTyped(staged') /\ UNCHANGED <<user, staging, committed>>
    BY <1>5, FlushedTyped DEF close_file
  <2>2. \A id \in DOMAIN open_files' : open_files'[id] \in [path : Paths, size : Nat]
    BY <1>5 DEF close_file, Remove, Restrict, ReceiverTyped
  <2> QED
    BY <1>5, <2>1, <2>2 DEF ReceiverTyped, TreeTyped
<1>6. CASE begin_commit
  <2>1. TreeTyped(Flushed(DOMAIN open_files))
    BY FlushedTyped
  <2>2. TreeTyped(staged') /\ DOMAIN open_files' = {} /\ UNCHANGED <<user, staging, committed>>
        /\ rpc' \in {"committing", "commit_failed"} /\ bytes_remaining' = bytes_remaining
    BY <1>0, <1>6, <2>1 DEF begin_commit, close_all
  <2> QED
    BY <2>2 DEF ReceiverTyped, TreeTyped, ReceiverStates
<1> QED
  BY <1>2, <1>3, <1>4, <1>5, <1>6 DEF handle_packet

\* Every step keeps the type of the receiver.
LEMMA ReceiverTypedStep ==
    ASSUME ReceiverTyped, PacketsTyped, StreamOK, SenderNext \/ ReceiverNext
    PROVE  ReceiverTyped'
<1>0. stream # << >> => Head(stream) \in Messages
  <2>1. stream # << >> => Len(stream) >= 1 /\ Len(stream) \in Nat /\ Head(stream) = stream[1]
    <3>1. PICK S : stream \in Seq(S)
      BY DEF StreamOK
    <3> QED
      BY <3>1, HeadTailProperties, EmptySeq, LenProperties
  <2> QED
    BY <2>1 DEF PacketsTyped
<1>1. CASE receive_announcement /\ old' = old
  <2>1. bytes_remaining' \in Nat
    BY <1>0, <1>1 DEF receive_announcement, Messages
  <2> QED
    BY <1>1, <2>1 DEF receive_announcement, ReceiverTyped, ReceiverStates, TreeTyped
<1>2. CASE answer \/ receiver_close \/ Kill
  BY <1>2 DEF answer, receiver_close, Kill, ReceiverNext, SenderNext, ReceiverTyped, ReceiverStates, TreeTyped
<1>3. ASSUME fail_transfer, old' = old
      PROVE  ReceiverTyped'
  <2>1. TreeTyped(staged') /\ DOMAIN open_files' = {} /\ staging' \in BOOLEAN
    BY <1>3 DEF fail_transfer, cleanup, ReceiverTyped, TreeTyped
  <2> QED
    BY <1>3, <2>1 DEF fail_transfer, cleanup, ReceiverTyped, ReceiverStates, TreeTyped
<1>4. CASE receive /\ old' = old
  BY <1>0, <1>3, <1>4, HandlePacketTyped DEF receive
<1>5. CASE receive_error /\ old' = old
  <2>1. CASE rpc' = "failed" /\ UNCHANGED <<bytes_remaining, builderVars>>
    BY <1>5, <2>1 DEF ReceiverTyped, ReceiverStates, TreeTyped
  <2> QED
    BY <1>3, <1>5, <2>1 DEF receive_error
<1>6. CASE commit /\ old' = old
  <2>0. rpc = "committing" /\ bytes_remaining' = bytes_remaining
    BY <1>6 DEF commit
  <2>1. ASSUME NEW p \in DOMAIN staged, commit_directory(p) \/ commit_entry(p), rpc' = rpc
        PROVE  ReceiverTyped'
    <3>1. p \in Paths /\ staged[p] \in Entries /\ committed' \subseteq Paths
      BY <2>1 DEF commit_directory, commit_entry, NextEntry, ReceiverTyped, TreeTyped
    <3>2. TreeTyped(user')
      BY <2>1, <3>1, PutTyped, DirectoriesTyped DEF commit_directory, commit_entry, ReceiverTyped
    <3>3. TreeTyped(staged') /\ UNCHANGED <<staging, open_files>>
      BY <2>1, RemoveTyped DEF commit_directory, commit_entry, ReceiverTyped
    <3> QED
      BY <1>6, <2>0, <2>1, <3>1, <3>2, <3>3 DEF ReceiverTyped, TreeTyped
  <2>2. CASE commit_done /\ rpc' = "closing"
    BY <1>6, <2>0, <2>2 DEF commit_done, ReceiverTyped, ReceiverStates, TreeTyped
  <2>3. CASE rpc' = "commit_failed" /\ UNCHANGED builderVars
    BY <1>6, <2>0, <2>3 DEF ReceiverTyped, ReceiverStates, TreeTyped
  <2> QED
    BY <1>6, <2>1, <2>2, <2>3 DEF commit
<1>7. CASE SenderNext
  BY <1>7 DEF SenderNext, ReceiverTyped, TreeTyped
<1> QED
  BY <1>1, <1>2, <1>4, <1>5, <1>6, <1>7 DEF ReceiverNext

\* The three types together are TypeOK.
LEMMA TypesAre ==
    ASSUME SenderTyped, PacketsTyped, ReceiverTyped, StreamOK
    PROVE  TypeOK
<1>1. DOMAIN stream = 1 .. Len(stream)
  BY LenProperties DEF StreamOK
<1>2. \A tree \in {source, read, user, old, staged} :
         DOMAIN tree \subseteq Paths /\ \A p \in DOMAIN tree : tree[p] \in Entries
  BY DEF SenderTyped, ReceiverTyped, TreeTyped
<1> QED
  BY <1>1, <1>2 DEF TypeOK, SenderTyped, PacketsTyped, ReceiverTyped, Messages

\* Control state and types of both sides, whatever the paths.
TypeInv == SenderTyped /\ PacketsTyped /\ ReceiverTyped /\ SourceOK /\ Walk /\ StreamOK

\* The types hold at the start.
LEMMA TypeInvInit == Init => TypeInv
<1> SUFFICES ASSUME Init PROVE TypeInv
  OBVIOUS
<1>1. SourceOK /\ Walk /\ StreamOK
  BY InvInit DEF Inv
<1>2. ASSUME NEW owner \in {"user", "sender"}, NEW kinds \in SUBSET {"dir", "link", "special"},
             NEW sizes \in SUBSET Nat, NEW tree \in TreesOf(owner, kinds, sizes)
      PROVE  TreeTyped(tree)
  <2> DEFINE Any == {Entry(kind, 0, owner) : kind \in kinds} \union {Entry("file", size, owner) : size \in sizes}
  <2>1. Any \subseteq Entries
    BY DEF Entries
  <2> HIDE DEF Any
  <2>2. PICK dom \in SUBSET Paths : tree \in [dom -> Any]
    BY <1>2 DEF TreesOf, Any
  <2> QED
    BY <2>1, <2>2 DEF TreeTyped
<1>3. TreeTyped(source)
  <2>1. {"dir", "link", "special"} \in SUBSET {"dir", "link", "special"} /\ 0 .. MaxSize \in SUBSET Nat
    BY TransferAssumption
  <2> QED
    BY <1>2, <2>1 DEF Init
<1>4. TreeTyped(old) /\ TreeTyped(user)
  <2>1. {"dir", "link"} \in SUBSET {"dir", "link", "special"} /\ {0} \in SUBSET Nat
    OBVIOUS
  <2> QED
    BY <1>2, <2>1 DEF Init
<1>5. SenderTyped
  <2>1. TreeTyped(read) /\ file = [path |-> NoPath, id |-> 0, pos |-> 0]
    BY DEF Init, TreeTyped
  <2>2. 0 \in 0 .. MaxChanges
    BY TransferAssumption
  <2>3. /\ spc = "start" /\ visited = {} /\ file_id_counter = 0 /\ announced = 0
        /\ ended = FALSE /\ changes = 0
    BY DEF Init
  <2>4. spc \in SenderStates
    BY <2>3 DEF SenderStates
  <2>5. file.path = NoPath /\ file.id = 0 /\ file.pos = 0
    BY <2>1
  <2>6. hidden \in Hideable(source)
    BY DEF Init
  <2> QED
    BY <1>3, <2>1, <2>2, <2>3, <2>4, <2>5, <2>6 DEF SenderTyped
<1>6. ReceiverTyped
  BY <1>4 DEF Init, BuilderInit, ReceiverTyped, ReceiverStates, TreeTyped
<1>7. PacketsTyped
  <2>1. Len(stream) = 0
    BY DEF Init
  <2> QED
    BY <2>1 DEF Init, PacketsTyped
<1> QED
  BY <1>1, <1>5, <1>6, <1>7 DEF TypeInv

\* The types are inductive, for any paths.
LEMMA TypeInvStep == TypeInv /\ [Next]_vars => TypeInv'
<1> SUFFICES ASSUME TypeInv, [Next]_vars PROVE TypeInv'
  OBVIOUS
<1>0. SenderTyped /\ PacketsTyped /\ ReceiverTyped /\ SourceOK /\ Walk /\ StreamOK
  BY DEF TypeInv
<1>1. CASE SenderNext \/ ReceiverNext
  BY <1>0, <1>1, SenderTypedStep, PacketsTypedStep, ReceiverTypedStep, SourceStep, WalkStep,
     StreamStep DEF TypeInv
<1>2. CASE UNCHANGED vars
  <2>1. SenderTyped' /\ PacketsTyped' /\ ReceiverTyped'
    BY <1>0, <1>2 DEF vars, SenderTyped, PacketsTyped, ReceiverTyped, TreeTyped
  <2>2. SourceOK' /\ StreamOK'
    BY <1>0, <1>2 DEF vars, SourceOK, StreamOK, IsTree, IsDir
  <2>3. Walk'
    BY <1>0, <1>2 DEF vars, Walk, Reading, IsTree, IsDir
  <2> QED
    BY <2>1, <2>2, <2>3 DEF TypeInv
<1> QED
  BY <1>1, <1>2 DEF Next

\* Every variable of both applications keeps its type, for any paths, also long ones, and
\* any sizes: bytes_remaining_ never wraps below zero, and no file is opened under an empty
\* path.
THEOREM TransferTyped == Spec => []TypeOK
<1>1. TypeInv => TypeOK
  BY TypesAre DEF TypeInv
<1> QED
  BY <1>1, TypeInvInit, TypeInvStep, PTL DEF Spec

-----------------------------------------------------------------------------
(* What is announced is what is sent *)

\* The first walk's number, less what has been sent and received, is what the receiver
\* still expects; a commit finds nothing left.
Account ==
    /\ spc = "start" => rpc \in {"start", "failed", "killed"} /\ Len(stream) = 0
    /\ rpc \in {"start", "asking"} => DOMAIN read = {}
    /\ rpc = "start" => /\ Len(stream) <= 1
                        /\ \A i \in 1 .. Len(stream) : stream[i].size = announced
    /\ rpc = "asking" => Len(stream) = 0
    /\ rpc \in {"asking", "receiving"} /\ (spc # "failed" \/ ended) =>
          Budget(bytes_remaining, stream, Unsent)
    /\ rpc \in {"committing", "commit_failed", "closing", "done"} => ended /\ Total(read) = announced

\* What the sender has still to send is a number.
LEMMA UnsentType ==
    ASSUME SenderTyped
    PROVE  Unsent \in Int /\ Total(read) \in Nat /\ announced \in Nat /\ file.pos \in Nat
BY TreesAreSized, TotalType DEF SenderTyped, Unsent

\* While the sender is between the answer and END_TRANSFER only the budget can change.
LEMMA WalkingAccount ==
    ASSUME Account, rpc \notin {"start", "asking"}, ~ended, UNCHANGED receiverVars,
           spc' # "start", spc' = "failed" => ~ended',
           rpc = "receiving" /\ spc' # "failed" => Budget(bytes_remaining, stream', Unsent')
    PROVE  Account'
<1>1. rpc \notin {"committing", "commit_failed", "closing", "done"}
  BY DEF Account
<1> HIDE DEF Unsent
<1> QED
  BY <1>1 DEF Account

\* A packet that spends what its step takes off Unsent.
LEMMA SentAccount ==
    ASSUME Account, StreamOK, rpc \notin {"start", "asking"}, ~ended, UNCHANGED receiverVars,
           spc \notin {"start", "failed"}, spc' \notin {"start", "failed"},
           NEW m, Say(m), Unsent' = Unsent - Spent(m)
    PROVE  Account'
<1>1. rpc = "receiving" => Budget(bytes_remaining, stream', Unsent')
  BY BudgetAppend DEF Account, StreamOK, Say
<1> QED
  BY <1>1, WalkingAccount

\* Every step of the sender keeps the account: what it sends leaves what is unsent.
LEMMA SenderAccount ==
    ASSUME TypeInv, Account, SenderNext
    PROVE  Account'
<1>0. /\ SenderTyped /\ SourceOK /\ Walk /\ StreamOK /\ UNCHANGED receiverVars
      /\ Unsent \in Int /\ Total(read) \in Nat /\ announced \in Nat /\ file.pos \in Nat
      /\ Sized(read)
  BY UnsentType, TreesAreSized DEF TypeInv, SenderNext, SenderTyped
<1>1. CASE announce
  <2>1. /\ rpc \in {"start", "failed", "killed"} /\ Len(stream) = 0 /\ spc' = "asked"
        /\ stream' = Append(stream, Message("SIZE", NoPath, 0, announced')) /\ read' = read
    BY <1>1 DEF announce, Say, Account
  <2>2. Len(stream') = 1 /\ stream'[1].size = announced'
    BY <1>0, <2>1, Appended DEF StreamOK, Message
  <2> QED
    BY <1>0, <2>1, <2>2 DEF Account
<1>2. CASE take_reply
  <2>1. /\ rpc \notin {"start", "asking"} /\ ~ended /\ spc = "asked"
        /\ spc' \in {"walking", "failed"} /\ UNCHANGED <<stream, ended, announced, read, file>>
    BY <1>0, <1>2 DEF take_reply, StreamOK, Walk
  <2>2. Unsent' = Unsent
    BY <2>1 DEF Unsent, Reading
  <2>3. rpc = "receiving" => Budget(bytes_remaining, stream', Unsent')
    BY <2>1, <2>2 DEF Account
  <2> QED
    BY <1>0, <2>1, <2>3, WalkingAccount
<1>3. ASSUME spc \in {"walking", "reading", "ending"}
      PROVE  rpc \notin {"start", "asking"} /\ ~ended
  BY <1>0, <1>3 DEF StreamOK, Walk
<1>4. ASSUME NEW p \in DOMAIN source, path_handler(p)
      PROVE  Account'
  <2>1. /\ spc = "walking" /\ p \in Unvisited /\ UNCHANGED <<announced, ended>>
    BY <1>4 DEF path_handler
  <2>2. p \notin DOMAIN read
    BY <1>0, <2>1, AboveIsRead
  <2>3. ASSUME source[p].kind # "file", read' = Put(read, p, source[p]), spc' = spc
        PROVE  Unsent' = Unsent
    <3>1. source[p].size = 0 /\ 0 \in Nat
      BY <1>0, <2>3 DEF SourceOK
    <3>2. Total(read') = Total(read)
      BY <1>0, <2>2, <2>3, <3>1, TotalPut
    <3> QED
      BY <2>1, <2>3, <3>2 DEF Unsent, Reading
  <2>4. \A type, path, id : type # "FILE_DATA" => Spent(Message(type, path, id, 0)) = 0
    BY DEF Spent, Message
  <2>5. CASE /\ source[p].kind = "link" /\ Say(Message("CREATE_SYMLINK", p, 0, 0))
             /\ read' = Put(read, p, source[p]) /\ spc' = spc
    <3>1. Unsent' = Unsent - Spent(Message("CREATE_SYMLINK", p, 0, 0))
      BY <1>0, <2>3, <2>4, <2>5
    <3> QED
      BY <1>0, <1>3, <2>1, <2>5, <3>1, SentAccount
  <2>6. CASE spc' = "failed"
    BY <1>0, <1>3, <2>1, <2>6, WalkingAccount
  <2>7. CASE /\ source[p].kind = "dir" /\ read' = Put(read, p, source[p]) /\ spc' = spc
             /\ \E path \in SentAs(p) : Say(Message("CREATE_DIRECTORY", path, file_id_counter, 0))
    <3>1. PICK path \in SentAs(p) : Say(Message("CREATE_DIRECTORY", path, file_id_counter, 0))
      BY <2>7
    <3>2. Unsent' = Unsent - Spent(Message("CREATE_DIRECTORY", path, file_id_counter, 0))
      BY <1>0, <2>3, <2>4, <2>7
    <3> QED
      BY <1>0, <1>3, <2>1, <2>7, <3>1, <3>2, SentAccount
  <2>8. CASE /\ source[p].kind = "file" /\ spc' = "reading" /\ UNCHANGED read
             /\ file' = [path |-> p, id |-> file_id_counter, pos |-> 0]
             /\ \E path \in SentAs(p) : Say(Message("CREATE_FILE", path, file_id_counter, 0))
    <3>1. PICK path \in SentAs(p) : Say(Message("CREATE_FILE", path, file_id_counter, 0))
      BY <2>8
    <3>2. Unsent' = Unsent - Spent(Message("CREATE_FILE", path, file_id_counter, 0))
      BY <1>0, <2>1, <2>4, <2>8 DEF Unsent, Reading
    <3> QED
      BY <1>0, <1>3, <2>1, <2>8, <3>1, <3>2, SentAccount
  <2> HIDE DEF SentAs, Unvisited
  <2> QED
    BY <1>4, <2>1, <2>5, <2>6, <2>7, <2>8 DEF path_handler
<1>5. CASE read_file
  <2> DEFINE m == Message("FILE_DATA", NoPath, file.id, Readable)
  <2>1. /\ spc = "reading" /\ spc' \in {"reading", "ending"} /\ Say(m)
        /\ file' = [file EXCEPT !.pos = @ + Readable] /\ UNCHANGED <<announced, read>>
    BY <1>5 DEF read_file
  <2>2. Readable \in Nat /\ file' = [path |-> file.path, id |-> file.id, pos |-> file.pos + Readable]
    BY <1>0, <2>1, ReadableType, TransferAssumption
  <2>3. Spent(m) = Readable
    BY DEF Spent, Message
  <2> HIDE DEF Readable, m
  <2>4. Unsent' = Unsent - Spent(m)
    BY <1>0, <2>1, <2>2, <2>3 DEF Unsent, Reading
  <2> QED
    BY <1>0, <1>3, <2>1, <2>4, SentAccount
<1>6. CASE end_file
  <2> DEFINE m == Message("END_FILE", NoPath, file.id, 0)
             entry == [kind |-> "file", size |-> file.pos, owner |-> "sender"]
  <2>1. /\ spc = "ending" /\ spc' = "walking" /\ Say(m) /\ UNCHANGED announced
        /\ read' = Put(read, file.path, entry)
    BY <1>6 DEF end_file
  <2>2. file.path \notin DOMAIN read
    BY <1>0, <2>1 DEF Walk, Reading
  <2>3. Total(read') = Total(read) + file.pos
    <3>1. entry.size = file.pos
      OBVIOUS
    <3> HIDE DEF entry
    <3> QED
      BY <1>0, <2>1, <2>2, <3>1, TotalPut
  <2>4. Spent(m) = 0
    BY DEF Spent, Message
  <2> HIDE DEF m
  <2>5. Unsent' = Unsent - Spent(m)
    BY <1>0, <2>1, <2>3, <2>4 DEF Unsent, Reading
  <2> QED
    BY <1>0, <1>3, <2>1, <2>5, SentAccount
<1>7. CASE end_transfer
  <2>1. spc = "walking" /\ spc' = "closing" /\ Say(EndTransfer) /\ UNCHANGED <<announced, read, file>>
    BY <1>7 DEF end_transfer
  <2>2. Unsent' = Unsent - Spent(EndTransfer)
    BY <1>0, <2>1 DEF Unsent, Reading, Spent, EndTransfer, Message
  <2> QED
    BY <1>0, <1>3, <2>1, <2>2, SentAccount
<1>8. CASE sender_close \/ sender_fails \/ SourceChanges
  <2>1. /\ UNCHANGED <<announced, read, file, ended, stream>>
        /\ spc' = spc \/ spc' \in {"done", "failed"}
        /\ ended \/ spc' # "failed" => spc' = spc \/ (~Reading /\ ~Reading')
    BY <1>0, <1>8 DEF sender_close, sender_fails, SourceChanges, Walk, Reading
  <2>2. ended \/ spc' # "failed" => Unsent' = Unsent
    BY <2>1 DEF Unsent, Reading
  <2>3. spc' # "failed" => spc # "failed"
    BY <1>8 DEF sender_close, sender_fails, SourceChanges
  <2> HIDE DEF Unsent
  <2> QED
    BY <1>0, <2>1, <2>2, <2>3 DEF Account
<1> QED
  BY <1>1, <1>2, <1>4, <1>5, <1>6, <1>7, <1>8 DEF SenderNext

\* Every step of the receiver keeps the account: what it takes leaves the budget.
LEMMA ReceiverAccount ==
    ASSUME TypeInv, Account, ReceiverNext
    PROVE  Account'
<1>0. /\ SenderTyped /\ ReceiverTyped /\ Walk /\ StreamOK /\ UNCHANGED senderVars
      /\ Unsent \in Int /\ Total(read) \in Nat /\ announced \in Nat /\ bytes_remaining \in Nat
  BY UnsentType DEF TypeInv, ReceiverNext, ReceiverTyped
<1>1. Unsent' = Unsent
  BY <1>0 DEF Unsent, Reading
<1> HIDE DEF Unsent
<1>2. CASE receive_announcement
  <2>1. /\ rpc = "start" /\ rpc' = "asking" /\ stream # << >> /\ stream' = Tail(stream)
        /\ bytes_remaining' = Head(stream).size
    BY <1>2 DEF receive_announcement
  <2>2. Len(stream') = 0 /\ Head(stream) = stream[1] /\ 1 \in 1 .. Len(stream) /\ Len(stream) # 0
    <3>1. /\ Len(stream) \in Nat \ {0} /\ Len(stream') = Len(stream) - 1
          /\ Head(stream) = stream[1]
      BY <1>0, <2>1, Taken DEF StreamOK
    <3>2. Len(stream) <= 1
      BY <2>1 DEF Account
    <3> QED
      BY <3>1, <3>2
  <2>3. bytes_remaining' = announced /\ DOMAIN read = {}
    BY <2>1, <2>2 DEF Account
  <2>4. Unsent = announced
    <3>1. Total(read) = 0
      BY <2>3, TotalEmpty
    <3>2. ~Reading
      BY <1>0, <2>1 DEF StreamOK, Reading
    <3> QED
      BY <1>0, <3>1, <3>2 DEF Unsent
  <2>5. Budget(bytes_remaining', stream', Unsent')
    BY <1>1, <2>2, <2>3, <2>4, BudgetEmpty
  <2> QED
    BY <1>0, <2>1, <2>2, <2>3, <2>5 DEF Account
<1>3. CASE answer
  BY <1>0, <1>1, <1>3 DEF answer, Account
<1>4. ASSUME rpc \in {"start", "asking", "receiving"}, rpc' = "failed",
             stream' = stream \/ spc # "start"
      PROVE  Account'
  BY <1>0, <1>4 DEF Account
<1>5. CASE receive
  <2>0. rpc = "receiving" /\ stream # << >> /\ stream' = Tail(stream) /\ spc # "start"
    BY <1>5 DEF receive, Account
  <2>1. CASE fail_transfer
    BY <1>4, <2>0, <2>1 DEF fail_transfer
  <2> DEFINE m == Head(stream)
  <2>2. ASSUME spc # "failed" \/ ended
        PROVE  /\ Budget(bytes_remaining - Spent(m), stream', Unsent)
               /\ Len(stream) = 1 => Unsent = bytes_remaining - Spent(m)
    BY <1>0, <2>0, <2>2, BudgetTail DEF Account, StreamOK
  <2>3. CASE handle_packet(m) /\ m.type # "END_TRANSFER"
    <3>1. rpc' = rpc /\ bytes_remaining' = bytes_remaining - Spent(m)
      BY <1>0, <2>3 DEF handle_packet, Spent
    <3> HIDE DEF m
    <3> QED
      BY <1>0, <1>1, <2>0, <2>2, <3>1 DEF Account
  <2>4. CASE handle_packet(m) /\ m.type = "END_TRANSFER"
    <3>1. bytes_remaining = 0 /\ rpc' \in {"committing", "commit_failed"}
      BY <2>4 DEF handle_packet, AllReceived, begin_commit
    <3>2. ended /\ Len(stream) = 1 /\ Spent(m) = 0
      <4>1. m = stream[1] /\ Len(stream) \in Nat \ {0}
        BY <1>0, <2>0, Taken DEF StreamOK
      <4>2. 1 \in 1 .. Len(stream)
        BY <4>1
      <4> QED
        BY <1>0, <2>4, <4>1, <4>2 DEF StreamOK, Spent
    <3>3. Unsent = 0
      BY <2>2, <3>1, <3>2
    <3>4. Total(read) = announced
      <4>1. ~Reading
        BY <1>0, <3>2 DEF Walk, Reading
      <4>2. Unsent = announced - Total(read)
        BY <1>0, <4>1 DEF Unsent
      <4>3. Total(read) \in Nat /\ announced \in Nat
        BY <1>0
      <4> QED
        BY <3>3, <4>2, <4>3
    <3> QED
      BY <1>0, <2>0, <3>1, <3>2, <3>4 DEF Account
  <2> QED
    BY <1>5, <2>1, <2>3, <2>4 DEF receive
<1>6. CASE receive_error
  BY <1>4, <1>6 DEF receive_error, fail_transfer
<1>7. CASE commit \/ receiver_close
  <2>1. /\ rpc \in {"committing", "closing"} /\ rpc' \in {"committing", "commit_failed", "closing", "done"}
        /\ stream' = stream
    BY <1>7 DEF commit, receiver_close
  <2> QED
    BY <1>0, <2>1 DEF Account
<1>8. CASE Kill
  BY <1>0, <1>8 DEF Kill, Account
<1> QED
  BY <1>2, <1>3, <1>5, <1>6, <1>7, <1>8 DEF ReceiverNext

\* The account holds at the start.
LEMMA AccountInit == Init => Account
<1> SUFFICES ASSUME Init PROVE Account
  OBVIOUS
<1>1. /\ spc = "start" /\ rpc = "start" /\ stream = << >> /\ DOMAIN read = {}
  BY DEF Init
<1>2. Len(stream) = 0
  BY <1>1
<1> QED
  BY <1>1, <1>2 DEF Account

\* The account is inductive.
LEMMA AccountStep == TypeInv /\ Account /\ [Next]_vars => Account'
<1> SUFFICES ASSUME TypeInv, Account, [Next]_vars PROVE Account'
  OBVIOUS
<1>1. CASE UNCHANGED vars
  <2>1. Unsent' = Unsent
    BY <1>1 DEF vars, Unsent, Reading
  <2> HIDE DEF Unsent
  <2> QED
    BY <1>1, <2>1 DEF vars, Account
<1> QED
  BY <1>1, SenderAccount, ReceiverAccount DEF Next

\* A commit starts only if the second walk has sent exactly the number of bytes the first
\* walk has announced: for any tree, any packet size and any change of the source between
\* the two walks, and also when paths are too long for a packet.
THEOREM CommitMeansAnnounced == Spec => []AnnouncedIsSent
<1>1. TypeInv /\ Account /\ [Next]_vars => TypeInv' /\ Account'
  BY TypeInvStep, AccountStep
<1>2. Account => AnnouncedIsSent
  BY DEF Account, AnnouncedIsSent
<1> QED
  BY <1>1, <1>2, TypeInvInit, AccountInit, PTL DEF Spec

-----------------------------------------------------------------------------
(* What is read is the source *)

\* While nobody else has touched the source, the sender reads it as it is, and all of it.
Faithful ==
    changes = 0 =>
        /\ \A p \in DOMAIN read : p \in Walked /\ read[p] = source[p]
        /\ Reading => file.path \in Walked /\ file.pos <= source[file.path].size
        /\ spc = "ending" => file.pos = source[file.path].size
        /\ ended => Walked \subseteq DOMAIN read

\* A walk that finds nothing more has passed every entry it can see: of the entries left over,
\* one that lies in the fewest directories would be next.
LEMMA WalkReachesAll ==
    ASSUME IsTree(source), TreeTyped(source), hidden \in Hideable(source), Unvisited = {}
    PROVE  Walked \subseteq visited
<1> SUFFICES ASSUME Walked \ visited # {} PROVE FALSE
  OBVIOUS
<1> DEFINE Depth(p) == Cardinality(Above[p])
           R == {ss \in Nat \X Nat : ss[1] < ss[2]}
           Depths == {Depth(p) : p \in Walked \ visited}
<1>1. Walked \subseteq Paths /\ \A p \in Paths : Above[p] \subseteq Paths
  BY PathsAssumption DEF Walked, TreeTyped
<1>2. \A p \in Paths : IsFiniteSet(Above[p]) /\ Depth(p) \in Nat
  BY <1>1, PathsAssumption, FS_Subset, FS_CardinalityType
<1>3. PICK n \in Depths : \A k \in Depths : ~ (<<k, n>> \in R)
  <2>1. IsWellFoundedOn(R, Nat)
    BY NatLessThanWellFounded DEF OpToRel
  <2>2. Depths \subseteq Nat /\ Depths # {}
    BY <1>1, <1>2
  <2> HIDE DEF R, Depths
  <2> QED
    BY <2>1, <2>2, WFMin
<1>4. PICK p \in Walked \ visited : n = Depth(p)
  BY <1>3
<1>5. ASSUME NEW d \in Above[p]
      PROVE  d \in visited
  <2>1. d \in Walked /\ d \in Paths /\ p \in Paths
    <3>1. p \notin hidden /\ p \in DOMAIN source /\ p \in Paths
      BY <1>1, <1>4 DEF Walked
    <3>2. d \in DOMAIN source /\ source[d].kind = "dir"
      BY <3>1 DEF IsTree, IsDir
    <3>3. d \notin hidden
      BY <3>1 DEF Hideable
    <3> QED
      BY <1>1, <3>1, <3>2, <3>3 DEF Walked
  <2>2. Above[d] \subseteq Above[p] /\ d \notin Above[d]
    BY <2>1, PathsAssumption
  <2>3. Depth(d) <= Depth(p) /\ (Depth(d) = Depth(p) => Above[d] = Above[p])
    BY <1>2, <2>1, <2>2, FS_Subset
  <2>4. Depth(d) < Depth(p)
    BY <1>2, <2>1, <2>2, <2>3
  <2>5. d \notin visited => Depth(d) \in Depths
    BY <2>1
  <2> QED
    BY <1>2, <1>3, <1>4, <2>1, <2>4, <2>5
<1> QED
  BY <1>4, <1>5 DEF Unvisited

\* While nothing has changed in the source, what is read is what is there.
LEMMA FaithfulStep ==
    ASSUME TypeInv, Faithful, SenderNext \/ ReceiverNext
    PROVE  Faithful'
<1>0. /\ SenderTyped /\ SourceOK /\ Walk /\ StreamOK
      /\ \A p \in DOMAIN source : source[p].size \in Nat
  BY DEF TypeInv, SenderTyped, TreeTyped, Entries
<1>1. CASE SourceChanges
  <2>1. changes' # 0
    BY <1>0, <1>1 DEF SourceChanges, SenderTyped
  <2> QED
    BY <2>1 DEF Faithful
<1>2. CASE UNCHANGED <<source, hidden, changes, read, file, ended>> /\ (Reading' => spc' = spc)
  BY <1>2 DEF Faithful, Walked, Reading
<1>3. CASE announce \/ take_reply \/ sender_close \/ sender_fails \/ ReceiverNext
  BY <1>2, <1>3 DEF announce, take_reply, sender_close, sender_fails, ReceiverNext, Reading
<1>4. ASSUME NEW p \in DOMAIN source, path_handler(p)
      PROVE  Faithful'
  <2>1. /\ spc = "walking" /\ p \in Unvisited /\ UNCHANGED <<source, hidden, changes, ended>>
    BY <1>4 DEF path_handler
  <2>2. p \notin DOMAIN read /\ ~ended /\ p \in Walked
    BY <1>0, <2>1, AboveIsRead DEF Walk, Unvisited
  <2>3. CASE spc' \in {"walking", "failed"} /\ (read' = Put(read, p, source[p]) \/ read' = read)
    <3>1. \A q \in DOMAIN read' :
             \/ q = p /\ read'[q] = source[p]
             \/ q \in DOMAIN read /\ read'[q] = read[q]
      BY <2>3 DEF Put
    <3> QED
      BY <2>1, <2>2, <2>3, <3>1 DEF Faithful, Walked, Reading
  <2>4. CASE spc' = "reading" /\ read' = read /\ file' = [path |-> p, id |-> file_id_counter, pos |-> 0]
    <3>1. file'.path = p /\ file'.pos = 0 /\ source[p].size >= 0
      BY <1>0, <2>4
    <3> QED
      BY <2>1, <2>2, <2>4, <3>1 DEF Faithful, Walked, Reading
  <2> QED
    BY <1>4, <2>1, <2>3, <2>4 DEF path_handler
<1>5. CASE read_file
  <2> DEFINE size == source[file.path].size
  <2>1. /\ spc = "reading" /\ spc' = IF LastPart(Readable) THEN "ending" ELSE "reading"
        /\ file' = [file EXCEPT !.pos = @ + Readable]
        /\ UNCHANGED <<source, hidden, changes, read, ended>>
    BY <1>5 DEF read_file
  <2>2. /\ Readable \in 0 .. PacketSize /\ size \in Nat /\ PacketSize \in Nat \ {0} /\ file.pos \in Nat
        /\ file' = [path |-> file.path, id |-> file.id, pos |-> file.pos + Readable]
    BY <1>0, <2>1, ReadableType, TransferAssumption DEF SenderTyped
  <2>3. ASSUME file.pos <= size
        PROVE  /\ file.pos + Readable <= size
               /\ LastPart(Readable) => file.pos + Readable = size
    BY <2>2, <2>3 DEF Readable, LastPart
  <2> HIDE DEF Readable
  <2>4. file'.path = file.path /\ file'.pos = file.pos + Readable
    BY <2>2
  <2>5. ~ended
    BY <1>0, <2>1 DEF Walk
  <2> QED
    BY <2>1, <2>3, <2>4, <2>5 DEF Faithful, Walked, Reading
<1>6. CASE end_file
  <2>1. /\ spc = "ending" /\ spc' = "walking" /\ UNCHANGED <<source, hidden, changes, ended>>
        /\ read' = Put(read, file.path, [kind |-> "file", size |-> file.pos, owner |-> "sender"])
    BY <1>6 DEF end_file
  <2>2. /\ file.path \in DOMAIN source /\ source[file.path].kind = "file"
        /\ source[file.path] = [kind |-> "file", size |-> source[file.path].size, owner |-> "sender"]
    BY <1>0, <2>1 DEF Walk, Reading, SourceOK
  <2>3. changes = 0 => read' = Put(read, file.path, source[file.path])
    BY <2>1, <2>2 DEF Faithful
  <2>4. changes = 0 => \A q \in DOMAIN read' :
           \/ q = file.path /\ read'[q] = source[file.path]
           \/ q \in DOMAIN read /\ read'[q] = read[q]
    BY <2>3 DEF Put
  <2>5. ~ended
    BY <1>0, <2>1 DEF Walk
  <2> QED
    BY <2>1, <2>2, <2>4, <2>5 DEF Faithful, Walked, Reading
<1>7. CASE end_transfer
  <2>1. /\ spc = "walking" /\ spc' = "closing" /\ Unvisited = {}
        /\ UNCHANGED <<source, hidden, changes, read>>
    BY <1>7 DEF end_transfer
  <2>2. Walked \subseteq visited
    BY <1>0, <2>1, WalkReachesAll DEF SourceOK, SenderTyped
  <2>3. Walked \subseteq DOMAIN read
    BY <1>0, <2>1, <2>2 DEF Walk, Walked, Reading
  <2> QED
    BY <2>1, <2>3 DEF Faithful, Walked, Reading
<1> QED
  BY <1>1, <1>3, <1>4, <1>5, <1>6, <1>7 DEF SenderNext

\* If nobody else has touched the source, a transfer that reports success has sent exactly the
\* entries that the walk can see and that are no special files, each as it is there: the second
\* walk passes every one of them, whatever the tree, and reads every file to its end, whatever
\* its size.  An entry that File_walker cannot see is missing without an error.
THEOREM CommittedIsSource == Spec => []TransferredIsSource
<1> DEFINE FaithfulInv == TypeInv /\ Account /\ Faithful /\ read = [p \in DOMAIN read |-> read[p]]
<1>1. Init => FaithfulInv
  <2>1. Init => Faithful
    BY DEF Init, Faithful, Reading
  <2>2. Init => read = [p \in DOMAIN read |-> read[p]]
    BY DEF Init
  <2> QED
    BY <2>1, <2>2, TypeInvInit, AccountInit
<1>2. FaithfulInv /\ [Next]_vars => FaithfulInv'
  <2> SUFFICES ASSUME FaithfulInv, [Next]_vars PROVE FaithfulInv'
    OBVIOUS
  <2>1. TypeInv' /\ Account'
    BY TypeInvStep, AccountStep
  <2>2. Faithful'
    <3>1. CASE UNCHANGED vars
      BY <3>1 DEF vars, Faithful, Walked, Reading
    <3> QED
      BY <3>1, FaithfulStep DEF Next
  <2>3. (read = [p \in DOMAIN read |-> read[p]])'
    <3>1. CASE UNCHANGED read
      BY <3>1
    <3>2. ASSUME NEW p, NEW entry, read' = Put(read, p, entry)
          PROVE  read' = [q \in DOMAIN read' |-> read'[q]]
      BY <3>2 DEF Put
    <3> QED
      BY <3>1, <3>2 DEF Next, SenderNext, ReceiverNext, announce, take_reply, path_handler, read_file,
         end_file, end_transfer, sender_close, sender_fails, SourceChanges, vars
  <2> QED
    BY <2>1, <2>2, <2>3
<1>3. FaithfulInv => TransferredIsSource
  <2> SUFFICES ASSUME FaithfulInv, rpc \in {"closing", "done"}, changes = 0
               PROVE  read = Restrict(source, Walked)
    BY DEF TransferredIsSource
  <2>1. ended
    BY DEF Account
  <2>2. DOMAIN read = Walked /\ \A p \in Walked : read[p] = source[p]
    BY <2>1 DEF Faithful
  <2> QED
    BY <2>2 DEF Restrict
<1> HIDE DEF FaithfulInv
<1> QED
  BY <1>1, <1>2, <1>3, PTL DEF Spec
=============================================================================
