------------------------------ MODULE Transfer ------------------------------
(***************************************************************************)
(* A whole transfer: Sender (its two walks with File_walker), Receiver     *)
(* with its File_builder, and between them the streams of ProtoStream, of  *)
(* which only the promise of FifoChannel is used: what send() takes        *)
(* arrives complete and in order, unless a side fails.  Each side may fail *)
(* in every state; nothing tells the other one but its idle timeout.       *)
(***************************************************************************)
EXTENDS FileBuilder, Sequences

CONSTANTS
    NoPath,         \* in the messages that carry none
    LongPaths,      \* the paths that do not fit into a packet
    PacketSize,     \* FTProto::PACKET_SIZE
    MaxSize,        \* bound of the model: the size of a file
    MaxChanges      \* bound of the model: changes of the sender's tree by others

ASSUME TransferAssumption ==
    /\ NoPath \notin Paths /\ PacketSize \in Nat \ {0} /\ MaxSize \in Nat /\ MaxChanges \in Nat
    /\ LongPaths \subseteq Paths
    /\ \A p \in Paths : Above[p] \intersect LongPaths # {} => p \in LongPaths

VARIABLES
    spc,                \* where Sender is (see SenderStates)
    source,             \* path -> entry, the tree to send
    hidden,             \* the entries that File_walker does not get to see
    visited,            \* what the second walk has passed
    file,               \* the file path_handler reads: its path, id and position
    file_id_counter,
    announced,          \* bytes_to_transfer_ of Sender
    rpc,                \* where Receiver is (see ReceiverStates)
    bytes_remaining,
    stream, reply,      \* packets that send() has taken and receive() has not, each way
    old,                \* history: the output directory at the start
    read,               \* history: path -> entry, what Sender has read and sent
    ended,              \* history: END_TRANSFER was sent
    changes             \* history: how often the source has changed

senderVars   == <<spc, source, hidden, visited, file, file_id_counter, announced, read, ended,
                  changes>>
receiverVars == <<rpc, bytes_remaining>>
vars         == <<senderVars, receiverVars, stream, reply, old, builderVars>>

SenderStates == { "start",         \* Sender::transfer_confirmation, first walk
                  "asked",         \* receive() of the answer
                  "walking",       \* start_transfer, between two entries
                  "reading",       \* the loop of path_handler
                  "ending",        \* its END_FILE
                  "closing", "done", "failed" }

ReceiverStates == { "start",       \* receive() of the announcement
                    "asking",      \* std::getline
                    "receiving",   \* start_transfer
                    "committing", "closing", "done",
                    "refused", "failed", "commit_failed", "killed" }

Kinds == {"SIZE", "CREATE_DIRECTORY", "CREATE_SYMLINK", "CREATE_FILE", "FILE_DATA", "END_FILE",
          "END_TRANSFER"}

Message(type, path, id, size) == [type |-> type, path |-> path, id |-> id, size |-> size]
EndTransfer == Message("END_TRANSFER", NoPath, 0, 0)

\* protostream_.send
Say(message) == stream' = Append(stream, message)

Total(tree) == FoldFunction(LAMBDA entry, sum : entry.size + sum, 0, tree)

\* The trees an owner may have before the transfer.
TreesOf(owner, kinds, sizes) ==
    LET Any == {Entry(kind, 0, owner) : kind \in kinds} \union {Entry("file", size, owner) : size \in sizes}
    IN  {tree \in UNION {[dom -> Any] : dom \in SUBSET Paths} : IsTree(tree)}

\* The sets of entries that the walk may be unable to see: those whose status cannot be
\* read, and those that lie in a directory that cannot be opened.  What lies in a directory
\* of the first kind cannot be seen either.
Hideable(tree) ==
    {set \in SUBSET DOMAIN tree :
        \A p \in DOMAIN tree : Above[p] \intersect set # {} => p \in set}

Init ==
    /\ source \in TreesOf("sender", {"dir", "link", "special"}, 0 .. MaxSize)
    /\ hidden \in Hideable(source)
    /\ old \in TreesOf("user", {"dir", "link"}, {0}) /\ user = old
    /\ BuilderInit
    /\ spc = "start" /\ rpc = "start"
    /\ visited = {} /\ file = [path |-> NoPath, id |-> 0, pos |-> 0] /\ file_id_counter = 0
    /\ announced = 0 /\ bytes_remaining = 0
    /\ stream = << >> /\ reply = "none"
    /\ read = [p \in {} |-> 0] /\ ended = FALSE /\ changes = 0

-----------------------------------------------------------------------------
(* Sender *)

\* Mutant of Walked: special files are handed out too, and path_handler refuses them.
Walked_All == DOMAIN source \ hidden

\* What File_walker::next hands out.  A special file is skipped, and so is, with a message
\* and without an error, an entry that the walk cannot see.
Walked == {p \in DOMAIN source \ hidden : source[p].kind # "special"}

\* transfer_confirmation: the first walk adds up the sizes of the regular files.
announce ==
    /\ spc = "start"
    /\ announced' = Total(Restrict(source, Walked))
    /\ Say(Message("SIZE", NoPath, 0, announced'))
    /\ spc' = "asked"
    /\ UNCHANGED <<source, hidden, visited, file, file_id_counter, read, ended, changes, reply>>

take_reply ==
    /\ spc = "asked" /\ reply # "none"
    /\ spc' = IF reply = "CONFIRM" THEN "walking" ELSE "failed"
    /\ reply' = "none"
    /\ UNCHANGED <<source, hidden, visited, file, file_id_counter, announced, read, ended, changes, stream>>

\* Mutant of Unvisited: the walk does not descend.
Unvisited_TopOnly == {p \in Walked \ visited : Above[p] = {}}

\* The second walk: a directory comes before what is in it.
Unvisited == {p \in Walked \ visited : Above[p] \subseteq visited}

\* What arrives as the path of an entry when set_payload refuses it, which nobody looks
\* at: nothing for a directory.  The header of CREATE_FILE is not initialized; its size
\* may be that of the packet for an earlier file, which still lies there.
SentAs(p) == IF p \notin LongPaths THEN {p}
             ELSE {NoPath} \union {q \in DOMAIN read : source[p].kind = "file" /\ read[q].kind = "file"}

\* path_handler up to the first packet it sends.
path_handler(p) ==
    /\ spc = "walking" /\ p \in Unvisited
    /\ visited' = visited \union {p}
    /\ \/ /\ source[p].kind = "link" /\ p \notin LongPaths
          /\ Say(Message("CREATE_SYMLINK", p, 0, 0))
          /\ read' = Put(read, p, source[p])
          /\ UNCHANGED <<spc, file, file_id_counter>>
       \/ /\ source[p].kind = "link" /\ p \in LongPaths
          /\ spc' = "failed"
          /\ UNCHANGED <<stream, read, file, file_id_counter>>
       \/ /\ source[p].kind = "dir"
          /\ \E path \in SentAs(p) : Say(Message("CREATE_DIRECTORY", path, file_id_counter, 0))
          /\ file_id_counter' = file_id_counter + 1
          /\ read' = Put(read, p, source[p])
          /\ UNCHANGED <<spc, file>>
       \/ /\ source[p].kind = "file"
          /\ \E path \in SentAs(p) : Say(Message("CREATE_FILE", path, file_id_counter, 0))
          /\ file_id_counter' = file_id_counter + 1
          /\ file' = [path |-> p, id |-> file_id_counter, pos |-> 0]
          /\ spc' = "reading"
          /\ UNCHANGED read
    /\ UNCHANGED <<source, hidden, announced, ended, changes, reply>>

\* What the next read of the open file returns.
Readable == LET left == source[file.path].size - file.pos
            IN  IF left <= 0 THEN 0 ELSE IF left < PacketSize THEN left ELSE PacketSize

\* Mutant of LastPart: the first packet is taken for the last one.
LastPart_Eager(size) == TRUE

\* The loop of path_handler ends with the first packet that is not full.
LastPart(size) == size < PacketSize

read_file ==
    /\ spc = "reading"
    /\ Say(Message("FILE_DATA", NoPath, file.id, Readable))
    /\ file' = [file EXCEPT !.pos = @ + Readable]
    /\ spc' = IF LastPart(Readable) THEN "ending" ELSE "reading"
    /\ UNCHANGED <<source, hidden, visited, file_id_counter, announced, read, ended, changes, reply>>

end_file ==
    /\ spc = "ending"
    /\ Say(Message("END_FILE", NoPath, file.id, 0))
    /\ read' = Put(read, file.path, Entry("file", file.pos, "sender"))
    /\ spc' = "walking"
    /\ UNCHANGED <<source, hidden, visited, file, file_id_counter, announced, ended, changes, reply>>

end_transfer ==
    /\ spc = "walking" /\ Unvisited = {}
    /\ Say(EndTransfer)
    /\ ended' = TRUE /\ spc' = "closing"
    /\ UNCHANGED <<source, hidden, visited, file, file_id_counter, announced, read, changes, reply>>

\* ProtoStream::close, after which the sender is done whatever the drain has found.
sender_close ==
    /\ spc = "closing" /\ spc' = "done"
    /\ UNCHANGED <<source, hidden, visited, file, file_id_counter, announced, read, ended, changes,
                   stream, reply>>

\* The transport, a file or the walker fails, or the chance size of a CREATE_FILE is too
\* large to be sent: Sender returns without close().
sender_fails ==
    /\ spc \notin {"done", "failed"} /\ spc' = "failed"
    /\ UNCHANGED <<source, hidden, visited, file, file_id_counter, announced, read, ended, changes,
                   stream, reply>>

\* Somebody else writes to a file of the source, removes an entry or takes the right to see
\* some away; a file that is open stays readable.
SourceChanges ==
    /\ changes < MaxChanges /\ changes' = changes + 1
    /\ \/ \E p \in DOMAIN source :
             /\ source[p].kind = "file"
             /\ \E size \in 0 .. MaxSize : source' = [source EXCEPT ![p].size = size]
             /\ UNCHANGED hidden
       \/ \E p \in DOMAIN source :
             /\ \A q \in DOMAIN source : p \notin Above[q]
             /\ spc \in {"reading", "ending"} => file.path # p
             /\ source' = Remove(source, p)
             /\ hidden' = hidden \ {p}
       \/ /\ hidden' \in Hideable(source) /\ hidden \subseteq hidden' /\ hidden' # hidden
          /\ UNCHANGED source
    /\ UNCHANGED <<spc, visited, file, file_id_counter, announced, read, ended, stream, reply>>

SenderNext ==
    /\ \/ announce \/ take_reply \/ read_file \/ end_file \/ end_transfer \/ sender_close
       \/ \E p \in DOMAIN source : path_handler(p)
       \/ sender_fails \/ SourceChanges
    /\ UNCHANGED <<receiverVars, old, builderVars>>

-----------------------------------------------------------------------------
(* Receiver *)

receive_announcement ==
    /\ rpc = "start" /\ stream # << >>
    /\ bytes_remaining' = Head(stream).size /\ stream' = Tail(stream)
    /\ rpc' = "asking"
    /\ UNCHANGED <<reply, builderVars>>

\* 'y' or 'n'; a refusal leaves the staging directory as it is, without close().
answer ==
    /\ rpc = "asking"
    /\ \/ reply' = "CONFIRM" /\ rpc' = "receiving"
       \/ reply' = "CONFIRM_FAILED" /\ rpc' = "refused"
    /\ UNCHANGED <<bytes_remaining, stream, builderVars>>

\* Mutant of WithinAnnounced: the size is not compared with what was announced.
WithinAnnounced_Unchecked(size) == TRUE

WithinAnnounced(size) == size <= bytes_remaining

\* Mutant of AllReceived: END_TRANSFER is believed.
AllReceived_Unchecked == TRUE

AllReceived == bytes_remaining = 0

\* commit() up to its iterator; it may fail before it has moved anything.
begin_commit ==
    /\ \/ close_all /\ rpc' = "committing"
       \/ /\ rpc' = "commit_failed" /\ open_files' = [id \in {} |-> 0]
          /\ staged' \in {staged, Flushed(DOMAIN open_files)}
          /\ UNCHANGED <<user, staging, committed>>
    /\ UNCHANGED bytes_remaining

\* Receiver::handle_packet when it succeeds; END_TRANSFER ends the loop.  An empty path
\* is refused (validate_relative_path).
handle_packet(packet) ==
    \/ /\ packet.type = "CREATE_DIRECTORY" /\ packet.path # NoPath /\ create_directory(packet.path)
       /\ UNCHANGED receiverVars
    \/ /\ packet.type = "CREATE_FILE" /\ packet.path # NoPath /\ create_file(packet.path, packet.id)
       /\ UNCHANGED receiverVars
    \/ /\ packet.type = "CREATE_SYMLINK" /\ packet.path # NoPath /\ create_symlink(packet.path)
       /\ UNCHANGED receiverVars
    \/ /\ packet.type = "FILE_DATA" /\ WithinAnnounced(packet.size)
       /\ write(packet.id, packet.size)
       /\ bytes_remaining' = bytes_remaining - packet.size
       /\ UNCHANGED rpc
    \/ /\ packet.type = "END_FILE" /\ close_file(packet.id)
       /\ UNCHANGED receiverVars
    \/ /\ packet.type = "END_TRANSFER" /\ AllReceived
       /\ begin_commit

\* Every error in start_transfer before the commit: cleanup, and no close().
fail_transfer == cleanup /\ rpc' = "failed" /\ UNCHANGED bytes_remaining

\* One packet in start_transfer.  Any operation of the file system may fail.
receive ==
    /\ rpc = "receiving" /\ stream # << >> /\ stream' = Tail(stream)
    /\ \/ handle_packet(Head(stream))
       \/ (Head(stream).type = "END_TRANSFER" => ~AllReceived) /\ fail_transfer
    /\ UNCHANGED reply

\* Mutant of Silence: the receiver never gives up waiting.
Silence_Ignored == FALSE

\* Nothing can come any more; IDLE_TIMEOUT notices.
Silence == stream = << >> /\ spc \in {"done", "failed"}

\* receive() reports an error of the transport; the idle timeout is one.
receive_error ==
    /\ \/ rpc = "receiving" /\ fail_transfer
       \/ /\ rpc \in {"start", "asking"} /\ rpc' = "failed"
          /\ UNCHANGED <<bytes_remaining, builderVars>>
    /\ UNCHANGED <<stream, reply>>

commit ==
    /\ rpc = "committing"
    /\ \/ /\ \E p \in DOMAIN staged : commit_directory(p) \/ commit_entry(p)
          /\ UNCHANGED rpc
       \/ commit_done /\ rpc' = "closing"
       \/ rpc' = "commit_failed" /\ UNCHANGED builderVars
    /\ UNCHANGED <<bytes_remaining, stream, reply>>

receiver_close ==
    /\ rpc = "closing" /\ rpc' = "done"
    /\ UNCHANGED <<bytes_remaining, stream, reply, builderVars>>

\* The process is killed, also between two entries of the commit.
Kill ==
    /\ rpc \notin {"done", "refused", "failed", "commit_failed", "killed"} /\ rpc' = "killed"
    /\ UNCHANGED <<bytes_remaining, stream, reply, builderVars>>

ReceiverNext ==
    /\ \/ receive_announcement \/ answer \/ receive \/ receive_error \/ commit
       \/ receiver_close \/ Kill
    /\ UNCHANGED <<senderVars, old>>

Next == SenderNext \/ ReceiverNext

Spec == Init /\ [][Next]_vars

-----------------------------------------------------------------------------
(* properties *)

\* The type of every variable; bytes_remaining_ never wraps below zero.
TypeOK ==
    /\ spc \in SenderStates /\ rpc \in ReceiverStates
    /\ \A tree \in {source, read, user, old, staged} :
          /\ DOMAIN tree \subseteq Paths
          /\ \A p \in DOMAIN tree : tree[p] \in Entries
    /\ hidden \in Hideable(source) /\ visited \subseteq Paths /\ committed \subseteq Paths
    /\ file.path \in Paths \union {NoPath} /\ file.id \in Nat /\ file.pos \in Nat
    /\ file_id_counter \in Nat /\ announced \in Nat /\ bytes_remaining \in Nat
    /\ \A i \in DOMAIN stream :
          stream[i] \in [type : Kinds, path : Paths \union {NoPath}, id : Nat, size : Nat]
    /\ reply \in {"none", "CONFIRM", "CONFIRM_FAILED"}
    /\ \A id \in DOMAIN open_files : open_files[id] \in [path : Paths, size : Nat]
    /\ staging \in BOOLEAN /\ ended \in BOOLEAN /\ changes \in 0 .. MaxChanges

Overlay == INSTANCE TreeOverlay WITH incoming <- read, complete <- ended, tree <- user

\* The output tree changes only by whole entries as the sender has read them, after
\* the sender has sent everything, wherever either side fails or is killed.
OverlaySpec == Overlay!Spec

\* When commit() succeeds the output tree is the old one with every entry the sender
\* has read laid over it: no entry is missing, cut short or from another transfer.
CommittedIsOverlay ==
    rpc \in {"closing", "done"} =>
        /\ DOMAIN user = DOMAIN old \union DOMAIN read
        /\ \A p \in DOMAIN user :
              IF p \notin DOMAIN read THEN user[p] = old[p]
              ELSE IF read[p].kind = "dir" THEN user[p].kind = "dir"
              ELSE user[p] = read[p]

\* A commit starts only if the second walk has sent exactly the number of bytes the
\* first walk has announced, whatever happens to the source between the two.
AnnouncedIsSent ==
    rpc \in {"committing", "commit_failed", "closing", "done"} => Total(read) = announced

\* If the source has not changed, a transfer that reports success has sent every entry that
\* the walk can see and that is no special file, and every byte of it; what File_walker cannot
\* see it leaves out of both walks without an error.
TransferredIsSource ==
    rpc \in {"closing", "done"} /\ changes = 0 => read = Restrict(source, Walked)
=============================================================================
