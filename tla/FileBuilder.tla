----------------------------- MODULE FileBuilder -----------------------------
(***************************************************************************)
(* File_builder: everything received is built in a staging directory under *)
(* the output directory, and commit() moves it into place entry by entry.  *)
(* An operation is one action (no co_await inside), except commit, during  *)
(* which the process may be killed between two entries.  An operation that *)
(* reports an error is left to the caller: whatever it did is inside the   *)
(* staging directory.                                                      *)
(***************************************************************************)
EXTENDS Integers, FiniteSets, Functions

CONSTANTS
    Paths,      \* the relative paths of the model
    Above       \* path -> the paths of the directories it lies in

ASSUME PathsAssumption ==
    /\ IsFiniteSet(Paths)
    /\ Above \in [Paths -> SUBSET Paths]
    /\ \A p \in Paths : p \notin Above[p] /\ \A d \in Above[p] : Above[d] \subseteq Above[p]

VARIABLES
    user,           \* path -> entry, the output directory without the staging directory
    staging,        \* staging_root_ is set and the directory exists
    staged,         \* path -> entry, the staging directory
    open_files,     \* file_id -> [path, size]: what the stream was given so far
    committed       \* the entries commit's iterator has passed

builderVars == <<user, staging, staged, open_files, committed>>

\* An entry of a tree; the size of a file stands for its contents, owner for whose.
\* A special entry is a pipe, a socket or a device.
Entry(kind, size, owner) == [kind |-> kind, size |-> size, owner |-> owner]
Entries == [kind : {"dir", "file", "link", "special"}, size : Nat, owner : {"user", "sender"}]

Put(f, key, value) == [x \in DOMAIN f \union {key} |-> IF x = key THEN value ELSE f[x]]
Remove(f, key) == Restrict(f, DOMAIN f \ {key})

IsDir(tree, p) == p \in DOMAIN tree /\ tree[p].kind = "dir"

\* A tree: every entry lies in directories of it.
IsTree(tree) == \A p \in DOMAIN tree : \A d \in Above[p] : IsDir(tree, d)

\* create_directories(path.parent_path()): it fails if something else is in the way,
\* and otherwise makes the directories that are missing.
Reachable(tree, p) == \A d \in Above[p] : d \in DOMAIN tree => IsDir(tree, d)
WithDirectories(tree, p) ==
    [q \in DOMAIN tree \union Above[p] |->
        IF q \in DOMAIN tree THEN tree[q] ELSE Entry("dir", 0, "sender")]

\* The constructor may fail to create the staging directory; then it stays unset.
BuilderInit ==
    /\ staging \in BOOLEAN
    /\ staged = [p \in {} |-> 0] /\ open_files = [id \in {} |-> 0] /\ committed = {}

create_directory(p) ==
    /\ staging /\ Reachable(staged, p) /\ (p \in DOMAIN staged => IsDir(staged, p))
    /\ staged' = Put(WithDirectories(staged, p), p, Entry("dir", 0, "sender"))
    /\ UNCHANGED <<user, staging, open_files, committed>>

\* Mutant of create_file: it writes to the output directory itself.
create_file_InPlace(p, id) ==
    /\ staging /\ Reachable(user, p) /\ ~IsDir(user, p)
    /\ user' = Put(WithDirectories(user, p), p, Entry("file", 0, "sender"))
    /\ open_files' = Put(open_files, id, [path |-> p, size |-> 0])
    /\ UNCHANGED <<staging, staged, committed>>

\* Opens with trunc; the data reaches the file at the latest when it is closed.
create_file(p, id) ==
    /\ staging /\ Reachable(staged, p) /\ ~IsDir(staged, p)
    /\ staged' = Put(WithDirectories(staged, p), p, Entry("file", 0, "sender"))
    /\ open_files' = Put(open_files, id, [path |-> p, size |-> 0])
    /\ UNCHANGED <<user, staging, committed>>

create_symlink(p) ==
    /\ staging /\ Reachable(staged, p) /\ p \notin DOMAIN staged
    /\ staged' = Put(WithDirectories(staged, p), p, Entry("link", 0, "sender"))
    /\ UNCHANGED <<user, staging, open_files, committed>>

write(id, size) ==
    /\ id \in DOMAIN open_files
    /\ open_files' = [open_files EXCEPT ![id].size = @ + size]
    /\ UNCHANGED <<user, staging, staged, committed>>

\* The staged tree once the streams of ids are flushed.
Flushed(ids) ==
    [p \in DOMAIN staged |->
        IF \E id \in ids : open_files[id].path = p
        THEN LET id == CHOOSE id \in ids : open_files[id].path = p
             IN  Entry("file", open_files[id].size, "sender")
        ELSE staged[p]]

close_file(id) ==
    /\ id \in DOMAIN open_files
    /\ staged' = Flushed({id})
    /\ open_files' = Remove(open_files, id)
    /\ UNCHANGED <<user, staging, committed>>

\* remove_all may fail half-way; its error is ignored.
cleanup ==
    /\ open_files' = [id \in {} |-> 0]
    /\ staging' \in {FALSE, staging}
    /\ staged' = IF staging' THEN staged ELSE [p \in {} |-> 0]
    /\ UNCHANGED <<user, committed>>

-----------------------------------------------------------------------------
(* commit *)

close_all ==
    /\ staging
    /\ staged' = Flushed(DOMAIN open_files)
    /\ open_files' = [id \in {} |-> 0]
    /\ UNCHANGED <<user, staging, committed>>

\* The iterator hands out a directory before what is in it.
NextEntry(p) == /\ p \in DOMAIN staged \ committed
                /\ Above[p] \subseteq committed
                /\ committed' = committed \union {p}

\* A directory is created unless it is there; anything else in its place is an error.
commit_directory(p) ==
    /\ NextEntry(p) /\ IsDir(staged, p)
    /\ Reachable(user, p) /\ (p \in DOMAIN user => IsDir(user, p))
    /\ user' = WithDirectories(IF IsDir(user, p) THEN user ELSE Put(user, p, staged[p]), p)
    /\ UNCHANGED <<staging, staged, open_files>>

\* Mutant of commit_entry: what is there already is left alone.
commit_entry_KeepExisting(p) ==
    /\ NextEntry(p) /\ ~IsDir(staged, p)
    /\ Reachable(user, p) /\ ~IsDir(user, p)
    /\ user' = IF p \in DOMAIN user THEN user ELSE Put(WithDirectories(user, p), p, staged[p])
    /\ staged' = Remove(staged, p)
    /\ UNCHANGED <<staging, open_files>>

\* One rename per file or symbolic link; a directory is never replaced.
commit_entry(p) ==
    /\ NextEntry(p) /\ ~IsDir(staged, p)
    /\ Reachable(user, p) /\ ~IsDir(user, p)
    /\ user' = Put(WithDirectories(user, p), p, staged[p])
    /\ staged' = Remove(staged, p)
    /\ UNCHANGED <<staging, open_files>>

\* At the end the staging directory is removed.
commit_done ==
    /\ DOMAIN staged \subseteq committed
    /\ staging' = FALSE /\ staged' = [p \in {} |-> 0]
    /\ UNCHANGED <<user, open_files, committed>>
=============================================================================
