----------------------------- MODULE AtomicFile -----------------------------
(***************************************************************************)
(* WriteBytesAtomic of util/FileSystem: a writer puts its bytes in a       *)
(* temporary file beside the target, under a name that the process id and  *)
(* a counter make its own, and renames it over the target.                 *)
(*                                                                         *)
(* Every output of the library (signatures, containers, cached CRLs and    *)
(* issuer certificates) is written this way, by threads and by processes   *)
(* that know nothing of each other, any of which may be killed between two *)
(* steps.                                                                  *)
(***************************************************************************)

CONSTANTS
    Writers,    \* threads and processes that write
    Paths,      \* target files
    Contents    \* byte strings a writer may have to write

VARIABLES
    file,       \* file[p]: what the target p holds
    writing,    \* writing[w]: the call writer w is in, and its temporary file
    orphans     \* temporary files that no call owns any more

Absent == [bytes |-> "absent"]
Part(c) == [bytes |-> "part", of |-> c]
Whole(c) == [bytes |-> "whole", of |-> c]

Targets == {Absent} \cup {Whole(c) : c \in Contents}
TempFiles == {Part(c) : c \in Contents} \cup {Whole(c) : c \in Contents}

Call(s, p, c) == [stage |-> s, path |-> p, data |-> c]
NotWriting == [stage |-> "none"]
Stages == {"called", "opened", "written"}
Calls == {NotWriting} \cup [stage : Stages, path : Paths, data : Contents]

FileTypeOK ==
    /\ file \in [Paths -> Targets]
    /\ writing \in [Writers -> Calls]
    /\ orphans \subseteq Paths \X TempFiles

(* The temporary file of a call, while it exists.                          *)
TempOf(w) ==
    CASE writing[w].stage = "opened"  -> {Part(writing[w].data)}
      [] writing[w].stage = "written" -> {Whole(writing[w].data)}
      [] OTHER -> {}

FileInit ==
    /\ file \in [Paths -> Targets]
    /\ writing = [w \in Writers |-> NotWriting]
    /\ orphans = {}

BeginWrite(w, p, c) ==
    /\ writing[w].stage = "none"
    /\ writing' = [writing EXCEPT ![w] = Call("called", p, c)]
    /\ UNCHANGED <<file, orphans>>

(* create_directories, then the temporary file is created empty.           *)
OpenTemp(w) ==
    /\ writing[w].stage = "called"
    /\ writing' = [writing EXCEPT ![w] = Call("opened", @.path, @.data)]
    /\ UNCHANGED <<file, orphans>>

OpenFails(w) ==
    /\ writing[w].stage = "called"
    /\ writing' = [writing EXCEPT ![w] = NotWriting]
    /\ UNCHANGED <<file, orphans>>

WriteTemp(w) ==
    /\ writing[w].stage = "opened"
    /\ writing' = [writing EXCEPT ![w] = Call("written", @.path, @.data)]
    /\ UNCHANGED <<file, orphans>>

(* The write, the close or the rename fails.  The temporary file is        *)
(* removed; should that fail too nobody hears of it.                       *)
WriteFails(w) ==
    /\ writing[w].stage \in {"opened", "written"}
    /\ \E left \in SUBSET TempOf(w) :
          orphans' = orphans \cup ({writing[w].path} \X left)
    /\ writing' = [writing EXCEPT ![w] = NotWriting]
    /\ UNCHANGED file

Replace(w) ==
    /\ writing[w].stage = "written"
    /\ file' = [file EXCEPT ![writing[w].path] = Whole(writing[w].data)]
    /\ writing' = [writing EXCEPT ![w] = NotWriting]
    /\ UNCHANGED orphans

(* The process of the writer ends; its temporary file stays.               *)
Killed(w) ==
    /\ writing[w].stage # "none"
    /\ orphans' = orphans \cup ({writing[w].path} \X TempOf(w))
    /\ writing' = [writing EXCEPT ![w] = NotWriting]
    /\ UNCHANGED file
=============================================================================
