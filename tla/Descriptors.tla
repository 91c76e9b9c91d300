---------------------------- MODULE Descriptors ----------------------------
(***************************************************************************)
(* The descriptor table (src/src/files.c, close.c, pseudo_c.c, read.c,     *)
(* write.c) and descriptors of AmigaDOS files (amigados.c, open.c), with   *)
(* the deletion of open files (unlink.c).  Handlers run by the polls       *)
(* inside a call may open, close and unlink themselves.                    *)
(*                                                                         *)
(* AmigaDOS reclaims nothing: a handle or a lock must be closed once, and  *)
(* is memory of someone else afterwards.  DeleteFile refuses a file as     *)
(* long as any handle or lock on it exists, of whatever task.              *)
(***************************************************************************)
EXTENDS Integers, FiniteSets

CONSTANTS
  Names,        \* file names
  Infos,        \* struct amigainfo's malloc can return
  FILE_STEP,    \* growth of the table
  MaxFds,       \* bound: the table is not filled beyond this size
  MainCalls,    \* calls the main program makes
  HandlerCalls  \* calls a handler makes

Free == "free"
Console == "console"   \* what descriptor 0 is open on; no name of a file
Slots == 0 .. MaxFds - 1

ASSUME DescriptorsAssumption ==
  /\ FILE_STEP \in Nat \ {0} /\ MaxFds \in Nat /\ FILE_STEP <= MaxFds
  /\ Free \notin Infos /\ Infos # {}
  /\ Names \cap {Free, Console} = {}

VARIABLES
  files,    \* userinfo of each slot, or Free
  max,      \* max_files
  info,     \* each struct amigainfo, NoInfo when not allocated
  exists,   \* names of existing files
  given,    \* files whose handle was given to a child
  leaked,   \* files on which a failed open left a lock
  foreign,  \* files another task has a handle or a lock on
  misused,  \* ghost: "handle", "lock" or "info": used after its end
  contended,\* ghost: files that had two users at a time (Contended)
  depth,    \* 1: the main program runs, 2: a handler
  call      \* the call in progress at each depth

vars == <<files, max, info, exists, given, leaked, foreign, misused, contended, depth, call>>
others == <<given, leaked, foreign>>
dos == <<exists, others>>

----------------------------------------------------------------------------
(* Calls in progress: pc is what comes after the poll the call is in.      *)

User == [k |-> "user"]
On(k, fd) == [k |-> k, fd |-> fd]
Open(n) == [k |-> "open", n |-> n]
\* unlink: at is the descriptor the loop asks next, nlock whether its lock on
\* the file is held; pc is "delete" before the loop, and "closed" when it has
\* closed descriptor at and is about to delete its file.
Unlink(n, at, nlock, pc) == [k |-> "unlink", n |-> n, at |-> at, nlock |-> nlock, pc |-> pc]
\* A line-wise write that has looked its descriptor up already.
Lines(i) == [k |-> "lines", info |-> i]

Frames ==
  {User} \cup [k : {"read", "write", "close", "give"}, fd : Slots]
  \cup [k : {"open"}, n : Names] \cup [k : {"lines"}, info : Infos]
  \cup [k : {"unlink"}, n : Names, at : -1 .. MaxFds - 1,
        nlock : {"none", "held", "freed"}, pc : {"delete", "ask"}]
  \cup [k : {"unlink"}, n : Names, at : Slots, nlock : {"freed"}, pc : {"closed"}]

\* fh: its handle is open; lock: it holds a lock; deleted as in the code;
\* removed: that file was deleted.
InfoRecords ==
  [name : Names \cup {Console, Free}, fh : BOOLEAN, lock : BOOLEAN,
   deleted : BOOLEAN, removed : BOOLEAN]

TypeOK ==
  /\ files \in [Slots -> Infos \cup {Free}]
  /\ max \in 0 .. MaxFds
  /\ info \in [Infos -> InfoRecords]
  /\ exists \subseteq Names /\ given \cup leaked \cup foreign \subseteq exists
  /\ misused \subseteq {"handle", "lock", "info"} /\ contended \subseteq Names
  /\ depth \in 1 .. 2
  /\ call \in [1 .. 2 -> Frames]

NewInfo(n) == [name |-> n, fh |-> TRUE, lock |-> FALSE, deleted |-> FALSE, removed |-> FALSE]
NoInfo == [name |-> Free, fh |-> FALSE, lock |-> FALSE, deleted |-> FALSE, removed |-> FALSE]

Init ==
  /\ \E i \in Infos :
       /\ files = [fd \in Slots |-> IF fd = 0 THEN i ELSE Free]
       /\ info = [j \in Infos |-> IF j = i THEN NewInfo(Console) ELSE NoInfo]
  /\ max = FILE_STEP
  /\ exists = Names /\ given = {} /\ leaked = {} /\ foreign = {}
  /\ misused = {} /\ contended = {}
  /\ depth = 1 /\ call = [d \in 1 .. 2 |-> User]

Top == call[depth]
Becomes(c) == call' = [call EXCEPT ![depth] = c] /\ UNCHANGED depth
Return == Becomes(User)

\* A poll, after which the call goes on as c; a handler may run first.
Polls(c) ==
  \/ Becomes(c)
  \/ /\ depth = 1
     /\ depth' = 2
     /\ call' = [call EXCEPT ![1] = c, ![2] = User]

Misuse(what, cond) == misused' = IF cond THEN misused \cup {what} ELSE misused

MayCall(op) == Top = User /\ op \in (IF depth = 1 THEN MainCalls ELSE HandlerCalls)

----------------------------------------------------------------------------
(* AmigaDOS.                                                               *)

NlockHeld(d, n) == call[d].k = "unlink" /\ call[d].n = n /\ call[d].nlock = "held"
OwnUse(i, n) == info[i].name = n /\ (info[i].fh \/ info[i].lock)
OthersUse(n) == n \in given \cup leaked \cup foreign
InUse(n) ==
  OthersUse(n) \/ (\E d \in 1 .. 2 : NlockHeld(d, n)) \/ \E i \in Infos : OwnUse(i, n)

----------------------------------------------------------------------------
(* open, close, read, write and handing a descriptor to a child.           *)

Start(op) ==
  /\ MayCall(op)
  /\ \E fd \in Slots : Polls(On(op, fd))
  /\ UNCHANGED <<files, max, info, dos, misused>>

CallOpen ==
  /\ MayCall("open")
  /\ \E n \in Names : Polls(Open(n))
  /\ UNCHANGED <<files, max, info, dos, misused>>

\* _alloc_fd: the first free slot, in a larger table when there is none.
FreeSlots == {fd \in 0 .. max - 1 : files[fd] = Free}
\* Variant for checking: the slot after as many as are used is taken.
SlotByCount == Cardinality({fd \in 0 .. max - 1 : files[fd] # Free})
Slot == IF FreeSlots = {} THEN max ELSE CHOOSE fd \in FreeSlots : \A g \in FreeSlots : fd <= g
NewMax == IF FreeSlots = {} THEN max + FILE_STEP ELSE max

\* open fails before it has made a file, or, when there is no structure or slot
\* for it, after that.  When a file's protection cannot be had (AllocDosObject
\* or Examine fails) the lock on the file is left behind for ever.
OpenFails ==
  /\ \/ exists' \in {exists, exists \cup {Top.n}} /\ UNCHANGED leaked
     \/ Top.n \in exists /\ leaked' = leaked \cup {Top.n} /\ UNCHANGED exists
  /\ UNCHANGED <<files, max, info>>

DoesOpen ==
  /\ Top.k = "open"
  /\ \/ \E i \in Infos :
          /\ info[i] = NoInfo /\ NewMax <= MaxFds
          /\ info' = [info EXCEPT ![i] = NewInfo(Top.n)]
          /\ files' = [files EXCEPT ![Slot] = i]
          /\ max' = NewMax
          /\ exists' = exists \cup {Top.n}
          /\ UNCHANGED leaked
     \/ OpenFails
  /\ Return
  /\ UNCHANGED <<given, foreign, misused>>

Found(fd) == IF fd \in 0 .. max - 1 THEN files[fd] ELSE Free

\* Variant for checking: close keeps the lock unlink left with the descriptor.
DoesCloseKeepingLock ==
  /\ Top.k = "close"
  /\ LET i == Found(Top.fd) IN
       IF i = Free THEN UNCHANGED <<files, info, misused>>
       ELSE /\ Misuse("info", info[i] = NoInfo)
            /\ files' = [files EXCEPT ![Top.fd] = Free]
            /\ info' = [info EXCEPT ![i] = IF @.lock THEN [@ EXCEPT !.fh = FALSE] ELSE NoInfo]
  /\ Return
  /\ UNCHANGED <<max, dos>>

\* close: file_close gives the lock and, unless it is a handle of someone else,
\* the handle back, frees the structure and then the slot.
DoesClose ==
  /\ Top.k = "close"
  /\ LET i == Found(Top.fd) IN
       IF i = Free THEN UNCHANGED <<files, info, misused>>
       ELSE /\ Misuse("info", info[i] = NoInfo)
            /\ files' = [files EXCEPT ![Top.fd] = Free]
            /\ info' = [info EXCEPT ![i] = NoInfo]
  /\ Return
  /\ UNCHANGED <<max, dos>>

\* _pseudo_close, as exec uses it: the handle stays open for the child.
DoesGive ==
  /\ Top.k = "give"
  /\ LET i == Found(Top.fd) IN
       IF i = Free THEN UNCHANGED <<files, info, given, misused>>
       ELSE /\ Misuse("info", info[i] = NoInfo)
            /\ files' = [files EXCEPT ![Top.fd] = Free]
            /\ given' = IF info[i].fh THEN given \cup ({info[i].name} \cap Names) ELSE given
            /\ info' = [info EXCEPT ![i] = NoInfo]
  /\ Return
  /\ UNCHANGED <<max, exists, leaked, foreign>>

\* read, lseek and plain writes: end-of-file on a deleted file, else the handle.
DoesRead ==
  /\ Top.k = "read"
  /\ LET i == Found(Top.fd) IN
       IF i = Free THEN UNCHANGED misused
       ELSE Misuse("handle", info[i] = NoInfo \/ ~(info[i].deleted \/ info[i].fh))
  /\ Return
  /\ UNCHANGED <<files, max, info, dos>>

\* write on an interactive file, which goes line by line.
DoesWrite ==
  /\ Top.k = "write"
  /\ LET i == Found(Top.fd) IN
       IF i = Free \/ (i # Free /\ info[i].deleted) THEN Return ELSE Becomes(Lines(i))
  /\ UNCHANGED <<files, max, info, dos, misused>>

\* Variant for checking: the write goes on after a handler has run.
WritesLineOn ==
  /\ Top.k = "lines"
  /\ LET i == Top.info IN Misuse("handle", info[i] = NoInfo \/ ~info[i].fh)
  /\ Return \/ Polls(Top)
  /\ UNCHANGED <<files, max, info, dos>>

\* One line, and a poll; the write ends when that poll handled a signal.
WritesLine ==
  /\ Top.k = "lines"
  /\ LET i == Top.info IN Misuse("handle", info[i] = NoInfo \/ ~info[i].fh)
  /\ Polls(User) \/ UNCHANGED <<call, depth>>
  /\ UNCHANGED <<files, max, info, dos>>

----------------------------------------------------------------------------
(* unlink.                                                                 *)

CallUnlink ==
  /\ MayCall("unlink")
  /\ \E n \in Names : Polls(Unlink(n, -1, "none", "delete"))
  /\ UNCHANGED <<files, max, info, dos, misused>>

\* DeleteFile, after SetProtection if need be; a file in use is looked for in
\* the table, with a lock on it.
UnlinkDeletes ==
  /\ Top.k = "unlink" /\ Top.pc = "delete"
  /\ LET n == Top.n IN
       \/ n \notin exists /\ Return /\ UNCHANGED exists
       \/ /\ n \in exists /\ ~InUse(n)
          /\ exists' = exists \ {n} /\ Return
       \/ /\ n \in exists /\ InUse(n)
          /\ Return \/ Polls(Unlink(n, max - 1, "held", "ask"))   \* Lock may fail
          /\ UNCHANGED exists
  /\ UNCHANGED <<files, max, info, others, misused>>

\* ioctl(at, _AMIGA_DELETE_IF_ME): any descriptor of a file comes to keep a
\* lock on it, if DupLockFromFH works.  On a match, if NameFromFH works, both
\* locks are freed and the handle is closed.  A loop that goes on with a freed
\* lock may match any file: SameLock may say anything of it.
MoreOffByOne(at) == at >= -1      \* variant for checking
More(at) == at >= 0
\* Variant for checking: the handle is left open.
UnlinkedLeavingHandle(i) == [info[i] EXCEPT !.lock = FALSE, !.deleted = TRUE]
Unlinked(i) == [info[i] EXCEPT !.fh = FALSE, !.lock = FALSE, !.deleted = TRUE]
AsksNext ==
  LET c == [Top EXCEPT !.at = @ - 1, !.pc = "ask"] IN IF More(c.at) THEN Polls(c) ELSE Becomes(c)

UnlinkAsks ==
  /\ Top.k = "unlink" /\ Top.pc = "ask" /\ More(Top.at)
  /\ LET i == Found(Top.at)
         freed == Top.nlock = "freed"
     IN
       \/ /\ i = Free \/ (i # Free /\ (info[i].deleted \/ ~info[i].lock))
          /\ AsksNext
          /\ UNCHANGED <<info, misused>>
       \/ /\ i # Free /\ ~info[i].deleted
          /\ info' = [info EXCEPT ![i].lock = info[i].name \in Names]
          /\ Misuse("lock", freed)
          /\ AsksNext
       \/ /\ i # Free /\ ~info[i].deleted
          /\ info[i].name \in Names /\ (info[i].name = Top.n \/ freed)
          /\ info' = [info EXCEPT ![i] = Unlinked(i)]
          /\ Misuse("lock", freed)
          /\ Becomes([Top EXCEPT !.nlock = "freed", !.pc = "closed"])
  /\ UNCHANGED <<files, max, dos>>

\* DeleteFile of the file whose descriptor was just closed; who else saw its
\* descriptor closed before has lost the file now.  When DeleteFile does not
\* work the loop goes on, with the freed lock.
Removed(n) == [j \in Infos |->
  [info[j] EXCEPT !.removed = @ \/ (info[j].name = n /\ info[j].deleted)]]

UnlinkTries ==
  /\ Top.k = "unlink" /\ Top.pc = "closed"
  /\ LET n == info[Found(Top.at)].name IN
       \/ /\ InUse(n)
          /\ AsksNext
          /\ UNCHANGED <<info, exists>>
       \/ /\ ~InUse(n)
          /\ info' = Removed(n) /\ exists' = exists \ {n}
          /\ Return
  /\ UNCHANGED <<files, max, others, misused>>

\* The loop found nothing it could delete: UnLock(nlock), and unlink fails.
UnlinkGivesUp ==
  /\ Top.k = "unlink" /\ Top.pc = "ask" /\ ~More(Top.at)
  /\ Misuse("lock", Top.nlock = "freed")
  /\ Return
  /\ UNCHANGED <<files, max, info, dos>>

HandlerReturns ==
  /\ depth = 2 /\ Top = User
  /\ depth' = 1
  /\ UNCHANGED <<files, max, info, dos, misused, call>>

----------------------------------------------------------------------------
(* Other tasks.                                                            *)

own == <<files, max, info, exists, leaked, misused, depth, call>>

\* The child has ended with its handle.
ChildCloses ==
  /\ \E n \in given : given' = given \ {n}
  /\ UNCHANGED <<own, foreign>>

\* Any other task locks or opens a file, and gives it back.
OtherTakes ==
  /\ \E n \in exists \ foreign : foreign' = foreign \cup {n}
  /\ UNCHANGED <<own, given>>

OtherLeaves ==
  /\ \E n \in foreign : foreign' = foreign \ {n}
  /\ UNCHANGED <<own, given>>

----------------------------------------------------------------------------
\* File n has two users at a time: a descriptor, and another one, a child, a
\* forgotten lock or another task; two calls of unlink that hold locks on it;
\* or unlink about to delete it, and another task that came just before.
AboutToDelete(n) ==
  Top.k = "unlink" /\ Top.pc = "closed" /\ info[Found(Top.at)].name = n

Contended(n) ==
  \/ \E i \in Infos : OwnUse(i, n) /\ (OthersUse(n) \/ \E j \in Infos \ {i} : OwnUse(j, n))
  \/ \A d \in 1 .. 2 : NlockHeld(d, n)
  \/ AboutToDelete(n) /\ n \in foreign

TwoUsers == {n \in Names : Contended(n)}

Steps ==
  \/ CallOpen \/ DoesOpen \/ DoesClose \/ DoesGive \/ DoesRead \/ DoesWrite \/ WritesLine
  \/ (\E op \in {"read", "write", "close", "give"} : Start(op))
  \/ CallUnlink \/ UnlinkDeletes \/ UnlinkAsks \/ UnlinkTries \/ UnlinkGivesUp
  \/ HandlerReturns \/ ChildCloses \/ OtherTakes \/ OtherLeaves

Next == Steps /\ contended' = contended \cup TwoUsers'

Spec == Init /\ [][Next]_vars

----------------------------------------------------------------------------
(* Properties.                                                             *)

\* Every descriptor has driver state of its own, and no driver state is
\* without a descriptor: nothing dangles and nothing leaks, whatever handlers
\* did inside a call.
OneOwner ==
  /\ \A fd \in Slots : files[fd] # Free =>
       /\ fd < max /\ info[files[fd]] # NoInfo
       /\ \A g \in Slots \ {fd} : files[g] # files[fd]
  /\ \A i \in Infos : info[i] # NoInfo => \E fd \in Slots : files[fd] = i

\* No handle and no structure is used, or given back, after its end, and no
\* lock either in a program whose files have one user at a time: a descriptor,
\* or a child, or another task.
NothingMisused == misused \subseteq {"lock"} /\ (contended = {} => misused = {})

\* unix.doc: after unlink of an open file "the AmigaDOS file is closed &
\* deleted".  So once unlink is over, a descriptor that answers end-of-file has
\* lost its file for good, and every other one still has its handle; a file is
\* left behind only if it had two users at a time, or if unlink went on with a
\* lock it had freed.
DeletedMeansGone ==
  (\A d \in 1 .. 2 : call[d].k # "unlink") =>
    \A i \in Infos : info[i] # NoInfo =>
      /\ info[i].deleted => \/ info[i].removed
                            \/ info[i].name \in contended \/ "lock" \in misused
      /\ info[i].deleted <=> ~info[i].fh
============================================================================
