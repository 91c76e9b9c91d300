------------------------- MODULE DescriptorsProofs -------------------------
(***************************************************************************)
(* Proofs about Descriptors, for any number of slots, structures and file  *)
(* names.  Structural is about the table and its structures.  Promise adds *)
(* what unlink does to a file: it goes wrong only when two users of a file *)
(* meet.                                                                   *)
(***************************************************************************)
EXTENDS Descriptors, Numbers, TLAPS

\* A structure in use has a name and, unless its file is deleted, an open
\* handle on a file that exists; a lock goes with the handle.
InfoOK(i) ==
  info[i] # NoInfo =>
    /\ info[i].name # Free
    /\ info[i].deleted <=> ~info[i].fh
    /\ info[i].lock => info[i].fh
    /\ info[i].fh /\ info[i].name \in Names => info[i].name \in exists

\* A line-wise write runs to its end or to a handler, so its handle is open.
LinesOK ==
  /\ Top.k = "lines" => info[Top.info] # NoInfo /\ info[Top.info].fh
  /\ \A d \in 1 .. 2 : d < depth => call[d].k # "lines"

Structural ==
  /\ TypeOK /\ OneOwner /\ LinesOK
  /\ \A i \in Infos : InfoOK(i)
  /\ misused \subseteq {"lock"}

\* An unlink that asks descriptors has taken its lock, and goes on with a freed
\* one only after two users of a file met; no handler runs inside a deletion.
FrameOK(d) ==
  call[d].k = "unlink" =>
    /\ call[d].pc = "ask" =>
         call[d].nlock # "none" /\ (call[d].nlock = "freed" => contended # {})
    /\ call[d].pc = "closed" => d = depth /\ call[d].nlock = "freed"

\* Descriptor i was closed by the unlink that is about to delete its file.
Closing(i) == Top.k = "unlink" /\ Top.pc = "closed" /\ Found(Top.at) = i

\* Whose descriptor it was had the file alone, if nothing went wrong before.
ClosingOK(i) ==
  Closing(i) =>
    /\ i # Free /\ info[i].deleted /\ info[i].name \in Names
    /\ \/ info[i].name \in contended \/ misused # {}
       \/ /\ info[i].name \notin given \cup leaked
          /\ \A j \in Infos : ~OwnUse(j, info[i].name)
          /\ \A d \in 1 .. 2 : ~NlockHeld(d, info[i].name)

LostOK(i) ==
  info[i].deleted =>
    info[i].removed \/ info[i].name \in contended \/ misused # {} \/ Closing(i)

Promise ==
  /\ Structural
  /\ TwoUsers \subseteq contended
  /\ \A d \in 1 .. 2 : FrameOK(d)
  /\ ClosingOK(Found(Top.at))
  /\ \A i \in Infos : LostOK(i)
  /\ misused # {} => contended # {}

----------------------------------------------------------------------------
(* Slots, structures and frames.                                           *)

LEMMA NewInfoOK ==
  ASSUME NEW n \in Names \cup {Console}
  PROVE  /\ NewInfo(n) \in InfoRecords /\ NewInfo(n) # NoInfo
         /\ NewInfo(n).name = n /\ NewInfo(n).fh /\ ~NewInfo(n).lock
         /\ ~NewInfo(n).deleted /\ ~NewInfo(n).removed
BY DEF NewInfo, NoInfo, InfoRecords

LEMMA NoInfoOK ==
  /\ NoInfo \in InfoRecords /\ NoInfo.name = Free /\ ~NoInfo.fh /\ ~NoInfo.lock
  /\ ~NoInfo.deleted /\ ~NoInfo.removed
BY DEF NoInfo, InfoRecords

LEMMA DescriptorsTypes ==
  FILE_STEP \in Nat \ {0} /\ MaxFds \in Nat /\ FILE_STEP <= MaxFds /\ Slots \subseteq Nat
BY DescriptorsAssumption DEF Slots

\* _alloc_fd finds a free slot, or makes the table larger.
LEMMA SlotIsFree ==
  ASSUME TypeOK, OneOwner, NewMax <= MaxFds
  PROVE  /\ Slot \in Slots /\ Slot < NewMax /\ files[Slot] = Free
         /\ NewMax \in 0 .. MaxFds /\ max <= NewMax
<1> USE DescriptorsTypes
<1>1. max \in 0 .. MaxFds /\ max \in Nat
  BY DEF TypeOK
<1>2. CASE FreeSlots = {}
  <2>1. NewMax = max + FILE_STEP /\ Slot = max
    BY <1>2 DEF NewMax, Slot
  <2>2. Slot \in Slots /\ Slot < NewMax /\ NewMax \in 0 .. MaxFds /\ max <= NewMax
    BY <1>1, <2>1 DEF Slots
  <2>3. files[max] = Free
    BY <1>1, <2>1, <2>2 DEF OneOwner
  <2> QED
    BY <2>1, <2>2, <2>3
<1>3. CASE FreeSlots # {}
  <2>1. NewMax = max
    BY <1>3 DEF NewMax
  <2>2. FreeSlots \in SUBSET Nat
    BY <1>1 DEF FreeSlots
  <2>3. Slot \in FreeSlots
    BY <1>3, <2>2, Minimum DEF Slot
  <2> QED
    BY <1>1, <2>1, <2>3 DEF FreeSlots, Slots
<1> QED
  BY <1>2, <1>3

LEMMA FoundOK ==
  ASSUME Structural, NEW fd, Found(fd) # Free
  PROVE  /\ fd \in Slots /\ files[fd] = Found(fd) /\ Found(fd) \in Infos
         /\ info[Found(fd)] # NoInfo /\ InfoOK(Found(fd))
<1>1. fd \in 0 .. max - 1 /\ max \in 0 .. MaxFds
  BY DEF Found, Structural, TypeOK
<1>2. fd \in Slots /\ files[fd] = Found(fd)
  BY <1>1, DescriptorsTypes DEF Found, Slots
<1> QED
  BY <1>2 DEF Structural, TypeOK, OneOwner

LEMMA UserFrame == User \in Frames /\ User.k = "user"
BY DEF User, Frames

\* A call that goes on as c, with or without a handler on top of it.
LEMMA MoveKeeps ==
  ASSUME TypeOK, LinesOK, NEW c \in Frames, c.k # "lines", Becomes(c) \/ Polls(c)
  PROVE  /\ depth' \in 1 .. 2 /\ call' \in [1 .. 2 -> Frames] /\ LinesOK'
         /\ call'[1] \in {call[1], c} /\ call'[2] \in {call[2], c, User}
         /\ depth = 1 => call'[2] \in {call[2], User}
         /\ depth = 2 => call'[1] = call[1]
<1>1. depth \in 1 .. 2 /\ User \in Frames /\ User.k # "lines"
  BY UserFrame DEF TypeOK
<1>2. CASE Becomes(c)
  BY <1>1, <1>2 DEF Becomes, TypeOK, LinesOK, Top
<1>3. CASE /\ depth = 1 /\ depth' = 2
           /\ call' = [call EXCEPT ![1] = c, ![2] = User]
  BY <1>1, <1>3 DEF TypeOK, LinesOK, Top
<1> QED
  BY <1>2, <1>3 DEF Polls

LEMMA TopFrame ==
  ASSUME TypeOK
  PROVE  /\ Top \in Frames /\ depth \in {1, 2}
         /\ Top.k \in {"read", "write", "close", "give"} => Top.fd \in Slots
         /\ Top.k = "open" => Top.n \in Names
         /\ Top.k = "lines" => Top.info \in Infos
         /\ Top.k = "unlink" => /\ Top.n \in Names /\ Top.at \in -1 .. MaxFds - 1
                                /\ Top.nlock \in {"none", "held", "freed"}
                                /\ Top.pc \in {"delete", "ask", "closed"}
                                /\ Top.pc = "closed" => Top.at >= 0 /\ Top.nlock = "freed"
<1>1. Top \in Frames /\ depth \in {1, 2}
  BY DEF TypeOK, Top
<1> QED
  BY <1>1, DescriptorsTypes DEF Frames, User, Slots

LEMMA UnlinkFrame ==
  ASSUME NEW n \in Names, NEW at \in -1 .. MaxFds - 1,
         NEW nlock \in {"none", "held", "freed"}, NEW pc \in {"delete", "ask"}
  PROVE  /\ Unlink(n, at, nlock, pc) \in Frames /\ Unlink(n, at, nlock, pc).k = "unlink"
         /\ Unlink(n, at, nlock, pc).nlock = nlock /\ Unlink(n, at, nlock, pc).pc = pc
BY DEF Unlink, Frames

\* The descriptors keep their owners when no structure is taken or freed.
LEMMA SameOwners ==
  ASSUME OneOwner, UNCHANGED <<files, max>>,
         \A i \in Infos : info'[i] = NoInfo <=> info[i] = NoInfo,
         \A fd \in Slots : files[fd] # Free => files[fd] \in Infos
  PROVE  OneOwner'
BY DEF OneOwner

\* Moves that leave the table and the files alone.
LEMMA QuietMove ==
  ASSUME Structural, NEW c \in Frames, c.k # "lines", Becomes(c) \/ Polls(c),
         UNCHANGED <<files, max, info, dos>>, misused' \subseteq {"lock"},
         contended' \subseteq Names
  PROVE  Structural'
<1>1. depth' \in 1 .. 2 /\ call' \in [1 .. 2 -> Frames] /\ LinesOK'
  BY MoveKeeps DEF Structural
<1> QED
  BY <1>1 DEF Structural, TypeOK, OneOwner, InfoOK, dos, others

----------------------------------------------------------------------------
(* Structural, action by action.                                           *)

LEMMA StructuralInit == Init => Structural
<1> SUFFICES ASSUME Init PROVE Structural
  OBVIOUS
<1> USE DescriptorsTypes, DescriptorsAssumption
<1>1. PICK i \in Infos :
        /\ files = [fd \in Slots |-> IF fd = 0 THEN i ELSE Free]
        /\ info = [j \in Infos |-> IF j = i THEN NewInfo(Console) ELSE NoInfo]
  BY DEF Init
<1>2. 0 \in Slots /\ files[0] = i
  BY <1>1 DEF Slots
<1>3. TypeOK
  BY <1>1, NewInfoOK, NoInfoOK, UserFrame DEF Init, TypeOK
<1>4. OneOwner
  BY <1>1, <1>2, NewInfoOK DEF Init, OneOwner
<1>5. \A j \in Infos : InfoOK(j)
  BY <1>1, NewInfoOK DEF InfoOK, Free, Console
<1>6. LinesOK
  BY UserFrame DEF Init, LinesOK, Top
<1> QED
  BY <1>3, <1>4, <1>5, <1>6 DEF Structural, Init

LEMMA OpenKeeps == ASSUME Structural, contended' \subseteq Names, DoesOpen PROVE Structural'
<1> USE DEF Structural
<1>1. Becomes(User) /\ Top.n \in Names
  BY TopFrame DEF DoesOpen, Return
<1>2. CASE OpenFails
  <2>1. depth' \in 1 .. 2 /\ call' \in [1 .. 2 -> Frames] /\ LinesOK'
    BY <1>1, MoveKeeps, UserFrame
  <2>2. exists' \subseteq Names /\ exists \subseteq exists' /\ leaked' \subseteq exists'
    BY <1>1, <1>2 DEF OpenFails, TypeOK
  <2>3. TypeOK'
    BY <1>2, <2>1, <2>2 DEF DoesOpen, OpenFails, TypeOK
  <2> QED
    BY <1>2, <2>1, <2>2, <2>3 DEF DoesOpen, OpenFails, OneOwner, InfoOK
<1>3. ASSUME NEW i \in Infos, info[i] = NoInfo, NewMax <= MaxFds,
             info' = [info EXCEPT ![i] = NewInfo(Top.n)],
             files' = [files EXCEPT ![Slot] = i],
             max' = NewMax, exists' = exists \cup {Top.n}, UNCHANGED leaked
      PROVE  Structural'
  <2>1. /\ Slot \in Slots /\ Slot < NewMax /\ files[Slot] = Free
        /\ NewMax \in 0 .. MaxFds /\ max <= NewMax
    BY <1>3, SlotIsFree
  <2>2. /\ NewInfo(Top.n) \in InfoRecords /\ NewInfo(Top.n) # NoInfo
        /\ NewInfo(Top.n).name = Top.n /\ NewInfo(Top.n).fh /\ ~NewInfo(Top.n).lock
        /\ ~NewInfo(Top.n).deleted
    BY <1>1, NewInfoOK
  <2>3. depth' \in 1 .. 2 /\ call' \in [1 .. 2 -> Frames] /\ LinesOK'
    BY <1>1, MoveKeeps, UserFrame
  <2>4. TypeOK'
    BY <1>1, <1>3, <2>1, <2>2, <2>3 DEF DoesOpen, TypeOK
  <2>5. \A fd \in Slots : files[fd] # Free => files[fd] # i
    BY <1>3 DEF OneOwner
  <2>6. /\ \A fd \in Slots : files'[fd] = IF fd = Slot THEN i ELSE files[fd]
        /\ \A j \in Infos : info'[j] = IF j = i THEN NewInfo(Top.n) ELSE info[j]
    BY <1>3 DEF TypeOK
  <2>7. \A fd \in Slots : files[fd] # Free => fd < max'
    <3>1. max \in Nat /\ NewMax \in Nat
      BY <2>1, DescriptorsTypes DEF TypeOK
    <3> QED
      BY <1>3, <2>1, <3>1, DescriptorsTypes DEF OneOwner
  <2>8. OneOwner'
    <3>1. ASSUME NEW fd \in Slots, files'[fd] # Free
          PROVE  /\ fd < max' /\ info'[files'[fd]] # NoInfo
                 /\ \A g \in Slots \ {fd} : files'[g] # files'[fd]
      BY <1>3, <2>1, <2>2, <2>5, <2>6, <2>7, <3>1, DescriptorsAssumption DEF OneOwner, TypeOK
    <3>2. ASSUME NEW j \in Infos, info'[j] # NoInfo
          PROVE  \E fd \in Slots : files'[fd] = j
      BY <1>3, <2>1, <2>6, <3>2, DescriptorsAssumption DEF OneOwner
    <3> QED
      BY <3>1, <3>2 DEF OneOwner
  <2>9. \A j \in Infos : InfoOK(j)'
    BY <1>1, <1>3, <2>2, <2>6, DescriptorsAssumption DEF InfoOK
  <2> QED
    BY <2>3, <2>4, <2>8, <2>9 DEF DoesOpen
<1> QED
  BY <1>2, <1>3 DEF DoesOpen

\* A slot is emptied and its structure freed.
LEMMA FreesKeeps ==
  ASSUME Structural, contended' \subseteq Names, NEW fd, Found(fd) # Free, Becomes(User),
         files' = [files EXCEPT ![fd] = Free],
         info' = [info EXCEPT ![Found(fd)] = NoInfo],
         UNCHANGED <<max, exists, leaked, foreign>>, given' \subseteq exists,
         Misuse("info", info[Found(fd)] = NoInfo)
  PROVE  Structural'
<1> USE DEF Structural
<1> DEFINE i == Found(fd)
<1>1. fd \in Slots /\ files[fd] = i /\ i \in Infos /\ info[i] # NoInfo
  BY FoundOK
<1>2. depth' \in 1 .. 2 /\ call' \in [1 .. 2 -> Frames] /\ LinesOK'
  BY MoveKeeps, UserFrame
<1>3. TypeOK' /\ misused' = misused
  BY <1>1, <1>2, NoInfoOK DEF TypeOK, Misuse
<1>4. /\ \A g \in Slots : files'[g] = IF g = fd THEN Free ELSE files[g]
      /\ \A j \in Infos : info'[j] = IF j = i THEN NoInfo ELSE info[j]
  BY DEF TypeOK
<1>5. OneOwner'
  <2>1. ASSUME NEW g \in Slots, files'[g] # Free
        PROVE  /\ g < max' /\ info'[files'[g]] # NoInfo
               /\ \A h \in Slots \ {g} : files'[h] # files'[g]
    BY <1>1, <1>4, <2>1 DEF OneOwner, TypeOK
  <2>2. ASSUME NEW j \in Infos, info'[j] # NoInfo
        PROVE  \E g \in Slots : files'[g] = j
    <3>1. j # i /\ info[j] # NoInfo
      BY <1>4, <2>2
    <3>2. PICK g \in Slots : files[g] = j
      BY <3>1 DEF OneOwner
    <3> QED
      BY <1>1, <1>4, <3>1, <3>2
  <2> QED
    BY <2>1, <2>2 DEF OneOwner
<1>6. \A j \in Infos : InfoOK(j)'
  BY <1>4 DEF InfoOK
<1> QED
  BY <1>2, <1>3, <1>5, <1>6

LEMMA CloseKeeps ==
  ASSUME Structural, contended' \subseteq Names, DoesClose \/ DoesGive PROVE Structural'
<1> USE DEF Structural
<1> DEFINE i == Found(Top.fd)
<1>1. Becomes(User)
  BY DEF DoesClose, DoesGive, Return
<1>2. CASE i = Free
  BY <1>1, <1>2, QuietMove, UserFrame DEF DoesClose, DoesGive, dos, others
<1>3. CASE i # Free /\ DoesClose
  BY <1>1, <1>3, FreesKeeps DEF DoesClose, dos, others, TypeOK
<1>4. CASE i # Free /\ DoesGive
  <2>1. i \in Infos /\ info[i] # NoInfo /\ InfoOK(i)
    BY <1>4, FoundOK
  <2>2. given' \subseteq exists
    BY <1>4, <2>1 DEF DoesGive, InfoOK, TypeOK
  <2> QED
    BY <1>1, <1>4, <2>2, FreesKeeps DEF DoesGive
<1> QED
  BY <1>2, <1>3, <1>4

\* read, and the lines of write: the handle is never used after its end.
LEMMA ReadWriteKeeps ==
  ASSUME Structural, contended' \subseteq Names, DoesRead \/ DoesWrite \/ WritesLine
  PROVE  Structural' /\ misused' = misused
<1> USE DEF Structural
<1> DEFINE i == Found(Top.fd)
<1>1. CASE DoesRead
  <2>1. misused' = misused
    BY <1>1, FoundOK DEF DoesRead, Misuse, InfoOK
  <2> QED
    BY <1>1, <2>1, QuietMove, UserFrame DEF DoesRead, Return
<1>2. CASE DoesWrite /\ Return
  BY <1>2, QuietMove, UserFrame DEF DoesWrite, Return
<1>3. CASE DoesWrite /\ i # Free /\ ~info[i].deleted /\ Becomes(Lines(i))
  <2>1. i \in Infos /\ info[i] # NoInfo /\ info[i].fh
    BY <1>3, FoundOK DEF InfoOK, TypeOK, InfoRecords
  <2>2. Lines(i) \in Frames /\ Lines(i).k = "lines" /\ Lines(i).info = i
    BY <2>1 DEF Lines, Frames
  <2>3. /\ depth' = depth /\ depth \in 1 .. 2 /\ call' \in [1 .. 2 -> Frames]
        /\ Top' = Lines(i) /\ \A d \in 1 .. 2 : d # depth => call'[d] = call[d]
    BY <1>3, <2>2 DEF Becomes, TypeOK, Top
  <2>4. LinesOK'
    BY <1>3, <2>1, <2>2, <2>3 DEF DoesWrite, LinesOK
  <2> QED
    BY <1>3, <2>3, <2>4 DEF DoesWrite, TypeOK, OneOwner, InfoOK, dos, others
<1>4. CASE WritesLine
  <2>1. misused' = misused
    BY <1>4 DEF WritesLine, Misuse, LinesOK
  <2>2. CASE Polls(User)
    BY <1>4, <2>1, <2>2, QuietMove, UserFrame DEF WritesLine
  <2>3. CASE UNCHANGED <<call, depth>>
    BY <1>4, <2>1, <2>3
    DEF WritesLine, TypeOK, OneOwner, InfoOK, LinesOK, Top, dos, others
  <2> QED
    BY <1>4, <2>2, <2>3 DEF WritesLine
<1> QED
  BY <1>1, <1>2, <1>3, <1>4 DEF DoesWrite

LEMMA CallsKeep ==
  ASSUME Structural, contended' \subseteq Names,
         \/ CallOpen \/ CallUnlink
         \/ \E op \in {"read", "write", "close", "give"} : Start(op)
  PROVE  Structural'
<1> USE DEF Structural
<1>1. CASE CallOpen
  <2>1. PICK n \in Names : Polls(Open(n))
    BY <1>1 DEF CallOpen
  <2>2. Open(n) \in Frames /\ Open(n).k = "open"
    BY DEF Open, Frames
  <2> QED
    BY <1>1, <2>1, <2>2, QuietMove DEF CallOpen
<1>2. CASE CallUnlink
  <2>1. PICK n \in Names : Polls(Unlink(n, -1, "none", "delete"))
    BY <1>2 DEF CallUnlink
  <2>2. -1 \in -1 .. MaxFds - 1
    BY DescriptorsTypes
  <2>3. /\ Unlink(n, -1, "none", "delete") \in Frames
        /\ Unlink(n, -1, "none", "delete").k = "unlink"
    BY <2>2, UnlinkFrame
  <2> QED
    BY <1>2, <2>1, <2>3, QuietMove DEF CallUnlink
<1>3. ASSUME NEW op \in {"read", "write", "close", "give"}, Start(op) PROVE Structural'
  <2>1. PICK fd \in Slots : Polls(On(op, fd))
    BY <1>3 DEF Start
  <2>2. On(op, fd) \in Frames /\ On(op, fd).k # "lines"
    BY DEF On, Frames
  <2> QED
    BY <1>3, <2>1, <2>2, QuietMove DEF Start
<1> QED
  BY <1>1, <1>2, <1>3

LEMMA UnlinkDeletesKeeps ==
  ASSUME Structural, contended' \subseteq Names, UnlinkDeletes \/ UnlinkGivesUp
  PROVE  Structural'
<1> USE DEF Structural
<1>1. Top.n \in Names /\ max - 1 \in -1 .. MaxFds - 1
  BY TopFrame, DescriptorsTypes DEF UnlinkDeletes, UnlinkGivesUp, TypeOK
<1>2. CASE UnlinkGivesUp
  BY <1>2, QuietMove, UserFrame DEF UnlinkGivesUp, Return, Misuse
<1>3. CASE UnlinkDeletes /\ exists' = exists
  <2>1. PICK c \in {User, Unlink(Top.n, max - 1, "held", "ask")} : Becomes(c) \/ Polls(c)
    BY <1>3 DEF UnlinkDeletes, Return
  <2>2. c \in Frames /\ c.k # "lines"
    BY <1>1, UserFrame, UnlinkFrame
  <2> QED
    BY <1>3, <2>1, <2>2, QuietMove DEF UnlinkDeletes, dos, others
<1>4. CASE UnlinkDeletes /\ exists' = exists \ {Top.n} /\ ~InUse(Top.n) /\ Return
  <2>1. depth' \in 1 .. 2 /\ call' \in [1 .. 2 -> Frames] /\ LinesOK'
    BY <1>4, MoveKeeps, UserFrame DEF Return
  <2>2. /\ Top.n \notin given \cup leaked \cup foreign
        /\ \A i \in Infos : info[i].name = Top.n => ~info[i].fh
    BY <1>4 DEF InUse, OthersUse, OwnUse
  <2>3. \A i \in Infos : InfoOK(i)'
    BY <1>4, <2>2 DEF UnlinkDeletes, InfoOK
  <2>4. TypeOK'
    BY <1>4, <2>1, <2>2 DEF UnlinkDeletes, TypeOK, others
  <2> QED
    BY <1>4, <2>1, <2>3, <2>4 DEF UnlinkDeletes, OneOwner
<1> QED
  BY <1>2, <1>3, <1>4 DEF UnlinkDeletes

\* What UnlinkAsks does to the structure of the descriptor it asks.
LEMMA AskedInfo ==
  ASSUME Structural, UnlinkAsks, Found(Top.at) # Free
  PROVE  LET i == Found(Top.at) IN
         /\ i \in Infos /\ info[i] # NoInfo /\ InfoOK(i) /\ info[i] \in InfoRecords
         /\ Unlinked(i) \in InfoRecords /\ Unlinked(i) # NoInfo
         /\ Unlinked(i).name = info[i].name /\ Unlinked(i).removed = info[i].removed
         /\ ~Unlinked(i).fh /\ ~Unlinked(i).lock /\ Unlinked(i).deleted
<1> DEFINE i == Found(Top.at)
<1>1. i \in Infos /\ info[i] # NoInfo /\ InfoOK(i) /\ info[i] \in InfoRecords
  BY FoundOK DEF Structural, TypeOK
<1>2. /\ Unlinked(i) \in InfoRecords
      /\ Unlinked(i).name = info[i].name /\ Unlinked(i).removed = info[i].removed
      /\ ~Unlinked(i).fh /\ ~Unlinked(i).lock /\ Unlinked(i).deleted
  BY <1>1 DEF Unlinked, InfoRecords
<1>3. Unlinked(i) # NoInfo
  BY <1>2, NoInfoOK
<1> QED
  BY <1>1, <1>2, <1>3

\* The loop of unlink goes on with the next lower descriptor.
LEMMA NextAsked ==
  ASSUME Structural, Top.k = "unlink", Top.pc = "ask" => More(Top.at), Top.pc # "delete",
         AsksNext
  PROVE  \E c \in Frames : /\ c.k = "unlink" /\ c.nlock = Top.nlock /\ c.pc = "ask"
                           /\ Becomes(c) \/ Polls(c)
<1>1. Top \in [k : {"unlink"}, n : Names, at : Slots,
                nlock : {"none", "held", "freed"}, pc : {"ask", "closed"}]
  <2>1. Top \in Frames /\ Top.at \in Slots /\ Top.pc \in {"ask", "closed"}
    BY TopFrame, DescriptorsTypes DEF Structural, More, Slots
  <2> QED
    BY <2>1 DEF Frames, User
<1> DEFINE c == [Top EXCEPT !.at = @ - 1, !.pc = "ask"]
<1>2. Top.at - 1 \in -1 .. MaxFds - 1
  BY <1>1, DescriptorsTypes DEF Slots
<1>3. c \in Frames /\ c.k = "unlink" /\ c.nlock = Top.nlock /\ c.pc = "ask"
  BY <1>1, <1>2 DEF Frames
<1>4. Becomes(c) \/ Polls(c)
  BY DEF AsksNext
<1> QED
  BY <1>3, <1>4

\* A descriptor of another file keeps a lock on its own file, no more.
LEMMA KeepsLock ==
  ASSUME Structural, NEW i \in Infos, info[i] # NoInfo, ~info[i].deleted, NEW lock \in BOOLEAN,
         info' = [info EXCEPT ![i].lock = lock]
  PROVE  /\ info' \in [Infos -> InfoRecords]
         /\ \A j \in Infos :
              /\ info'[j].name = info[j].name /\ info'[j].fh = info[j].fh
              /\ info'[j].deleted = info[j].deleted /\ info'[j].removed = info[j].removed
              /\ info'[j].lock = IF j = i THEN lock ELSE info[j].lock
              /\ info'[j] = NoInfo <=> info[j] = NoInfo
<1>1. info[i] \in InfoRecords /\ info[i].name # Free
  BY DEF Structural, TypeOK, InfoOK
<1>2. /\ info' = [info EXCEPT ![i] = [info[i] EXCEPT !.lock = lock]]
      /\ [info[i] EXCEPT !.lock = lock] \in InfoRecords
      /\ [info[i] EXCEPT !.lock = lock].name = info[i].name
      /\ [info[i] EXCEPT !.lock = lock].fh = info[i].fh
      /\ [info[i] EXCEPT !.lock = lock].deleted = info[i].deleted
      /\ [info[i] EXCEPT !.lock = lock].removed = info[i].removed
      /\ [info[i] EXCEPT !.lock = lock].lock = lock
  BY <1>1 DEF InfoRecords
<1>3. [info[i] EXCEPT !.lock = lock] # NoInfo
  BY <1>1, <1>2, NoInfoOK
<1> QED
  BY <1>2, <1>3 DEF Structural, TypeOK


\* What asking a descriptor can do, whatever frame c the call goes on as.
Passes(c) ==
  c.k = "unlink" /\ c.nlock = Top.nlock /\ c.pc = "ask" /\ UNCHANGED <<info, misused>>
Locks(i, c) ==
  /\ i # Free /\ ~info[i].deleted /\ c.k = "unlink" /\ c.nlock = Top.nlock /\ c.pc = "ask"
  /\ info' = [info EXCEPT ![i].lock = info[i].name \in Names]
  /\ Misuse("lock", Top.nlock = "freed")
Closes(i, c) ==
  /\ i # Free /\ ~info[i].deleted
  /\ info[i].name \in Names /\ (info[i].name = Top.n \/ Top.nlock = "freed")
  /\ c.k = "unlink" /\ c.nlock = "freed" /\ c.pc = "closed" /\ c.at = Top.at
  /\ Becomes(c)
  /\ info' = [info EXCEPT ![i] = Unlinked(i)]
  /\ Misuse("lock", Top.nlock = "freed")

LEMMA AskOutcomes ==
  ASSUME Structural, UnlinkAsks
  PROVE  \E c \in Frames :
           /\ Becomes(c) \/ Polls(c)
           /\ \/ Passes(c) \/ Locks(Found(Top.at), c) \/ Closes(Found(Top.at), c)
<1> DEFINE i == Found(Top.at)
<1>1. /\ Top.k = "unlink" /\ More(Top.at) /\ Top.pc = "ask"
      /\ Top \in [k : {"unlink"}, n : Names, at : -1 .. MaxFds - 1,
                  nlock : {"none", "held", "freed"}, pc : {"delete", "ask"}]
  BY TopFrame DEF UnlinkAsks, Structural, Frames, User
<1>2. ASSUME AsksNext
      PROVE  \E c \in Frames : /\ Becomes(c) \/ Polls(c)
                               /\ c.k = "unlink" /\ c.nlock = Top.nlock /\ c.pc = "ask"
  BY <1>1, <1>2, NextAsked
<1>3. CASE AsksNext /\ UNCHANGED <<info, misused>>
  BY <1>2, <1>3 DEF Passes
<1>4. CASE /\ i # Free /\ ~info[i].deleted /\ AsksNext
           /\ info' = [info EXCEPT ![i].lock = info[i].name \in Names]
           /\ Misuse("lock", Top.nlock = "freed")
  BY <1>2, <1>4 DEF Locks
<1>5. CASE /\ i # Free /\ ~info[i].deleted
           /\ info[i].name \in Names /\ (info[i].name = Top.n \/ Top.nlock = "freed")
           /\ info' = [info EXCEPT ![i] = Unlinked(i)]
           /\ Misuse("lock", Top.nlock = "freed")
           /\ Becomes([Top EXCEPT !.nlock = "freed", !.pc = "closed"])
  <2> DEFINE c == [Top EXCEPT !.nlock = "freed", !.pc = "closed"]
  <2>1. c \in Frames /\ c.k = "unlink" /\ c.nlock = "freed" /\ c.pc = "closed" /\ c.at = Top.at
    <3>1. Top.at \in Slots
      BY <1>1, DescriptorsTypes DEF More, Slots
    <3>2. /\ c \in [k : {"unlink"}, n : Names, at : Slots, nlock : {"freed"}, pc : {"closed"}]
          /\ c.at = Top.at
      BY <1>1, <3>1
    <3> QED
      BY <3>2 DEF Frames
  <2> HIDE DEF c
  <2>2. Becomes(c)
    BY <1>5 DEF c
  <2> QED
    BY <1>5, <2>1, <2>2 DEF Closes
<1> QED
  BY <1>3, <1>4, <1>5 DEF UnlinkAsks

LEMMA UnlinkAsksKeeps ==
  ASSUME Structural, contended' \subseteq Names, UnlinkAsks PROVE Structural'
<1> USE DEF Structural
<1> DEFINE i == Found(Top.at)
<1>1. PICK c \in Frames : /\ Becomes(c) \/ Polls(c)
                          /\ Passes(c) \/ Locks(i, c) \/ Closes(i, c)
  BY AskOutcomes
<1>2. UNCHANGED <<files, max, dos>>
  BY DEF UnlinkAsks
<1>3. c.k # "lines" /\ misused' \subseteq {"lock"}
  BY <1>1 DEF Passes, Locks, Closes, Misuse
<1>4. depth' \in 1 .. 2 /\ call' \in [1 .. 2 -> Frames] /\ LinesOK'
  BY <1>1, <1>3, MoveKeeps
<1>5. ASSUME NEW j \in Infos PROVE info[j] \in InfoRecords
  BY DEF TypeOK
<1>6. \A fd \in Slots : files[fd] # Free => files[fd] \in Infos
  BY DEF TypeOK
<1>7. CASE Passes(c)
  BY <1>1, <1>2, <1>3, <1>7, QuietMove DEF Passes
<1>8. CASE Locks(i, c)
  <2>1. i \in Infos /\ info[i] # NoInfo /\ InfoOK(i)
    BY <1>8, FoundOK DEF Locks
  <2>2. /\ info' \in [Infos -> InfoRecords]
        /\ \A j \in Infos :
              /\ info'[j].name = info[j].name /\ info'[j].fh = info[j].fh
              /\ info'[j].deleted = info[j].deleted
              /\ info'[j].lock = IF j = i THEN info[i].name \in Names ELSE info[j].lock
              /\ info'[j] = NoInfo <=> info[j] = NoInfo
    <3>1. (info[i].name \in Names) \in BOOLEAN
      OBVIOUS
    <3>2. ~info[i].deleted /\ info' = [info EXCEPT ![i].lock = info[i].name \in Names]
      BY <1>8 DEF Locks
    <3> HIDE DEF i, Structural
    <3>3. Structural
      OBVIOUS
    <3> QED
      BY <2>1, <3>1, <3>2, <3>3, KeepsLock, ZenonT(40)
  <2>3. OneOwner'
    BY <1>2, <1>6, <2>2, SameOwners
  <2>4. ASSUME NEW j \in Infos PROVE InfoOK(j)'
    <3>1. InfoOK(j) /\ exists' = exists /\ ~info[i].deleted
      BY <1>2, <1>8 DEF Locks, dos
    <3> QED
      BY <2>1, <2>2, <3>1 DEF InfoOK
  <2> QED
    BY <1>2, <1>3, <1>4, <2>2, <2>3, <2>4 DEF TypeOK, dos, others
<1>9. CASE Closes(i, c)
  <2>1. /\ i \in Infos /\ info[i] # NoInfo /\ Unlinked(i) \in InfoRecords
        /\ Unlinked(i) # NoInfo /\ Unlinked(i).name = info[i].name
        /\ ~Unlinked(i).fh /\ ~Unlinked(i).lock /\ Unlinked(i).deleted /\ InfoOK(i)
    BY <1>9, AskedInfo DEF Closes
  <2>2. /\ info' \in [Infos -> InfoRecords]
        /\ \A j \in Infos : info'[j] = IF j = i THEN Unlinked(i) ELSE info[j]
    BY <1>9, <2>1 DEF Closes, TypeOK
  <2>3. OneOwner'
    BY <1>2, <1>6, <2>1, <2>2, SameOwners
  <2>4. \A j \in Infos : InfoOK(j)'
    BY <1>2, <2>1, <2>2 DEF InfoOK, dos
  <2> QED
    BY <1>2, <1>3, <1>4, <2>2, <2>3, <2>4 DEF TypeOK, dos, others
<1> QED
  BY <1>1, <1>7, <1>8, <1>9

\* DeleteFile has worked: whose descriptor was closed before has lost the file.
LEMMA Removes ==
  ASSUME Structural, NEW n, info' = Removed(n)
  PROVE  /\ info' \in [Infos -> InfoRecords]
         /\ \A j \in Infos :
              /\ info'[j].name = info[j].name /\ info'[j].fh = info[j].fh
              /\ info'[j].deleted = info[j].deleted /\ info'[j].lock = info[j].lock
              /\ info[j].removed => info'[j].removed
              /\ info[j].name = n /\ info[j].deleted => info'[j].removed
              /\ info'[j] = NoInfo <=> info[j] = NoInfo
<1>1. ASSUME NEW j \in Infos
      PROVE  /\ info'[j] \in InfoRecords
             /\ info'[j].name = info[j].name /\ info'[j].fh = info[j].fh
             /\ info'[j].deleted = info[j].deleted /\ info'[j].lock = info[j].lock
             /\ info[j].removed => info'[j].removed
             /\ info[j].name = n /\ info[j].deleted => info'[j].removed
             /\ info'[j] = NoInfo <=> info[j] = NoInfo
  <2>1. info[j] \in InfoRecords
    BY DEF Structural, TypeOK
  <2> DEFINE removed == info[j].removed \/ (info[j].name = n /\ info[j].deleted)
  <2>2. removed \in BOOLEAN /\ (info[j].removed => removed)
        /\ (info[j].name = n /\ info[j].deleted => removed)
    BY <2>1 DEF InfoRecords
  <2>3. info'[j] = [info[j] EXCEPT !.removed = removed]
    BY DEF Removed
  <2>4. /\ info'[j] \in InfoRecords
        /\ info'[j].name = info[j].name /\ info'[j].fh = info[j].fh
        /\ info'[j].deleted = info[j].deleted /\ info'[j].lock = info[j].lock
        /\ info'[j].removed = removed
    <3> HIDE DEF removed
    <3> QED
      BY <2>1, <2>2, <2>3 DEF InfoRecords
  <2>5. info[j] = NoInfo => info'[j] = NoInfo
    <3>1. ASSUME info[j] = NoInfo PROVE removed = FALSE
      BY <3>1, NoInfoOK
    <3>2. ASSUME info[j] = NoInfo PROVE info'[j] = [NoInfo EXCEPT !.removed = FALSE]
      BY <2>3, <3>1, <3>2
    <3> QED
      BY <3>2 DEF NoInfo
  <2>6. info'[j] = NoInfo => info[j] = NoInfo
    <3>1. ASSUME info'[j] = NoInfo PROVE info[j].name = Free
      BY <2>4, <3>1, NoInfoOK
    <3> QED
      BY <3>1 DEF Structural, InfoOK
  <2> QED
    BY <2>2, <2>4, <2>5, <2>6
<1>2. info' \in [Infos -> InfoRecords]
  BY <1>1 DEF Removed
<1> QED
  BY <1>1, <1>2

\* What trying to delete the file does.
LEMMA TryOutcomes ==
  ASSUME Structural, UnlinkTries
  PROVE  \/ /\ InUse(info[Found(Top.at)].name) /\ UNCHANGED <<info, exists>>
            /\ \E c \in Frames : /\ Becomes(c) \/ Polls(c)
                                 /\ c.k = "unlink" /\ c.nlock = Top.nlock /\ c.pc = "ask"
         \/ /\ ~InUse(info[Found(Top.at)].name)
            /\ info' = Removed(info[Found(Top.at)].name)
            /\ exists' = exists \ {info[Found(Top.at)].name}
            /\ Becomes(User)
<1> DEFINE n == info[Found(Top.at)].name
<1>1. Top.k = "unlink" /\ Top.pc = "closed"
  BY DEF UnlinkTries
<1>2. CASE InUse(n) /\ AsksNext /\ UNCHANGED <<info, exists>>
  BY <1>1, <1>2, NextAsked
<1>3. CASE ~InUse(n) /\ info' = Removed(n) /\ exists' = exists \ {n} /\ Return
  BY <1>3 DEF Return
<1> QED
  BY <1>2, <1>3 DEF UnlinkTries

LEMMA UnlinkTriesKeeps ==
  ASSUME Structural, contended' \subseteq Names, UnlinkTries PROVE Structural'
<1> USE DEF Structural
<1>1. UNCHANGED <<files, max, others, misused>>
  BY DEF UnlinkTries
<1>2. CASE /\ UNCHANGED <<info, exists>>
           /\ \E c \in Frames : (Becomes(c) \/ Polls(c)) /\ c.k = "unlink"
  BY <1>1, <1>2, QuietMove DEF dos
<1>3. ASSUME NEW n, n = info[Found(Top.at)].name, ~InUse(n), info' = Removed(n),
             exists' = exists \ {n}, Becomes(User)
      PROVE  Structural'
  <2>1. depth' \in 1 .. 2 /\ call' \in [1 .. 2 -> Frames] /\ LinesOK'
    BY <1>3, MoveKeeps, UserFrame
  <2>2. /\ info' \in [Infos -> InfoRecords]
        /\ \A j \in Infos :
              /\ info'[j].name = info[j].name /\ info'[j].fh = info[j].fh
              /\ info'[j].deleted = info[j].deleted /\ info'[j].lock = info[j].lock
              /\ info'[j] = NoInfo <=> info[j] = NoInfo
    BY <1>3, Removes
  <2>3. n \notin given \cup leaked \cup foreign /\ \A j \in Infos : ~OwnUse(j, n)
    BY <1>3 DEF InUse, OthersUse
  <2>4. OneOwner'
    <3>1. \A fd \in Slots : files[fd] # Free => files[fd] \in Infos
      BY DEF TypeOK
    <3> QED
      BY <1>1, <2>2, <3>1, SameOwners
  <2>5. ASSUME NEW j \in Infos PROVE InfoOK(j)'
    BY <1>3, <2>2, <2>3 DEF InfoOK, OwnUse
  <2> QED
    BY <1>1, <1>3, <2>1, <2>2, <2>3, <2>4, <2>5 DEF TypeOK, others
<1> QED
  BY <1>2, <1>3, TryOutcomes

LEMMA StructuralStep == Structural /\ [Next]_vars => Structural'
<1> SUFFICES ASSUME Structural, [Next]_vars PROVE Structural'
  OBVIOUS
<1> USE DEF Structural
<1>1. contended' \subseteq Names
  <2>1. TwoUsers' \subseteq Names
    BY DEF TwoUsers
  <2> QED
    BY <2>1 DEF Next, vars, TypeOK
<1>2. CASE HandlerReturns
  <2>1. depth' \in 1 .. 2 /\ LinesOK'
    BY <1>2 DEF HandlerReturns, LinesOK, Top, TypeOK
  <2> QED
    BY <1>1, <1>2, <2>1 DEF HandlerReturns, TypeOK, OneOwner, InfoOK, dos, others
<1>3. CASE ChildCloses \/ OtherTakes \/ OtherLeaves
  <2>1. UNCHANGED own /\ given' \cup foreign' \subseteq exists
    BY <1>3 DEF ChildCloses, OtherTakes, OtherLeaves, TypeOK
  <2> QED
    BY <1>1, <2>1 DEF own, TypeOK, OneOwner, InfoOK, LinesOK, Top
<1>4. CASE UNCHANGED vars
  BY <1>4 DEF vars, TypeOK, OneOwner, InfoOK, LinesOK, Top
<1> QED
  BY <1>1, <1>2, <1>3, <1>4, OpenKeeps, CloseKeeps, ReadWriteKeeps, CallsKeep,
     UnlinkDeletesKeeps, UnlinkAsksKeeps, UnlinkTriesKeeps DEF Next, Steps

LEMMA StructuralAlways == Spec => []Structural
BY StructuralInit, StructuralStep, PTL DEF Spec

\* The state stays well-formed: in particular, a file whose handle a child has
\* is not deleted, whatever the program and its handlers do to it.
THEOREM TypeCorrect == Spec => []TypeOK
<1>1. Structural => TypeOK
  BY DEF Structural
<1> QED
  BY <1>1, StructuralAlways, PTL

\* Every descriptor has driver state of its own and no driver state is without
\* a descriptor, with any number of slots, through every growth of the table
\* and whatever handlers open, close, give away or unlink inside a call.
THEOREM OwnersSafe == Spec => []OneOwner
<1>1. Structural => OneOwner
  BY DEF Structural
<1> QED
  BY <1>1, StructuralAlways, PTL

\* No handle and no structure is used after its end, in any program: what a
\* program can be led to misuse is a freed lock.
THEOREM OnlyLocksMisused == Spec => [](misused \subseteq {"lock"})
<1>1. Structural => misused \subseteq {"lock"}
  BY DEF Structural
<1> QED
  BY <1>1, StructuralAlways, PTL

----------------------------------------------------------------------------
(* Promise: what unlink does to files of one user at a time.               *)

Growing == contended \subseteq contended' /\ TwoUsers' \subseteq contended'

\* A frame that an unlink may have while no descriptor is closed by it.
Calm(c) ==
  c.k = "unlink" =>
    /\ c.pc # "closed"
    /\ c.pc = "ask" => c.nlock # "none" /\ (c.nlock = "freed" => contended' # {})

LEMMA FramesKept ==
  ASSUME TypeOK, \A d \in 1 .. 2 : FrameOK(d), Growing,
         NEW c \in Frames, Calm(c), Becomes(c) \/ Polls(c)
  PROVE  (\A d \in 1 .. 2 : FrameOK(d)') /\ \A i : ~Closing(i)'
<1>1. depth \in 1 .. 2 /\ User.k = "user" /\ call \in [1 .. 2 -> Frames]
  BY UserFrame DEF TypeOK
<1>2. CASE Becomes(c)
  <2>1. depth' = depth /\ \A d \in 1 .. 2 : call'[d] = IF d = depth THEN c ELSE call[d]
    BY <1>1, <1>2 DEF Becomes
  <2> QED
    BY <1>1, <2>1 DEF FrameOK, Closing, Top, Calm, Growing
<1>3. CASE depth = 1 /\ depth' = 2 /\ call' = [call EXCEPT ![1] = c, ![2] = User]
  <2>1. call'[1] = c /\ call'[2] = User
    BY <1>1, <1>3
  <2> QED
    BY <1>1, <1>3, <2>1 DEF FrameOK, Closing, Top, Calm
<1> QED
  BY <1>2, <1>3 DEF Polls

\* A step after which no descriptor is just closed.
LEMMA PromiseKept ==
  ASSUME Promise, Structural', Growing, misused \subseteq misused',
         NEW c \in Frames, Calm(c), Becomes(c) \/ Polls(c),
         misused' # {} => contended' # {},
         \A i \in Infos : info'[i].deleted =>
           /\ info[i].deleted /\ info'[i].name = info[i].name
           /\ info[i].removed => info'[i].removed
           /\ Closing(i) =>
                info'[i].removed \/ info'[i].name \in contended' \/ misused' # {}
  PROVE  Promise'
<1>1. (\A d \in 1 .. 2 : FrameOK(d)') /\ \A i : ~Closing(i)'
  BY FramesKept DEF Promise, Structural
<1>2. ClosingOK(Found(Top.at))'
  BY <1>1 DEF ClosingOK
<1>3. ASSUME NEW i \in Infos PROVE LostOK(i)'
  BY DEF Promise, LostOK, Growing
<1> QED
  BY <1>1, <1>2, <1>3 DEF Promise, Growing

LEMMA NotClosing == ASSUME Top.k # "unlink" \/ Top.pc # "closed" PROVE \A i : ~Closing(i)
BY DEF Closing

\* Steps of other tasks, and those that change nothing here.
LEMMA PromiseOthers ==
  ASSUME Promise, Structural', Growing, UNCHANGED own, given' \subseteq given
  PROVE  Promise'
<1>1. Top' = Top /\ \A i : Closing(i)' = Closing(i) /\ Found(i)' = Found(i)
  BY DEF own, Top, Closing, Found
<1>2. \A d \in 1 .. 2 : FrameOK(d)'
  BY DEF Promise, FrameOK, Growing, own
<1>3. \A i \in Infos : LostOK(i)'
  BY <1>1 DEF Promise, LostOK, Growing, own
<1>4. ClosingOK(Found(Top.at))'
  BY <1>1 DEF Promise, ClosingOK, Growing, own, OwnUse, NlockHeld
<1> QED
  BY <1>2, <1>3, <1>4 DEF Promise, Growing, own

LEMMA PromiseInit == Init => Promise
<1> SUFFICES ASSUME Init PROVE Promise
  OBVIOUS
<1>1. PICK i \in Infos : info = [j \in Infos |-> IF j = i THEN NewInfo(Console) ELSE NoInfo]
  BY DEF Init
<1>2. \A j \in Infos : ~info[j].deleted /\ \A n \in Names : ~OwnUse(j, n)
  BY <1>1, NewInfoOK, NoInfoOK, DescriptorsAssumption DEF OwnUse
<1>3. \A d \in 1 .. 2 : call[d].k = "user"
  BY UserFrame DEF Init
<1>4. Top.k = "user"
  BY <1>3 DEF Init, Top
<1>5. \A n \in Names : ~Contended(n)
  BY <1>2, <1>3, <1>4 DEF Contended, NlockHeld, AboutToDelete
<1> QED
  BY <1>2, <1>3, <1>4, <1>5, StructuralInit
  DEF Init, Promise, FrameOK, ClosingOK, Closing, LostOK, TwoUsers

\* unlink closes the descriptor of a file.
LEMMA PromiseCloses ==
  ASSUME Promise, Structural', Growing, UnlinkAsks,
         NEW i, i = Found(Top.at), NEW c \in Frames, Closes(i, c)
  PROVE  Promise'
<1> PICK n : n = info[i].name
  OBVIOUS
<1>1. /\ TypeOK /\ depth \in {1, 2} /\ Top.k = "unlink" /\ Top.pc = "ask"
      /\ call \in [1 .. 2 -> Frames] /\ i # Free
  BY DEF Promise, Structural, TypeOK, UnlinkAsks, Closes
<1>2. /\ i \in Infos /\ info[i] # NoInfo /\ InfoOK(i) /\ info[i] \in InfoRecords
      /\ Unlinked(i).name = n /\ Unlinked(i).removed = info[i].removed
      /\ ~Unlinked(i).fh /\ ~Unlinked(i).lock /\ Unlinked(i).deleted
  BY <1>1, AskedInfo DEF Promise
<1>3. \A j \in Infos : info'[j] = IF j = i THEN Unlinked(i) ELSE info[j]
  BY <1>1, <1>2 DEF Closes, TypeOK
<1>4. depth' = depth /\ \A d \in 1 .. 2 : call'[d] = IF d = depth THEN c ELSE call[d]
  BY <1>1 DEF Closes, Becomes
<1>5. /\ c.k = "unlink" /\ c.nlock = "freed" /\ c.pc = "closed" /\ c.at = Top.at
      /\ Top' = c /\ UNCHANGED <<files, max, dos>>
      /\ n \in Names /\ ~info[i].deleted
  BY <1>1, <1>4 DEF Closes, Top, UnlinkAsks
<1>6. Found(Top.at)' = i
  BY <1>5 DEF Found
<1>7. FrameOK(depth) /\ (Top.nlock = "freed" => contended # {}) /\ Top.nlock # "none"
  BY <1>1 DEF Promise, FrameOK, Top
<1>8. misused' = (IF Top.nlock = "freed" THEN misused \cup {"lock"} ELSE misused)
  BY DEF Closes, Misuse
<1>9. \A d \in 1 .. 2 : FrameOK(d)'
  BY <1>1, <1>4, <1>5 DEF Promise, FrameOK, Growing
<1>10. misused' # {} => contended' # {}
  BY <1>7, <1>8 DEF Promise, Growing
<1>11. ASSUME NEW j \in Infos PROVE LostOK(j)'
  <2>1. CASE j = i
    BY <1>5, <1>6, <2>1 DEF LostOK, Closing
  <2>2. CASE j # i
    BY <1>1, <1>3, <1>8, <2>2 DEF Promise, LostOK, Growing, Closing
  <2> QED
    BY <2>1, <2>2
<1>12. ASSUME n \notin contended, misused' = {}
       PROVE  /\ n \notin given' \cup leaked'
              /\ \A j \in Infos : ~OwnUse(j, n)'
              /\ \A d \in 1 .. 2 : ~NlockHeld(d, n)'
  <2>1. ~Contended(n)
    BY <1>5, <1>12 DEF Promise, TwoUsers
  <2>2. OwnUse(i, n)
    BY <1>2, <1>5 DEF OwnUse, InfoOK, InfoRecords
  <2>3. ~OthersUse(n) /\ \A j \in Infos \ {i} : ~OwnUse(j, n)
    BY <1>2, <2>1, <2>2 DEF Contended
  <2>4. \A j \in Infos : ~OwnUse(j, n)'
    BY <1>2, <1>3, <2>3 DEF OwnUse
  <2>5. Top.nlock # "freed" /\ Top.nlock \in {"none", "held", "freed"}
    BY <1>1, <1>8, <1>12, TopFrame
  <2>6. NlockHeld(depth, n)
    BY <1>1, <1>7, <2>5 DEF NlockHeld, Closes, Top
  <2>7. \A d \in 1 .. 2 : ~NlockHeld(d, n)'
    <3>1. \A d \in 1 .. 2 : d # depth => ~NlockHeld(d, n)
      BY <1>1, <2>1, <2>6 DEF Contended
    <3> QED
      BY <1>1, <1>4, <1>5, <3>1 DEF NlockHeld
  <2> QED
    BY <1>5, <2>3, <2>4, <2>7 DEF OthersUse, dos, others
<1>13. ClosingOK(i)'
  <2>1. info'[i].name = n /\ info'[i].deleted
    BY <1>2, <1>3
  <2> QED
    BY <1>1, <1>5, <1>12, <2>1 DEF ClosingOK, Growing
<1> QED
  BY <1>6, <1>9, <1>10, <1>11, <1>13 DEF Promise, Growing

\* DeleteFile can only be refused where two users of the file met.
LEMMA PromiseTries == ASSUME Promise, Structural', Growing, UnlinkTries PROVE Promise'
<1> DEFINE i == Found(Top.at)
           n == info[i].name
<1>1. /\ Structural /\ Closing(i) /\ misused' = misused /\ Top.nlock = "freed"
  BY TopFrame DEF Promise, Structural, Closing, UnlinkTries
<1>2. i # Free /\ i \in Infos /\ info[i].deleted /\ n \in Names
  BY <1>1, FoundOK DEF Promise, ClosingOK
<1>3. \A j \in Infos : Closing(j) => j = i
  BY DEF Closing
<1>4. ASSUME InUse(n) PROVE contended # {} /\ (n \in contended \/ misused # {})
  <2>1. n \in foreign => Contended(n)
    BY <1>1 DEF Contended, AboutToDelete, Closing
  <2>2. n \in contended \/ misused # {}
    BY <1>1, <1>2, <1>4, <2>1 DEF Promise, ClosingOK, InUse, OthersUse, TwoUsers
  <2> QED
    BY <2>2 DEF Promise
<1>5. ASSUME InUse(n), UNCHANGED info, NEW c \in Frames, Becomes(c) \/ Polls(c),
             c.k = "unlink", c.nlock = Top.nlock, c.pc = "ask"
      PROVE  Promise'
  <2>1. Calm(c)
    BY <1>1, <1>4, <1>5 DEF Calm, Growing
  <2> HIDE DEF i
  <2> QED
    BY <1>1, <1>3, <1>4, <1>5, <2>1, PromiseKept DEF Promise, Growing
<1>6. ASSUME info' = Removed(n), Becomes(User) PROVE Promise'
  <2>1. \A j \in Infos :
          /\ info'[j].name = info[j].name /\ info'[j].deleted = info[j].deleted
          /\ info[j].removed => info'[j].removed
          /\ info[j].name = n /\ info[j].deleted => info'[j].removed
    BY <1>1, <1>6, Removes
  <2>2. Calm(User) /\ User \in Frames
    BY UserFrame DEF Calm
  <2> HIDE DEF i
  <2>3. \A j \in Infos : Closing(j) => info'[j].removed
    BY <1>2, <1>3, <2>1
  <2> QED
    BY <1>1, <1>6, <2>1, <2>2, <2>3, PromiseKept DEF Promise, Growing
<1> QED
  BY <1>1, <1>5, <1>6, TryOutcomes

LEMMA PromiseStep == Promise /\ [Next]_vars => Promise'
<1> SUFFICES ASSUME Promise, [Next]_vars PROVE Promise'
  OBVIOUS
<1>1. Structural' /\ Structural /\ TypeOK /\ Growing
  <2>1. CASE Next
    BY <2>1, StructuralStep DEF Next, Growing, Promise, Structural
  <2>2. CASE UNCHANGED vars
    <3>1. TwoUsers' = TwoUsers
      BY <2>2
      DEF vars, TwoUsers, Contended, OwnUse, OthersUse, NlockHeld, AboutToDelete, Top, Found
    <3> QED
      BY <2>2, <3>1, StructuralStep DEF vars, Growing, Promise, Structural
  <2> QED
    BY <2>1, <2>2
<1>2. Calm(User) /\ User \in Frames
  BY UserFrame DEF Calm
<1>3. ASSUME misused' = misused, \A i : ~Closing(i), NEW c \in Frames, Calm(c),
             Becomes(c) \/ Polls(c),
             \A i \in Infos : info'[i] = info[i] \/ ~info'[i].deleted
      PROVE  Promise'
  BY <1>1, <1>3, PromiseKept DEF Promise, Growing
<1>4. CASE DoesOpen
  <2>1. Becomes(User) /\ misused' = misused /\ \A i : ~Closing(i)
    BY <1>4, NotClosing DEF DoesOpen, Return
  <2>2. Top.n \in Names
    BY <1>1, <1>4, TopFrame DEF DoesOpen
  <2>3. \A i \in Infos : info'[i] = info[i] \/ ~info'[i].deleted
    BY <1>1, <1>4, <2>2, NewInfoOK DEF DoesOpen, OpenFails, TypeOK
  <2> QED
    BY <1>2, <1>3, <2>1, <2>3
<1>5. CASE DoesClose \/ DoesGive
  <2>1. Becomes(User) /\ \A i : ~Closing(i)
    BY <1>5, NotClosing DEF DoesClose, DoesGive, Return
  <2>2. misused' = misused
    BY <1>1, <1>5, FoundOK DEF DoesClose, DoesGive, Misuse
  <2>3. \A i \in Infos : info'[i] = info[i] \/ ~info'[i].deleted
    BY <1>1, <1>5, NoInfoOK DEF DoesClose, DoesGive, TypeOK
  <2> QED
    BY <1>2, <1>3, <2>1, <2>2, <2>3
<1>6. CASE DoesRead \/ DoesWrite \/ WritesLine
  <2>1. misused' = misused /\ info' = info /\ \A i : ~Closing(i)
    BY <1>1, <1>6, ReadWriteKeeps, NotClosing
    DEF DoesRead, DoesWrite, WritesLine, Structural, TypeOK
  <2>2. CASE Becomes(User) \/ Polls(User)
    BY <1>2, <1>3, <2>1, <2>2
  <2>3. CASE UNCHANGED <<call, depth>> /\ WritesLine
    <3>1. UNCHANGED own /\ given' = given
      BY <2>1, <2>3 DEF own, WritesLine, dos, others
    <3> QED
      BY <1>1, <3>1, PromiseOthers
  <2>4. ASSUME NEW i, i = Found(Top.fd), i # Free, Becomes(Lines(i)) PROVE Promise'
    <3>1. Lines(i) \in Frames /\ Calm(Lines(i))
      BY <1>1, <2>4, FoundOK DEF Lines, Frames, Calm
    <3> QED
      BY <1>3, <2>1, <2>4, <3>1
  <2> QED
    BY <1>6, <2>2, <2>3, <2>4 DEF DoesRead, DoesWrite, WritesLine, Return
<1>7. CASE CallOpen \/ CallUnlink \/ \E op \in {"read", "write", "close", "give"} : Start(op)
  <2>1. /\ misused' = misused /\ info' = info /\ Top = User
    BY <1>7 DEF CallOpen, CallUnlink, Start, MayCall
  <2>2. \A i : ~Closing(i)
    BY <2>1, UserFrame, NotClosing
  <2>3. PICK c \in Frames : Calm(c) /\ Polls(c)
    <3>1. CASE CallUnlink
      BY <3>1, UnlinkFrame, DescriptorsTypes DEF CallUnlink, Calm
    <3>2. CASE ~CallUnlink
      BY <1>7, <3>2 DEF CallOpen, Start, Open, On, Frames, Calm
    <3> QED
      BY <3>1, <3>2
  <2> QED
    BY <1>3, <2>1, <2>2, <2>3
<1>8. CASE UnlinkDeletes
  <2>1. misused' = misused /\ info' = info /\ \A i : ~Closing(i)
    BY <1>8, NotClosing DEF UnlinkDeletes
  <2>2. CASE Polls(Unlink(Top.n, max - 1, "held", "ask"))
    <3>1. Top.n \in Names /\ max - 1 \in -1 .. MaxFds - 1
      BY <1>1, <1>8, TopFrame, DescriptorsTypes DEF TypeOK, UnlinkDeletes
    <3>2. /\ Unlink(Top.n, max - 1, "held", "ask") \in Frames
          /\ Calm(Unlink(Top.n, max - 1, "held", "ask"))
      BY <3>1, UnlinkFrame DEF Calm
    <3> QED
      BY <1>3, <2>1, <2>2, <3>2
  <2>3. CASE Becomes(User)
    BY <1>2, <1>3, <2>1, <2>3
  <2> QED
    BY <1>8, <2>2, <2>3 DEF UnlinkDeletes, Return
<1>9. Top.k = "unlink" /\ Top.pc = "ask" =>
        /\ Top.nlock # "none" /\ (Top.nlock = "freed" => contended # {} /\ contended' # {})
        /\ \A i : ~Closing(i)
  BY <1>1, NotClosing DEF Promise, FrameOK, Top, TypeOK, Growing
<1>10. CASE UnlinkGivesUp
  <2>1. /\ misused \subseteq misused' /\ info' = info /\ Becomes(User)
        /\ misused' # {} => contended' # {}
    BY <1>1, <1>9, <1>10 DEF UnlinkGivesUp, Misuse, Return, Promise, Growing
  <2>2. \A i : ~Closing(i)
    BY <1>9, <1>10 DEF UnlinkGivesUp
  <2> QED
    BY <1>1, <1>2, <2>1, <2>2, PromiseKept
<1>11. CASE UnlinkAsks
  <2> DEFINE i == Found(Top.at)
  <2>1. PICK c \in Frames : /\ Becomes(c) \/ Polls(c)
                            /\ Passes(c) \/ Locks(i, c) \/ Closes(i, c)
    BY <1>1, <1>11, AskOutcomes
  <2>2. CASE Closes(i, c)
    BY <1>1, <1>11, <2>2, PromiseCloses
  <2>3. CASE Passes(c) \/ Locks(i, c)
    <3>1. Top.k = "unlink" /\ Top.pc = "ask"
      BY <1>11 DEF UnlinkAsks
    <3>2. Calm(c)
      BY <1>9, <2>3, <3>1 DEF Passes, Locks, Calm
    <3>3. misused \subseteq misused' /\ (misused' # {} => contended' # {})
      BY <1>1, <1>9, <2>3, <3>1 DEF Passes, Locks, Misuse, Promise, Growing
    <3>4. \A j \in Infos :
            /\ info'[j].name = info[j].name /\ info'[j].deleted = info[j].deleted
            /\ info'[j].removed = info[j].removed
      <4>1. CASE Passes(c)
        BY <4>1 DEF Passes
      <4>2. CASE Locks(i, c)
        <5>1. i \in Infos /\ info[i] # NoInfo /\ ~info[i].deleted
          BY <1>1, <4>2, FoundOK DEF Locks
        <5>2. (info[i].name \in Names) \in BOOLEAN
              /\ info' = [info EXCEPT ![i].lock = info[i].name \in Names]
          BY <4>2 DEF Locks
        <5> HIDE DEF i
        <5> QED
          BY <1>1, <5>1, <5>2, KeepsLock
      <4> QED
        BY <2>3, <4>1, <4>2
    <3> QED
      BY <1>1, <1>9, <2>1, <3>1, <3>2, <3>3, <3>4, PromiseKept
  <2> QED
    BY <2>1, <2>2, <2>3
<1>12. CASE UnlinkTries
  BY <1>1, <1>12, PromiseTries
<1>13. CASE HandlerReturns
  <2>1. depth = 2 /\ depth' = 1 /\ call' = call /\ call[2].k = "user"
        /\ UNCHANGED <<files, max, info, dos, misused>>
    BY <1>13, UserFrame DEF HandlerReturns, Top
  <2>2. ASSUME NEW d \in 1 .. 2 PROVE FrameOK(d) /\ FrameOK(d)'
    <3>1. FrameOK(d)
      BY DEF Promise
    <3>2. call[d].k = "unlink" => call[d].pc # "closed"
      BY <2>1, <3>1 DEF FrameOK
    <3> QED
      BY <1>1, <2>1, <3>1, <3>2 DEF FrameOK, Growing
  <2>3. \A i : ~Closing(i) /\ ~Closing(i)'
    BY <2>1, <2>2 DEF Closing, Top, FrameOK
  <2>4. \A i \in Infos : LostOK(i)'
    BY <1>1, <2>1, <2>3 DEF Promise, LostOK, Growing
  <2> QED
    BY <1>1, <2>1, <2>2, <2>3, <2>4 DEF Promise, ClosingOK, Growing
<1>14. CASE ChildCloses \/ OtherTakes \/ OtherLeaves
  BY <1>1, <1>14, PromiseOthers DEF ChildCloses, OtherTakes, OtherLeaves
<1>15. CASE UNCHANGED vars
  BY <1>1, <1>15, PromiseOthers DEF vars, own
<1> QED
  BY <1>4, <1>5, <1>6, <1>7, <1>8, <1>10, <1>11, <1>12, <1>13, <1>14, <1>15 DEF Next, Steps

LEMMA PromiseAlways == Spec => []Promise
BY PromiseInit, PromiseStep, PTL DEF Spec

\* Whatever open leaves locked, whatever other tasks lock and whatever handlers
\* unlink meanwhile: nothing but a lock is used or given back after its end, and
\* not even that as long as no file has had two users at a time.
THEOREM MisuseFree == Spec => []NothingMisused
<1>1. Promise => NothingMisused
  BY DEF Promise, Structural, NothingMisused
<1> QED
  BY <1>1, PromiseAlways, PTL

\* When no unlink is under way, a descriptor that answers end-of-file has lost
\* its file for good, unless that file has had two users at a time or a freed
\* lock was used; every other descriptor has its handle.
THEOREM DeletedSafe == Spec => []DeletedMeansGone
<1>1. ASSUME Promise, \A d \in 1 .. 2 : call[d].k # "unlink" PROVE \A i : ~Closing(i)
  BY <1>1, TopFrame, NotClosing DEF Promise, Structural, Top
<1>2. ASSUME Promise PROVE misused \subseteq {"lock"} /\ \A i \in Infos : InfoOK(i) /\ LostOK(i)
  BY <1>2 DEF Promise, Structural
<1>3. Promise => DeletedMeansGone
  BY <1>1, <1>2 DEF DeletedMeansGone, InfoOK, LostOK
<1> QED
  BY <1>3, PromiseAlways, PTL
=============================================================================
