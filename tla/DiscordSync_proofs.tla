-------------------------- MODULE DiscordSync_proofs --------------------------
(***************************************************************************)
(* Proofs that a message of Discord behind the cursor is in the knowledge  *)
(* base, on its way from the gateway or kept out by a known cause: for any *)
(* channels, sizes of a page, messages and failures, and any number of     *)
(* syncs at once, with cursors that are reset and set back.                *)
(*                                                                         *)
(* What makes it inductive: nothing is lost behind the cursor a sync began *)
(* with, in the channels it has read, and up to where it has read the one  *)
(* it is in (RunInv).  The last needs that a page has no hole, and that a  *)
(* page that is not full is the last (PageFacts).                          *)
(***************************************************************************)
EXTENDS DiscordSync, FiniteSetTheorems, WellFoundedInduction, TLAPS

Kept(m) == m \in indexed \cup announced \cup passedBy

SafeTo(k) == \A m \in Said : m <= k => Kept(m)

AllKept(c) == \A m \in In(c) : Kept(m)

Unread(s) == pass[s].left \cup pass[s].reading \cup pass[s].failed

RunInv(s) ==
  /\ SafeTo(pass[s].after)
  /\ \A c, d \in pass[s].reading : c = d
  /\ \A c \in pass[s].reading : \A m \in In(c) : m <= pass[s].from => Kept(m)
  /\ pass[s].on => \A c \in Room \ Unread(s) : AllKept(c)

DiscordInv == DiscordTypeOK /\ SafeTo(mark) /\ \A s \in DiscordRun : RunInv(s)

-----------------------------------------------------------------------------
(* Least and greatest numbers. *)

LEMMA LeastElement ==
  ASSUME NEW T \in SUBSET Nat, T # {}
  PROVE  \E x \in T : \A y \in T : x <= y
<1> DEFINE R == OpToRel(<, Nat)
<1>1. IsWellFoundedOn(R, Nat)
  BY NatLessThanWellFounded
<1> HIDE DEF R
<1>2. PICK x \in T : \A y \in T : ~ (<<y, x>> \in R)
  BY <1>1, WFMin
<1>3. ASSUME NEW y \in T  PROVE x <= y
  <2>1. ~ (y < x)
    BY <1>2 DEF R, OpToRel
  <2> QED
    BY <2>1, SMT
<1> QED
  BY <1>3

LEMMA GreatestElement ==
  ASSUME NEW n \in Nat, NEW T \in SUBSET (0 .. n), T # {}
  PROVE  \E x \in T : \A y \in T : x >= y
<1> DEFINE Mirror == {k \in Nat : \E y \in T : k = n - y}
<1>1. Mirror # {}
  <2>1. PICK y \in T : TRUE
    OBVIOUS
  <2>2. n - y \in Mirror
    BY SMT
  <2> QED
    BY <2>2
<1>2. PICK k \in Mirror : \A l \in Mirror : k <= l
  BY <1>1, LeastElement
<1>3. PICK x \in T : k = n - x
  OBVIOUS
<1>4. ASSUME NEW y \in T  PROVE x >= y
  <2>1. n - y \in Mirror
    BY SMT
  <2>2. k <= n - y
    BY <1>2, <2>1
  <2> QED
    BY <1>3, <2>2, SMT
<1> QED
  BY <1>4

LEMMA MinOfSet ==
  ASSUME NEW T \in SUBSET Nat, T # {}
  PROVE  Min(T) \in T /\ \A y \in T : Min(T) <= y
<1>1. \E x \in T : \A y \in T : x <= y
  BY LeastElement
<1> QED
  BY <1>1 DEF Min

\* The largest of the ids seen is an id that was seen.
LEMMA LargestOfSet ==
  ASSUME NEW n \in Nat, NEW a \in 0 .. n, NEW T \in SUBSET (0 .. n)
  PROVE  Largest(a, T) \in 0 .. n
<1>1. \E x \in {a} \cup T : \A y \in {a} \cup T : x >= y
  BY GreatestElement
<1>2. Max({a} \cup T) \in {a} \cup T
  BY <1>1 DEF Max
<1> QED
  BY <1>2 DEF Largest

-----------------------------------------------------------------------------
(* Pages. *)

\* A page holds what comes next: nothing between its messages is missing, and
\* nothing comes after one that is not full.  The first page of a channel that
\* was never read is empty only if the channel is.
LEMMA PageFacts ==
  ASSUME Len(room) \in Nat, NEW c \in Room, NEW a \in Nat
  PROVE  /\ Page(c, a) \in SUBSET In(c)
         /\ Page(c, a) = {} => \A m \in In(c) : m <= a
         /\ a # 0 => \A p \in Page(c, a) : \A m \in In(c) :
                       a < m /\ m <= p => m \in Page(c, a)
         /\ a # 0 /\ Cardinality(Page(c, a)) # PageOf =>
              \A m \in In(c) : a < m => m \in Page(c, a)
<1> DEFINE B == {m \in In(c) : m > a}
           First(m) == {n \in B : IF a = 0 THEN n > m ELSE n < m}
           P == {m \in B : Cardinality(First(m)) < PageOf}
<1>1. Page(c, a) = P
  BY DEF Page
<1>2. B \in SUBSET (1 .. Len(room))
  BY DEF In, Said
<1>3. IsFiniteSet(B) /\ B \in SUBSET Nat /\ B \in SUBSET (0 .. Len(room))
  <2>1. B \in SUBSET Nat /\ B \in SUBSET (0 .. Len(room))
    BY <1>2, SMT
  <2>2. \A b \in B : b <= Len(room)
    BY <1>2, SMT
  <2> HIDE DEF B
  <2> QED
    BY <2>1, <2>2, FS_BoundedSetOfNaturals
<1>4. \A m : First(m) \in SUBSET B
  OBVIOUS
<1>5. \A m : IsFiniteSet(First(m)) /\ Cardinality(First(m)) \in Nat
  <2> HIDE DEF B, First
  <2> QED
    BY <1>3, <1>4, FS_Subset, FS_CardinalityType
<1>6. B # {} => P # {}
  <2> SUFFICES ASSUME B # {}  PROVE P # {}
    OBVIOUS
  <2>1. PICK x \in B : First(x) = {}
    <3>1. PICK g \in B : \A y \in B : g >= y
      <4> HIDE DEF B
      <4> QED
        BY <1>3, GreatestElement
    <3>2. PICK l \in B : \A y \in B : l <= y
      <4> HIDE DEF B
      <4> QED
        BY <1>3, LeastElement
    <3>3. CASE a = 0
      <4>1. First(g) = {}
        BY <1>3, <3>1, <3>3, SMT
      <4> QED
        BY <4>1
    <3>4. CASE a # 0
      <4>1. First(l) = {}
        BY <1>3, <3>2, <3>4, SMT
      <4> QED
        BY <4>1
    <3> QED
      BY <3>3, <3>4
  <2>2. Cardinality(First(x)) = 0
    <3> HIDE DEF First
    <3> QED
      BY <2>1, FS_EmptySet
  <2>3. 0 < PageOf
    BY DiscordAssumption, SMT
  <2> QED
    BY <2>2, <2>3
<1>7. ASSUME a # 0, NEW p \in P, NEW m \in B, m <= p
      PROVE  m \in P
  <2>1. First(m) \in SUBSET First(p)
    BY <1>3, <1>7, SMT
  <2>2. Cardinality(First(m)) <= Cardinality(First(p))
    <3> HIDE DEF First
    <3> QED
      BY <1>5, <2>1, FS_Subset
  <2>3. Cardinality(First(p)) < PageOf
    OBVIOUS
  <2>4. Cardinality(First(m)) < PageOf
    <3> DEFINE k == Cardinality(First(m))
               l == Cardinality(First(p))
    <3>1. k \in Nat /\ l \in Nat /\ PageOf \in Nat /\ k <= l /\ l < PageOf
      BY <1>5, <2>2, <2>3, DiscordAssumption
    <3> HIDE DEF k, l
    <3>2. k < PageOf
      BY <3>1, SMT
    <3> QED
      BY <3>2 DEF k
  <2> QED
    BY <2>4
<1>8. ASSUME a # 0, Cardinality(P) # PageOf
      PROVE  B \in SUBSET P
  <2> SUFFICES ASSUME NEW b \in B \ P  PROVE FALSE
    OBVIOUS
  <2>1. P \in SUBSET B /\ IsFiniteSet(P) /\ P # {}
    <3> HIDE DEF B
    <3> QED
      BY <1>3, <1>6, FS_Subset
  <2>2. PICK x \in B \ P : \A y \in B \ P : x <= y
    <3> HIDE DEF B, P
    <3> QED
      BY <1>3, LeastElement
  <2>3. First(x) \in SUBSET P
    <3> SUFFICES ASSUME NEW n \in First(x)  PROVE n \in P
      OBVIOUS
    <3>1. n \in B /\ n < x
      BY <1>8
    <3>2. ~ (x <= n)
      BY <1>3, <3>1, SMT
    <3> QED
      BY <2>2, <3>1, <3>2
  <2>4. PICK g \in P : \A y \in P : g >= y
    <3>1. P \in SUBSET (0 .. Len(room))
      BY <1>3
    <3> HIDE DEF B, P
    <3> QED
      BY <2>1, <3>1, GreatestElement
  <2>5. P \in SUBSET (First(g) \cup {g})
    <3> SUFFICES ASSUME NEW n \in P, n # g  PROVE n \in First(g)
      OBVIOUS
    <3>1. n \in Nat /\ g \in Nat /\ g >= n
      BY <1>3, <2>4
    <3>2. n < g
      BY <3>1, SMT
    <3> QED
      BY <1>8, <3>2
  <2>6. Cardinality(First(x)) <= Cardinality(P) /\ Cardinality(P) \in Nat
    <3> HIDE DEF First, P
    <3> QED
      BY <1>5, <2>1, <2>3, FS_Subset, FS_CardinalityType
  <2>7. /\ Cardinality(First(g) \cup {g}) <= Cardinality(First(g)) + 1
        /\ Cardinality(First(g) \cup {g}) \in Nat
        /\ Cardinality(P) <= Cardinality(First(g) \cup {g})
    <3> HIDE DEF First, P
    <3>1. /\ IsFiniteSet(First(g) \cup {g})
          /\ Cardinality(First(g) \cup {g}) = Cardinality(First(g))
             \/ Cardinality(First(g) \cup {g}) = Cardinality(First(g)) + 1
      BY <1>5, FS_AddElement
    <3>2. Cardinality(P) <= Cardinality(First(g) \cup {g})
      BY <2>5, <3>1, FS_Subset
    <3>3. Cardinality(First(g)) \in Nat /\ Cardinality(First(g) \cup {g}) \in Nat
      BY <1>5, <3>1, FS_CardinalityType
    <3> DEFINE k == Cardinality(First(g))
               l == Cardinality(First(g) \cup {g})
    <3>4. k \in Nat /\ (l = k \/ l = k + 1)
      BY <3>1, <3>3
    <3>5. l <= k + 1
      <4> HIDE DEF k, l
      <4> QED
        BY <3>4, SMT
    <3> QED
      BY <3>2, <3>3, <3>5
  <2>8. Cardinality(First(g)) < PageOf /\ ~ (Cardinality(First(x)) < PageOf)
    BY <2>2, <2>4
  <2> DEFINE cp == Cardinality(P)
             cx == Cardinality(First(x))
             cg == Cardinality(First(g))
             cu == Cardinality(First(g) \cup {g})
  <2>9. /\ cp \in Nat /\ cx \in Nat /\ cg \in Nat /\ cu \in Nat /\ PageOf \in Nat
        /\ cx <= cp /\ cu <= cg + 1 /\ cp <= cu /\ cg < PageOf /\ ~ (cx < PageOf)
        /\ cp # PageOf
    BY <1>5, <1>8, <2>6, <2>7, <2>8, DiscordAssumption
  <2> HIDE DEF cp, cx, cg, cu
  <2> QED
    BY <2>9, SMT
<1>9. P = {} => \A m \in In(c) : m <= a
  <2> SUFFICES ASSUME P = {}, NEW m \in In(c), ~ (m <= a)  PROVE FALSE
    OBVIOUS
  <2>1. m \in Nat
    BY DEF In, Said
  <2>2. m > a
    BY <2>1, SMT
  <2> QED
    BY <1>6, <2>2
<1> HIDE DEF P, First
<1>10. P \in SUBSET In(c)
  BY DEF P
<1> QED
  BY <1>1, <1>7, <1>8, <1>9, <1>10, SMT

-----------------------------------------------------------------------------
(* The parts of the state. *)

\* What is kept stays kept, and a message keeps its channel.
LEMMA KeptStays ==
  ASSUME DiscordTypeOK, UNCHANGED room,
         indexed \cup announced \cup passedBy \subseteq (indexed \cup announced \cup passedBy)'
  PROVE  /\ \A k : SafeTo(k) => SafeTo(k)'
         /\ \A c : AllKept(c) => AllKept(c)'
         /\ \A c : In(c)' = In(c)
         /\ \A m : Kept(m) => Kept(m)'
         /\ Said' = Said
<1>1. Said' = Said /\ \A c : In(c)' = In(c)
  BY DEF Said, In
<1>2. \A m : Kept(m) => Kept(m)'
  BY DEF Kept
<1> QED
  BY <1>1, <1>2 DEF SafeTo, AllKept

\* A sync that an action does not touch keeps its invariant with what it kept.
LEMMA OtherRun ==
  ASSUME DiscordTypeOK, UNCHANGED room, NEW s \in DiscordRun, RunInv(s), pass'[s] = pass[s],
         indexed \cup announced \cup passedBy \subseteq (indexed \cup announced \cup passedBy)'
  PROVE  RunInv(s)'
<1>1. /\ \A k : SafeTo(k) => SafeTo(k)'
      /\ \A c : AllKept(c) => AllKept(c)'
      /\ \A c : In(c)' = In(c)
      /\ \A m : Kept(m) => Kept(m)'
  BY KeptStays
<1>2. Unread(s)' = Unread(s)
  BY DEF Unread
<1> QED
  BY <1>1, <1>2 DEF RunInv

\* So does everything when no sync is touched and the cursor stays.
LEMMA NoRunTouched ==
  ASSUME DiscordInv, UNCHANGED <<room, pass, mark>>, DiscordTypeOK',
         indexed \cup announced \cup passedBy \subseteq (indexed \cup announced \cup passedBy)'
  PROVE  DiscordInv'
<1>1. SafeTo(mark)'
  BY KeptStays DEF DiscordInv
<1>2. ASSUME NEW s \in DiscordRun  PROVE RunInv(s)'
  BY OtherRun DEF DiscordInv
<1> QED
  BY <1>1, <1>2 DEF DiscordInv

LEMMA NoPassType == NoPass \in PassOfSync
BY SMT DEF NoPass, PassOfSync, IdsSoFar

\* A sync that is over, or not begun, owes nothing.
LEMMA NoPassInv ==
  ASSUME NEW s \in DiscordRun, pass'[s] = NoPass
  PROVE  RunInv(s)'
<1>1. pass'[s].after = 0 /\ pass'[s].reading = {} /\ ~ pass'[s].on
  BY DEF NoPass
<1>2. SafeTo(0)'
  BY SMT DEF SafeTo, Said
<1> QED
  BY <1>1, <1>2 DEF RunInv

\* An action of one sync.
LEMMA RunTouched ==
  ASSUME DiscordInv, UNCHANGED <<room, gateway>>, NEW s \in DiscordRun, NEW p \in PassOfSync,
         pass' = [pass EXCEPT ![s] = p],
         (indexed \cup announced \cup passedBy)' \subseteq Said,
         indexed \cup announced \cup passedBy \subseteq (indexed \cup announced \cup passedBy)',
         roomFaults' \in 0 .. MaxRoomFaults,
         mark' \in IdsSoFar, SafeTo(mark)', RunInv(s)'
  PROVE  DiscordInv'
<1>1. /\ pass' \in [DiscordRun -> PassOfSync]
      /\ \A t \in DiscordRun : t # s => pass'[t] = pass[t]
  BY DEF DiscordInv, DiscordTypeOK
<1>2. DiscordTypeOK'
  BY <1>1 DEF DiscordInv, DiscordTypeOK, Said, IdsSoFar, PassOfSync
<1>3. ASSUME NEW t \in DiscordRun  PROVE RunInv(t)'
  BY <1>1, OtherRun DEF DiscordInv
<1> QED
  BY <1>2, <1>3 DEF DiscordInv

LEMMA FaultType ==
  ASSUME DiscordTypeOK, RoomFault \/ UNCHANGED roomFaults
  PROVE  roomFaults' \in 0 .. MaxRoomFaults
BY DiscordAssumption, SMT DEF DiscordTypeOK, RoomFault

-----------------------------------------------------------------------------
(* The actions. *)

LEMMA DiscordInitInv == DiscordInit => DiscordInv
<1> SUFFICES ASSUME DiscordInit  PROVE DiscordInv
  OBVIOUS
<1>1. DiscordTypeOK
  <2>1. room = <<>> /\ room \in Seq(Room) /\ Len(room) = 0
    BY SMT DEF DiscordInit
  <2>2. Len(room) <= MaxSaid /\ 0 \in IdsSoFar /\ 0 \in 0 .. MaxRoomFaults
    BY <2>1, DiscordAssumption, SMT DEF IdsSoFar
  <2>3. pass \in [DiscordRun -> PassOfSync]
    BY NoPassType DEF DiscordInit
  <2> QED
    BY <2>1, <2>2, <2>3 DEF DiscordInit, DiscordTypeOK
<1>2. Said = {}
  BY SMT DEF DiscordInit, Said
<1>3. ASSUME NEW s \in DiscordRun  PROVE RunInv(s)
  BY <1>2 DEF DiscordInit, RunInv, SafeTo, NoPass
<1> QED
  BY <1>1, <1>2, <1>3 DEF DiscordInv, SafeTo

\* A message is behind no cursor that was read before it was posted.
LEMMA SayKeeps ==
  ASSUME DiscordInv, NEW c \in Room, Say(c)
  PROVE  DiscordInv'
<1> DEFINE new == Len(room) + 1
<1>1. /\ room' = Append(room, c)
      /\ room \in Seq(Room)
      /\ Len(room) \in Nat
      /\ Len(room') = new
      /\ new <= MaxSaid
  BY DiscordAssumption, SMT DEF DiscordInv, DiscordTypeOK, Say
<1>2. /\ Said' = Said \cup {new}
      /\ new \notin Said
      /\ \A m \in Said : room'[m] = room[m]
      /\ room'[new] = c
  BY <1>1, SMT DEF Said
<1>3. /\ \A m : Kept(m) => Kept(m)'
      /\ (indexed \cup announced \cup passedBy)' \subseteq Said'
      /\ UNCHANGED <<indexed, gateway, mark, pass, roomFaults>>
  BY <1>1, <1>2 DEF Say, Kept, DiscordInv, DiscordTypeOK
<1>4. \A k \in IdsSoFar : k \in IdsSoFar' /\ ~ (new <= k)
  BY <1>1, SMT DEF IdsSoFar
<1>5. DiscordTypeOK'
  <2>1. room' \in Seq(Room)
    BY <1>1
  <2>2. PassOfSync \subseteq PassOfSync'
    BY <1>4 DEF PassOfSync
  <2>3. pass' \in [DiscordRun -> PassOfSync']
    BY <1>3, <2>2 DEF DiscordInv, DiscordTypeOK
  <2> QED
    BY <1>1, <1>3, <1>4, <2>1, <2>3 DEF DiscordInv, DiscordTypeOK
<1>6. ASSUME NEW k \in IdsSoFar, SafeTo(k)  PROVE \A m \in Said' : m <= k => Kept(m)'
  BY <1>2, <1>3, <1>4, <1>6 DEF SafeTo
<1>7. SafeTo(mark)'
  <2>1. mark \in IdsSoFar /\ SafeTo(mark) /\ mark' = mark
    BY <1>3 DEF DiscordInv, DiscordTypeOK
  <2> QED
    BY <1>6, <2>1 DEF SafeTo
<1>8. ASSUME NEW s \in DiscordRun  PROVE RunInv(s)'
  <2>1. RunInv(s) /\ pass'[s] = pass[s] /\ pass[s] \in PassOfSync
    BY <1>3 DEF DiscordInv, DiscordTypeOK
  <2>2. pass[s].after \in IdsSoFar /\ pass[s].from \in IdsSoFar
    BY <2>1 DEF PassOfSync
  <2>3. SafeTo(pass[s].after)'
    BY <1>6, <2>1, <2>2 DEF SafeTo, RunInv
  <2>4. ASSUME NEW d \in pass[s].reading, NEW m \in In(d)', m <= pass[s].from
        PROVE  Kept(m)'
    BY <1>2, <1>3, <1>4, <2>1, <2>2, <2>4 DEF In, RunInv
  <2>5. ASSUME pass[s].on, NEW d \in Room \ Unread(s), NEW m \in In(d)'
        PROVE  Kept(m)'
    <3>1. CASE m \in Said
      BY <1>2, <1>3, <2>1, <2>5, <3>1 DEF In, RunInv, AllKept
    <3>2. CASE m = new
      <4>1. HasRead(s, c)
        BY <1>2, <2>5, <3>2 DEF In, HasRead, Unread
      <4> QED
        BY <1>1, <3>2, <4>1 DEF Say, Kept
    <3> QED
      BY <1>2, <3>1, <3>2 DEF In
  <2> QED
    BY <2>1, <2>3, <2>4, <2>5 DEF RunInv, AllKept, Unread
<1> QED
  BY <1>5, <1>7, <1>8 DEF DiscordInv

LEMMA HandleKeeps ==
  ASSUME DiscordInv, NEW m \in announced, HandleMessageCreate(m)
  PROVE  DiscordInv'
<1>1. roomFaults' \in 0 .. MaxRoomFaults
  BY FaultType DEF DiscordInv, HandleMessageCreate
<1>2. /\ indexed \cup announced \cup passedBy \subseteq (indexed \cup announced \cup passedBy)'
      /\ (indexed \cup announced \cup passedBy)' \subseteq Said
  BY DEF HandleMessageCreate, DiscordInv, DiscordTypeOK
<1>3. DiscordTypeOK'
  BY <1>1, <1>2 DEF HandleMessageCreate, DiscordInv, DiscordTypeOK, Said, IdsSoFar, PassOfSync
<1> QED
  BY <1>2, <1>3, NoRunTouched DEF HandleMessageCreate

LEMMA ConnectKeeps ==
  ASSUME DiscordInv, Connect
  PROVE  DiscordInv'
<1>1. DiscordTypeOK'
  BY DEF Connect, DiscordInv, DiscordTypeOK, Said, IdsSoFar, PassOfSync
<1> QED
  BY <1>1, NoRunTouched DEF Connect

LEMMA DisconnectKeeps ==
  ASSUME DiscordInv, Disconnect
  PROVE  DiscordInv'
<1>1. indexed \cup announced \cup passedBy \subseteq (indexed \cup announced \cup passedBy)'
  BY DEF Disconnect
<1>2. pass' \in [DiscordRun -> PassOfSync]
  BY NoPassType DEF Disconnect
<1>3. DiscordTypeOK'
  BY <1>2 DEF Disconnect, DiscordInv, DiscordTypeOK, Said, IdsSoFar, PassOfSync
<1>4. SafeTo(mark)'
  BY <1>1, KeptStays DEF Disconnect, DiscordInv
<1>5. ASSUME NEW s \in DiscordRun  PROVE RunInv(s)'
  BY NoPassInv DEF Disconnect
<1> QED
  BY <1>3, <1>4, <1>5 DEF DiscordInv

LEMMA ResetKeeps ==
  ASSUME DiscordInv, ResetMark
  PROVE  DiscordInv'
<1>1. DiscordTypeOK'
  BY SMT DEF ResetMark, DiscordInv, DiscordTypeOK, Said, IdsSoFar, PassOfSync
<1>2. SafeTo(mark)'
  BY SMT DEF ResetMark, SafeTo, Said
<1>3. ASSUME NEW s \in DiscordRun  PROVE RunInv(s)'
  BY OtherRun DEF ResetMark, DiscordInv
<1> QED
  BY <1>1, <1>2, <1>3 DEF DiscordInv

LEMMA SyncKeeps ==
  ASSUME DiscordInv, NEW s \in DiscordRun, Sync(s)
  PROVE  DiscordInv'
<1> DEFINE p == [NoPass EXCEPT !.on = TRUE, !.after = mark, !.left = Room]
<1>1. p.after = mark /\ p.reading = {} /\ p.left = Room
  BY DEF NoPass
<1>2. p \in PassOfSync
  BY NoPassType DEF DiscordInv, DiscordTypeOK, PassOfSync
<1> HIDE DEF p
<1>3. /\ pass' = [pass EXCEPT ![s] = p]
      /\ pass \in [DiscordRun -> PassOfSync]
      /\ UNCHANGED <<room, indexed, announced, gateway, mark, roomFaults, passedBy>>
  BY DEF Sync, p, DiscordInv, DiscordTypeOK
<1>4. pass'[s] = p
  BY <1>3
<1>5. SafeTo(mark)'
  BY <1>3, KeptStays DEF DiscordInv
<1>6. RunInv(s)'
  BY <1>1, <1>3, <1>4, <1>5 DEF RunInv, Unread, SafeTo
<1>7. /\ (indexed \cup announced \cup passedBy)' \subseteq Said
      /\ roomFaults' \in 0 .. MaxRoomFaults
      /\ mark' \in IdsSoFar
  BY <1>3 DEF DiscordInv, DiscordTypeOK
<1> QED
  BY <1>2, <1>3, <1>5, <1>6, <1>7, RunTouched

\* A channel is read from the cursor the sync began with.
LEMMA NextRoomKeeps ==
  ASSUME DiscordInv, NEW s \in DiscordRun, NEW c \in Room, NextRoom(s, c)
  PROVE  DiscordInv'
<1> DEFINE q == pass[s]
           p == [OpenRoom(s, c) EXCEPT !.from = q.after]
<1>0. q \in PassOfSync /\ RunInv(s)
  BY DEF DiscordInv, DiscordTypeOK
<1>1. /\ p.on = q.on /\ p.after = q.after /\ p.from = q.after /\ p.failed = q.failed
      /\ p.left = q.left \ {c} /\ p.reading = {c}
  BY <1>0 DEF OpenRoom, PassOfSync
<1>2. p \in PassOfSync
  BY <1>0 DEF OpenRoom, PassOfSync
<1>3. c \in q.left /\ q.reading = {}
  BY DEF NextRoom, BetweenRooms
<1> HIDE DEF p
<1>4. /\ pass' = [pass EXCEPT ![s] = p]
      /\ pass \in [DiscordRun -> PassOfSync]
      /\ UNCHANGED <<room, indexed, announced, gateway, mark, roomFaults, passedBy>>
  BY DEF NextRoom, p, DiscordInv, DiscordTypeOK
<1>5. pass'[s] = p
  BY <1>4
<1>6. /\ SafeTo(mark)'
      /\ \A d : AllKept(d) => AllKept(d)'
      /\ \A m \in Said' : m <= q.after => Kept(m)'
  BY <1>0, <1>4, KeptStays DEF DiscordInv, RunInv, SafeTo
<1>7. RunInv(s)'
  <2>1. Unread(s)' = Unread(s)
    BY <1>1, <1>3, <1>5 DEF Unread
  <2>2. \A m \in In(c)' : m <= q.after => Kept(m)'
    BY <1>6 DEF In, SafeTo
  <2> QED
    BY <1>0, <1>1, <1>5, <1>6, <2>1, <2>2 DEF RunInv, SafeTo
<1>8. /\ (indexed \cup announced \cup passedBy)' \subseteq Said
      /\ roomFaults' \in 0 .. MaxRoomFaults
      /\ mark' \in IdsSoFar
  BY <1>4 DEF DiscordInv, DiscordTypeOK
<1> QED
  BY <1>2, <1>4, <1>6, <1>7, <1>8, RunTouched

\* A sync that is done with a channel forgets where it was in it.
LEMMA LeaveFields ==
  ASSUME NEW q \in PassOfSync, NEW l \in IdsSoFar
  PROVE  /\ Leave(q, l) \in PassOfSync
         /\ Leave(q, l).on = q.on /\ Leave(q, l).after = q.after
         /\ Leave(q, l).left = q.left /\ Leave(q, l).failed = q.failed
         /\ Leave(q, l).reading = {}
<1>1. 0 \in IdsSoFar
  BY SMT DEF IdsSoFar
<1> QED
  BY <1>1 DEF Leave, PassOfSync

\* It owes no more of the channel if all of it is kept, or it failed.
LEMMA ChannelRead ==
  ASSUME DiscordInv, UNCHANGED room, NEW s \in DiscordRun, NEW c \in pass[s].reading,
         indexed \cup announced \cup passedBy \subseteq (indexed \cup announced \cup passedBy)',
         NEW p, pass'[s] = p,
         p.on = pass[s].on, p.after = pass[s].after, p.left = pass[s].left, p.reading = {},
         \/ p.failed = pass[s].failed /\ \A m \in In(c) : Kept(m)'
         \/ p.failed = pass[s].failed \cup {c}
  PROVE  RunInv(s)'
<1>0. RunInv(s)
  BY DEF DiscordInv
<1>1. /\ SafeTo(pass[s].after)'
      /\ \A d : AllKept(d) => AllKept(d)'
      /\ \A d : In(d)' = In(d)
  <2>1. /\ \A k : SafeTo(k) => SafeTo(k)'
        /\ \A d : AllKept(d) => AllKept(d)'
        /\ \A d : In(d)' = In(d)
    BY KeptStays DEF DiscordInv
  <2>2. pass'[s].after = pass[s].after
    OBVIOUS
  <2> QED
    BY <1>0, <2>1, <2>2 DEF RunInv, SafeTo
<1>2. pass[s].reading = {c}
  BY <1>0 DEF RunInv
<1>3. ASSUME p.on, NEW d \in Room \ Unread(s)'  PROVE AllKept(d)'
  <2>1. CASE d \in Unread(s)
    <3>1. d = c /\ p.failed = pass[s].failed
      BY <1>2, <1>3, <2>1 DEF Unread
    <3>2. \A m \in In(c) : Kept(m)'
      BY <1>2, <1>3, <3>1 DEF Unread
    <3>3. In(d)' = In(c)
      BY <1>1, <3>1
    <3> QED
      BY <3>2, <3>3 DEF AllKept
  <2>2. CASE d \notin Unread(s)
    BY <1>0, <1>1, <1>3, <2>2 DEF RunInv
  <2> QED
    BY <2>1, <2>2
<1> QED
  BY <1>1, <1>3 DEF RunInv

LEMMA RoomFailsKeeps ==
  ASSUME DiscordInv, NEW s \in DiscordRun, NEW c \in Room, RoomFails(s, c)
  PROVE  DiscordInv'
<1> DEFINE q == pass[s]
           l == Leave(q, q.latest)
           p == [l EXCEPT !.failed = @ \cup {c}]
<1>0. q \in PassOfSync /\ q.latest \in IdsSoFar
  BY DEF DiscordInv, DiscordTypeOK, PassOfSync
<1>1. /\ l \in PassOfSync
      /\ l.on = q.on /\ l.after = q.after /\ l.left = q.left /\ l.failed = q.failed
      /\ l.reading = {}
  BY <1>0, LeaveFields
<1> HIDE DEF l
<1>2. /\ p \in PassOfSync
      /\ p.on = q.on /\ p.after = q.after /\ p.left = q.left /\ p.reading = {}
      /\ p.failed = q.failed \cup {c}
  BY <1>1 DEF PassOfSync
<1>3. /\ pass \in [DiscordRun -> PassOfSync]
      /\ c \in q.reading
      /\ UNCHANGED <<room, indexed, announced, gateway, mark, passedBy>>
  BY DEF RoomFails, DiscordInv, DiscordTypeOK
<1>8. pass' = [pass EXCEPT ![s] = p]
  BY DEF RoomFails, p, l
<1> HIDE DEF p
<1>4. pass'[s] = p
  BY <1>3, <1>8
<1>5. RunInv(s)'
  BY <1>2, <1>3, <1>4, ChannelRead
<1>6. roomFaults' \in 0 .. MaxRoomFaults
  BY FaultType DEF RoomFails, DiscordInv
<1>7. SafeTo(mark)' /\ mark' \in IdsSoFar /\ (indexed \cup announced \cup passedBy)' \subseteq Said
  BY <1>3, KeptStays DEF DiscordInv, DiscordTypeOK
<1> QED
  BY <1>2, <1>3, <1>8, <1>5, <1>6, <1>7, RunTouched

LEMMA PageOfNothingKeeps ==
  ASSUME DiscordInv, NEW s \in DiscordRun, NEW c \in Room, c \in pass[s].reading,
         Page(c, pass[s].from) = {},
         pass' = [pass EXCEPT ![s] = EndRoom(@)],
         UNCHANGED <<room, indexed, announced, gateway, mark, roomFaults, passedBy>>
  PROVE  DiscordInv'
<1> DEFINE q == pass[s]
           p == EndRoom(q)
<1>0. /\ q \in PassOfSync /\ RunInv(s)
      /\ q.latest \in IdsSoFar /\ q.last \in IdsSoFar /\ q.from \in Nat
      /\ Len(room) \in Nat
  BY SMT DEF DiscordInv, DiscordTypeOK, PassOfSync, IdsSoFar
<1>1. Largest(q.latest, {q.last}) \in IdsSoFar
  BY <1>0, LargestOfSet DEF IdsSoFar
<1>2. /\ p \in PassOfSync
      /\ p.on = q.on /\ p.after = q.after /\ p.left = q.left /\ p.reading = {}
      /\ p.failed = q.failed
  BY <1>0, <1>1, LeaveFields DEF EndRoom
<1>3. pass' = [pass EXCEPT ![s] = p] /\ pass \in [DiscordRun -> PassOfSync]
  BY DEF DiscordInv, DiscordTypeOK
<1> HIDE DEF p
<1>4. pass'[s] = p
  BY <1>3
<1>5. \A m \in In(c) : Kept(m)'
  <2>1. \A m \in In(c) : m <= q.from
    BY <1>0, PageFacts
  <2> QED
    BY <1>0, <2>1 DEF RunInv, Kept
<1>6. RunInv(s)'
  BY <1>2, <1>4, <1>5, ChannelRead
<1>7. /\ SafeTo(mark)' /\ mark' \in IdsSoFar
      /\ (indexed \cup announced \cup passedBy)' \subseteq Said
      /\ roomFaults' \in 0 .. MaxRoomFaults
  BY KeptStays DEF DiscordInv, DiscordTypeOK
<1> QED
  BY <1>2, <1>3, <1>6, <1>7, RunTouched

AfterReading(s, c, page, bad) ==
  /\ RoomFault \/ UNCHANGED roomFaults
  /\ indexed' = indexed \cup (page \ bad)
  /\ pass' = [pass EXCEPT ![s] = AfterPage(@, page, page \ bad)]
  /\ passedBy' = passedBy \cup bad \cup
                   (IF pass[s].from = 0 THEN In(c) \ page ELSE {})
  /\ UNCHANGED <<room, announced, gateway, mark>>

\* After a page, everything up to its oldest message is kept, and the whole
\* channel is if the page was not full.
LEMMA PageKeeps ==
  ASSUME DiscordInv, NEW s \in DiscordRun, NEW c \in Room, c \in pass[s].reading,
         NEW page \in {Page(c, pass[s].from)}, page # {},
         NEW bad \in SUBSET page,
         AfterReading(s, c, page, bad)
  PROVE  DiscordInv'
<1> USE DEF AfterReading
<1> DEFINE q == pass[s]
           stored == page \ bad
           p == AfterPage(q, page, stored)
<1>0. /\ q \in PassOfSync /\ RunInv(s)
      /\ q.latest \in IdsSoFar /\ q.last \in IdsSoFar /\ q.from \in Nat
      /\ Len(room) \in Nat
  BY SMT DEF DiscordInv, DiscordTypeOK, PassOfSync, IdsSoFar
<1>1. /\ page \in SUBSET In(c)
      /\ In(c) \in SUBSET Said /\ In(c) \in SUBSET IdsSoFar /\ In(c) \in SUBSET Nat
  <2>1. page \in SUBSET In(c)
    BY <1>0, PageFacts
  <2>2. Said \in SUBSET IdsSoFar /\ Said \in SUBSET Nat
    BY <1>0, SMT DEF Said, IdsSoFar
  <2> QED
    BY <2>1, <2>2 DEF In
<1>2. /\ Min(page) \in page
      /\ Min(page) \in IdsSoFar
  <2>1. page \in SUBSET Nat
    BY <1>1
  <2> QED
    BY <1>1, <2>1, MinOfSet
<1>3. /\ indexed \cup announced \cup passedBy \subseteq (indexed \cup announced \cup passedBy)'
      /\ (indexed \cup announced \cup passedBy)' \subseteq Said
      /\ \A m \in page : Kept(m)'
      /\ q.from = 0 => \A m \in In(c) : Kept(m)'
  BY <1>1 DEF Kept, DiscordInv, DiscordTypeOK
<1>4. \A m \in In(c) : m <= q.from => Kept(m)'
  BY <1>0, <1>3 DEF RunInv, Kept
<1>5. pass' = [pass EXCEPT ![s] = p] /\ pass \in [DiscordRun -> PassOfSync]
  BY DEF DiscordInv, DiscordTypeOK
<1>6. p \in PassOfSync /\ RunInv(s)'
  <2>1. CASE Cardinality(page) = PageOf
    <3>1. p = [q EXCEPT !.from = Min(page), !.last = Largest(@, stored)]
      BY <2>1 DEF AfterPage, Continue
    <3>2. Largest(q.last, stored) \in IdsSoFar
      <4>1. stored \in SUBSET IdsSoFar
        BY <1>1
      <4> QED
        BY <1>0, <4>1, LargestOfSet DEF IdsSoFar
    <3> HIDE DEF p
    <3>3. /\ p \in PassOfSync
          /\ p.on = q.on /\ p.after = q.after /\ p.left = q.left /\ p.reading = q.reading
          /\ p.failed = q.failed /\ p.from = Min(page)
      BY <1>0, <1>2, <3>1, <3>2 DEF PassOfSync
    <3>4. pass'[s] = p
      BY <1>5
    <3>5. ASSUME NEW m \in In(c), m <= Min(page)  PROVE Kept(m)'
      <4>1. CASE q.from = 0 \/ m <= q.from
        BY <1>3, <1>4, <4>1
      <4>2. CASE q.from # 0 /\ ~ (m <= q.from)
        <5>1. q.from < m
          BY <1>0, <1>1, <4>2, SMT
        <5>2. m \in page
          BY <1>0, <1>2, <3>5, <4>2, <5>1, PageFacts
        <5> QED
          BY <1>3, <5>2
      <4> QED
        BY <4>1, <4>2
    <3>6. /\ \A k : SafeTo(k) => SafeTo(k)'
          /\ \A d : AllKept(d) => AllKept(d)'
          /\ \A d : In(d)' = In(d)
      BY <1>3, KeptStays DEF DiscordInv
    <3>7. q.reading = {c}
      BY <1>0 DEF RunInv
    <3>8. Unread(s)' = Unread(s)
      BY <3>3, <3>4 DEF Unread
    <3>9. SafeTo(q.after)'
      BY <1>0, <3>3, <3>4, <3>6 DEF RunInv, SafeTo
    <3> QED
      BY <1>0, <3>3, <3>4, <3>5, <3>6, <3>7, <3>8, <3>9 DEF RunInv
  <2>2. CASE Cardinality(page) # PageOf
    <3>1. p = Leave(q, Largest(q.latest, stored \cup {q.last}))
      BY <2>2 DEF AfterPage, LastPage
    <3>2. Largest(q.latest, stored \cup {q.last}) \in IdsSoFar
      <4>1. stored \cup {q.last} \in SUBSET IdsSoFar
        BY <1>0, <1>1
      <4> QED
        BY <1>0, <4>1, LargestOfSet DEF IdsSoFar
    <3> HIDE DEF p
    <3>3. /\ p \in PassOfSync
          /\ p.on = q.on /\ p.after = q.after /\ p.left = q.left /\ p.reading = {}
          /\ p.failed = q.failed
      BY <1>0, <3>1, <3>2, LeaveFields
    <3>4. pass'[s] = p
      BY <1>5
    <3>5. ASSUME NEW m \in In(c)  PROVE Kept(m)'
      <4>1. CASE q.from = 0 \/ m <= q.from
        BY <1>3, <1>4, <4>1
      <4>2. CASE q.from # 0 /\ ~ (m <= q.from)
        <5>1. q.from < m
          BY <1>0, <1>1, <4>2, SMT
        <5>2. m \in page
          BY <1>0, <2>2, <4>2, <5>1, PageFacts
        <5> QED
          BY <1>3, <5>2
      <4> QED
        BY <4>1, <4>2
    <3>6. RunInv(s)'
      BY <1>3, <3>3, <3>4, <3>5, ChannelRead
    <3> QED
      BY <3>3, <3>6
  <2> QED
    BY <2>1, <2>2
<1>7. SafeTo(mark)' /\ mark' \in IdsSoFar /\ roomFaults' \in 0 .. MaxRoomFaults
  BY <1>3, KeptStays, FaultType DEF DiscordInv, DiscordTypeOK
<1> HIDE DEF p
<1> QED
  BY <1>3, <1>5, <1>6, <1>7, RunTouched

LEMMA ReadPageKeeps ==
  ASSUME DiscordInv, NEW s \in DiscordRun, NEW c \in Room, ReadPage(s, c)
  PROVE  DiscordInv'
<1> DEFINE page == Page(c, pass[s].from)
<1>1. c \in pass[s].reading /\ UNCHANGED <<room, announced, gateway, mark>>
  BY DEF ReadPage
<1>2. CASE /\ page = {}
           /\ pass' = [pass EXCEPT ![s] = EndRoom(@)]
           /\ UNCHANGED <<indexed, roomFaults, passedBy>>
  BY <1>1, <1>2, PageOfNothingKeeps
<1>3. CASE /\ page # {}
           /\ \E bad \in {{}} \cup {{m} : m \in page} :
                 /\ IF bad = {} THEN UNCHANGED roomFaults ELSE RoomFault
                 /\ indexed' = indexed \cup (page \ bad)
                 /\ pass' = [pass EXCEPT ![s] = AfterPage(@, page, page \ bad)]
                 /\ passedBy' = passedBy \cup bad \cup
                       (IF pass[s].from = 0 THEN In(c) \ page ELSE {})
  <2>1. page \in {Page(c, pass[s].from)} /\ page # {}
    BY <1>3
  <2> HIDE DEF page
  <2>2. PICK bad \in {{}} \cup {{m} : m \in page} :
          /\ IF bad = {} THEN UNCHANGED roomFaults ELSE RoomFault
          /\ indexed' = indexed \cup (page \ bad)
          /\ pass' = [pass EXCEPT ![s] = AfterPage(@, page, page \ bad)]
          /\ passedBy' = passedBy \cup bad \cup
                (IF pass[s].from = 0 THEN In(c) \ page ELSE {})
    BY <1>3
  <2>3. bad \in SUBSET page
    OBVIOUS
  <2>4. RoomFault \/ UNCHANGED roomFaults
    BY <2>2
  <2>5. AfterReading(s, c, page, bad)
    BY <1>1, <2>2, <2>4 DEF AfterReading
  <2> QED
    BY <1>1, <2>1, <2>3, <2>5, PageKeeps
<1> QED
  BY <1>2, <1>3 DEF ReadPage

\* The cursor a sync stores has nothing lost behind it: each channel was read to
\* its end, or failed.
LEMMA SyncEndsKeeps ==
  ASSUME DiscordInv, NEW s \in DiscordRun, SyncEnds(s)
  PROVE  DiscordInv'
<1>1. /\ pass[s].on /\ pass[s].left = {} /\ pass[s].reading = {}
      /\ pass' = [pass EXCEPT ![s] = NoPass]
      /\ mark' = mark \/ mark' = pass[s].latest
      /\ RoomFault \/ UNCHANGED roomFaults
      /\ passedBy' = passedBy \cup {m \in Said : m <= mark' /\ room[m] \in pass[s].failed}
      /\ UNCHANGED <<room, indexed, announced, gateway>>
  BY DEF SyncEnds, BetweenRooms
<1>2. /\ pass \in [DiscordRun -> PassOfSync] /\ pass[s] \in PassOfSync
      /\ RunInv(s) /\ SafeTo(mark)
      /\ \A m \in Said : room[m] \in Room
  BY DEF DiscordInv, DiscordTypeOK, Said
<1>3. mark' \in IdsSoFar
  BY <1>1, <1>2 DEF DiscordInv, DiscordTypeOK, PassOfSync
<1>4. /\ indexed \cup announced \cup passedBy \subseteq (indexed \cup announced \cup passedBy)'
      /\ (indexed \cup announced \cup passedBy)' \subseteq Said
  BY <1>1 DEF DiscordInv, DiscordTypeOK
<1>5. SafeTo(mark)'
  <2> SUFFICES ASSUME NEW m \in Said, m <= mark'  PROVE Kept(m)'
    BY <1>1 DEF SafeTo, Said
  <2>1. CASE room[m] \in pass[s].failed
    BY <1>1, <2>1 DEF Kept
  <2>2. CASE room[m] \notin pass[s].failed
    <3>1. room[m] \in Room \ Unread(s) /\ m \in In(room[m])
      BY <1>1, <1>2, <2>2 DEF Unread, In
    <3>2. Kept(m)
      BY <1>1, <1>2, <3>1 DEF RunInv, AllKept
    <3> QED
      BY <1>4, <3>2 DEF Kept
  <2> QED
    BY <2>1, <2>2
<1>6. RunInv(s)'
  <2>1. pass'[s] = NoPass
    BY <1>1, <1>2
  <2> QED
    BY <2>1, NoPassInv
<1>7. roomFaults' \in 0 .. MaxRoomFaults
  BY <1>1, FaultType DEF DiscordInv
<1> QED
  BY <1>1, <1>3, <1>4, <1>5, <1>6, <1>7, NoPassType, RunTouched

-----------------------------------------------------------------------------
(* The theorems. *)

LEMMA DiscordIsConsistent == DiscordSpec => []DiscordInv
<1>1. DiscordInv /\ [DiscordNext]_discordVars => DiscordInv'
  <2> SUFFICES ASSUME DiscordInv, [DiscordNext]_discordVars  PROVE DiscordInv'
    OBVIOUS
  <2>1. ASSUME NEW c \in Room, Say(c)  PROVE DiscordInv'
    BY <2>1, SayKeeps
  <2>2. ASSUME NEW m \in announced, HandleMessageCreate(m)  PROVE DiscordInv'
    BY <2>2, HandleKeeps
  <2>3. ASSUME NEW s \in DiscordRun, Sync(s) \/ SyncEnds(s)  PROVE DiscordInv'
    BY <2>3, SyncKeeps, SyncEndsKeeps
  <2>4. ASSUME NEW s \in DiscordRun, NEW c \in Room,
               NextRoom(s, c) \/ ReadPage(s, c) \/ RoomFails(s, c)
        PROVE  DiscordInv'
    BY <2>4, NextRoomKeeps, ReadPageKeeps, RoomFailsKeeps
  <2>5. CASE Connect \/ Disconnect \/ ResetMark
    BY <2>5, ConnectKeeps, DisconnectKeeps, ResetKeeps
  <2>6. CASE UNCHANGED discordVars
    <3>1. DiscordTypeOK'
      BY <2>6 DEF discordVars, DiscordInv, DiscordTypeOK, Said, IdsSoFar, PassOfSync
    <3> QED
      BY <2>6, <3>1, NoRunTouched DEF discordVars
  <2> QED
    BY <2>1, <2>2, <2>3, <2>4, <2>5, <2>6 DEF DiscordNext
<1> QED
  BY <1>1, DiscordInitInv, PTL DEF DiscordSpec

\* Every variable keeps its type: no cursor is ahead of the last message.
THEOREM DiscordTypeCorrect == DiscordSpec => []DiscordTypeOK
<1>1. DiscordInv => DiscordTypeOK
  BY DEF DiscordInv
<1> QED
  BY <1>1, DiscordIsConsistent, PTL

\* A message behind the cursor that Sync and FullSync store, set back and reset
\* is indexed, announced, or kept out by a known cause.
THEOREM NothingElseIsLost == DiscordSpec => []BehindTheCursor
<1>1. DiscordInv => BehindTheCursor
  BY DEF DiscordInv, SafeTo, Kept, BehindTheCursor
<1> QED
  BY <1>1, DiscordIsConsistent, PTL

=============================================================================
