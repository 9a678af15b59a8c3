----------------------- MODULE PublicKeyServiceProofs -----------------------
(***************************************************************************)
(* Proofs about PublicKeyService, for any number of threads, sessions,     *)
(* keys, buckets and slots, any hash function and any growth: its type     *)
(* invariant, what racing calls of Add leave alone, what the growth of the *)
(* arrays mends, and that it is a session store while requests come one at *)
(* a time.                                                                 *)
(***************************************************************************)
EXTENDS PublicKeyService, TLAPS, WellFoundedInduction, NaturalsInduction

-----------------------------------------------------------------------------
(* Slots *)

(* Every set of slots but the empty one has a first and a last element. *)
LEMMA FirstAndLast ==
  ASSUME NEW I \in SUBSET Slots, I # {}
  PROVE  /\ \E i \in I : \A j \in I : i <= j
         /\ LatestOf(I) \in I /\ \A j \in I : j <= LatestOf(I)
<1> USE CapacityAssumption DEF Slots
<1>1. ASSUME NEW T \in SUBSET Nat, T # {} PROVE \E i \in T : \A j \in T : i <= j
  <2> DEFINE R == OpToRel(<, Nat)
  <2>1. IsWellFoundedOn(R, Nat)
    BY NatLessThanWellFounded
  <2>2. \A m, k \in Nat : m < k => <<m, k>> \in R
    BY DEF OpToRel
  <2> HIDE DEF R
  <2>3. PICK i \in T : \A j \in T : <<j, i>> \notin R
    BY <1>1, <2>1, WFMin
  <2>4. \A j \in T : ~(j < i)
    BY <2>2, <2>3
  <2> QED
    BY <2>4
<1>2. \E i \in I : \A j \in I : i <= j
  BY <1>1
<1>3. \E i \in I : \A j \in I : j <= i
  <2> DEFINE T == {n \in Nat : Capacity - n \in I}
  <2>1. PICK i : i \in I
    OBVIOUS
  <2>2. Capacity - i \in T
    BY <2>1
  <2>3. PICK n \in T : \A m \in T : n <= m
    BY <2>2, <1>1
  <2>4. \A j \in I : Capacity - j \in T
    OBVIOUS
  <2> QED
    BY <2>3, <2>4
<1> QED
  BY <1>2, <1>3 DEF LatestOf

(* Which slots belong to a bucket depends on the sessions alone. *)
LEMMA SameSessions ==
  ASSUME NEW E, NEW F, NEW n \in Counts, NEW b, NEW h,
         \A i \in Slots : i <= n => E[i].session = F[i].session
  PROVE  Linked(E, n, b, h) = Linked(F, n, b, h)
<1>1. InBucket(E, n, b) = InBucket(F, n, b)
  BY DEF InBucket
<1> QED
  BY <1>1 DEF Linked

(* A head is 0, what it was before, or a slot. *)
LEMMA LinkedType ==
  ASSUME NEW E, NEW n, NEW b, NEW h \in Counts
  PROVE  Linked(E, n, b, h) \in Counts
<1>1. InBucket(E, n, b) \in SUBSET Slots
  BY DEF InBucket
<1>2. CASE InBucket(E, n, b) = {}
  BY <1>2 DEF Linked
<1>3. CASE InBucket(E, n, b) # {}
  <2>1. LatestOf(InBucket(E, n, b)) \in Slots
    BY <1>1, <1>3, FirstAndLast
  <2> QED
    BY <1>3, <2>1, CapacityAssumption DEF Linked, Slots, Counts
<1> QED
  BY <1>2, <1>3

(* Entries linked one after the other can all be reached from the head. *)
LEMMA ChainHasAll ==
  ASSUME NEW E, NEW len \in Counts, NEW n \in Counts, n <= len, NEW b, NEW h,
         \A i \in InBucket(E, n, b) : E[i].next = Linked(E, i - 1, b, h)
  PROVE  InBucket(E, n, b) \subseteq Chain(E, 1 .. len, Linked(E, n, b, h))
<1> USE CapacityAssumption DEF Counts, Slots
<1> DEFINE B == InBucket(E, n, b)
<1>1. B \in SUBSET Slots /\ B \subseteq 1 .. len
  BY DEF InBucket
<1> SUFFICES ASSUME NEW S \in SUBSET (1 .. len), NEW i0 \in B,
                    Follows(E, 1 .. len, Linked(E, n, b, h), S),
                    i0 \notin S
             PROVE  FALSE
  BY <1>1 DEF Chain
<1> DEFINE out == B \ S
           j   == LatestOf(out)
<1>2. out \in SUBSET Slots /\ out # {}
  BY <1>1
<1> HIDE DEF j, out
<1>3. j \in out /\ \A i \in out : i <= j
  BY <1>2, FirstAndLast DEF j
<1>4. j \in B /\ j \notin S /\ j \in 1 .. len
  BY <1>1, <1>3 DEF out
<1> DEFINE later == {k \in B : k > j}
<1>5. CASE later = {}
  <2>1. \A i \in B : i <= j
    BY <1>1, <1>4, <1>5
  <2>2. LatestOf(B) \in B /\ \A i \in B : i <= LatestOf(B)
    BY <1>1, <1>4, FirstAndLast
  <2>3. LatestOf(B) = j
    BY <1>1, <1>4, <2>1, <2>2
  <2>4. Linked(E, n, b, h) = j
    BY <1>4, <2>3 DEF Linked
  <2> QED
    BY <1>4, <2>4 DEF Follows
<1>6. CASE later # {}
  <2>1. later \in SUBSET Slots
    BY <1>1
  <2>2. PICK k \in later : \A l \in later : k <= l
    BY <1>6, <2>1, FirstAndLast
  <2>3. k \in B /\ k > j /\ k \in S
    BY <1>1, <1>2, <1>3, <1>4, <2>1, <2>2 DEF out
  <2> DEFINE below == InBucket(E, k - 1, b)
  <2>4. below \in SUBSET Slots /\ j \in below
    BY <1>1, <1>4, <2>1, <2>3 DEF InBucket
  <2>5. \A i \in below : i <= j
    <3> SUFFICES ASSUME NEW i \in below, i > j PROVE FALSE
      BY <1>1, <1>4, <2>4
    <3>1. i \in later /\ i < k
      BY <1>1, <2>1, <2>3, <2>4 DEF InBucket
    <3> QED
      BY <2>1, <2>2, <3>1
  <2>6. LatestOf(below) \in below /\ \A i \in below : i <= LatestOf(below)
    BY <2>4, FirstAndLast
  <2>7. LatestOf(below) = j
    BY <2>4, <2>5, <2>6
  <2>8. E[k].next = j
    BY <2>3, <2>4, <2>7 DEF Linked
  <2> QED
    BY <1>4, <2>3, <2>8 DEF Follows
<1> QED
  BY <1>5, <1>6

(* Linked to an empty bucket they are the only ones. *)
LEMMA ChainHasOnly ==
  ASSUME NEW E, NEW len \in Counts, NEW n \in Counts, n <= len, NEW b,
         \A i \in InBucket(E, n, b) : E[i].next = Linked(E, i - 1, b, 0)
  PROVE  Chain(E, 1 .. len, Linked(E, n, b, 0)) \subseteq InBucket(E, n, b)
<1> USE CapacityAssumption DEF Counts, Slots
<1> DEFINE B == InBucket(E, n, b)
<1>1. B \in SUBSET Slots /\ B \subseteq 1 .. len
  BY DEF InBucket
<1>2. ASSUME NEW m, NEW P, Linked(E, m, b, 0) \in 1 .. len, InBucket(E, m, b) \subseteq P
      PROVE  Linked(E, m, b, 0) \in P
  <2>1. InBucket(E, m, b) # {}
    BY <1>2 DEF Linked
  <2>2. InBucket(E, m, b) \in SUBSET Slots
    BY DEF InBucket
  <2>3. LatestOf(InBucket(E, m, b)) \in InBucket(E, m, b)
    BY <2>1, <2>2, FirstAndLast
  <2> QED
    BY <1>2, <2>1, <2>3 DEF Linked
<1>3. \A i \in B : InBucket(E, i - 1, b) \subseteq B
  BY <1>1 DEF InBucket
<1>4. Follows(E, 1 .. len, Linked(E, n, b, 0), B)
  BY <1>2, <1>3 DEF Follows
<1> QED
  BY <1>1, <1>4 DEF Chain

(* Then a lookup along the chain finds what a scan of the entries finds. *)
LEMMA LookupIsScan ==
  ASSUME NEW E, NEW len \in Counts, NEW n \in Counts, n <= len, NEW s,
         \A i \in Slots : i <= n => E[i].next = Linked(E, i - 1, BucketOf[E[i].session], 0)
  PROVE  KeyIn(E, {i \in Chain(E, 1 .. len, Linked(E, n, BucketOf[s], 0)) : E[i].session = s})
           = Scan(E, n, s)
<1> DEFINE b == BucketOf[s]
           C == Chain(E, 1 .. len, Linked(E, n, b, 0))
<1>1. \A i \in InBucket(E, n, b) : E[i].next = Linked(E, i - 1, b, 0)
  BY DEF InBucket
<1>2. InBucket(E, n, b) \subseteq C
  BY <1>1, ChainHasAll
<1>3. C \subseteq InBucket(E, n, b)
  BY <1>1, ChainHasOnly
<1>4. {i \in C : E[i].session = s} = {i \in Slots : i <= n /\ E[i].session = s}
  BY <1>2, <1>3 DEF InBucket
<1> QED
  BY <1>4 DEF Scan

-----------------------------------------------------------------------------
(* Types *)

(* What TypeOK says of a call in progress. *)
LEMMA BusyCall ==
  ASSUME TypeOK, NEW t \in Threads, Busy(t)
  PROVE  /\ call[t] \in AddCall
         /\ call[t].session \in Sessions /\ call[t].session \in Arrays
         /\ call[t].key \in PublicKeys
         /\ call[t].slot \in Slots /\ call[t].slot \in Nat
         /\ call[t].array \in Arrays /\ call[t].buckets \in Arrays
         /\ call[t].copied \in Counts
         /\ BucketOf[call[t].session] \in Buckets
BY CapacityAssumption, BucketAssumption
   DEF TypeOK, Busy, IdleCall, NoCall, AddCall, Slots, Arrays

LEMMA NotBusy ==
  ASSUME TypeOK, NEW t \in Threads, ~Busy(t)
  PROVE  call[t].session = NoSession
<1>1. call[t] \in IdleCall \cup AddCall /\ call[t].step = "idle"
  BY DEF TypeOK, Busy
<1>2. call[t] \notin AddCall
  BY <1>1 DEF AddCall
<1> QED
  BY <1>1, <1>2 DEF IdleCall, NoCall

(* What the two writing steps do to the entries. *)
LEMMA WriteKeyEffect ==
  ASSUME TypeOK, NEW t \in Threads, WriteKey(t)
  PROVE  \E a \in Arrays, c \in Slots :
           /\ a = call[t].array /\ c = call[t].slot
           /\ entries' = [entries EXCEPT ![a] = [entries[a] EXCEPT ![c] =
                            [entries[a][c] EXCEPT !.next = BucketHeld(t),
                                                  !.session = call[t].session]]]
<1>1. call[t].array \in Arrays /\ call[t].slot \in Slots
  BY BusyCall DEF WriteKey, Busy
<1> PICK a \in Arrays, c \in Slots : a = call[t].array /\ c = call[t].slot
  BY <1>1
<1>2. entries \in [Arrays -> [Slots -> Entry]] /\ entries[a][c] \in Entry
  BY DEF TypeOK
<1>3. entries' = [entries EXCEPT ![a][c] = [@ EXCEPT !.next = BucketHeld(t),
                                                     !.session = call[t].session]]
  BY DEF WriteKey
<1> QED
  BY <1>2, <1>3

LEMMA WriteValueEffect ==
  ASSUME TypeOK, NEW t \in Threads, WriteValue(t)
  PROVE  \E a \in Arrays, c \in Slots :
           /\ a = call[t].array /\ c = call[t].slot
           /\ entries' = [entries EXCEPT ![a] = [entries[a] EXCEPT ![c] =
                            [entries[a][c] EXCEPT !.key = call[t].key]]]
<1>1. call[t].array \in Arrays /\ call[t].slot \in Slots
  BY BusyCall DEF WriteValue, Busy
<1> PICK a \in Arrays, c \in Slots : a = call[t].array /\ c = call[t].slot
  BY <1>1
<1>2. entries \in [Arrays -> [Slots -> Entry]] /\ entries[a][c] \in Entry
  BY DEF TypeOK
<1>3. entries' = [entries EXCEPT ![a][c] = [@ EXCEPT !.key = call[t].key]]
  BY DEF WriteValue
<1> QED
  BY <1>2, <1>3

(* Only keys change when the value is written. *)
LEMMA WriteValueKeeps ==
  ASSUME TypeOK, NEW t \in Threads, WriteValue(t)
  PROVE  \A a \in Arrays, i \in Slots : /\ entries'[a][i].session = entries[a][i].session
                                       /\ entries'[a][i].next = entries[a][i].next
<1> PICK a0 \in Arrays, c \in Slots :
      entries' = [entries EXCEPT ![a0] = [entries[a0] EXCEPT ![c] =
                    [entries[a0][c] EXCEPT !.key = call[t].key]]]
  BY WriteValueEffect
<1>1. entries \in [Arrays -> [Slots -> Entry]] /\ entries[a0][c] \in Entry
  BY DEF TypeOK
<1>2. LET e == [entries[a0][c] EXCEPT !.key = call[t].key]
      IN e.session = entries[a0][c].session /\ e.next = entries[a0][c].next
  BY <1>1 DEF Entry
<1>3. entries'[a0][c].session = entries[a0][c].session
      /\ entries'[a0][c].next = entries[a0][c].next
  BY <1>1, <1>2
<1>4. \A a \in Arrays, i \in Slots : ~(a = a0 /\ i = c) => entries'[a][i] = entries[a][i]
  BY <1>1
<1> QED
  BY <1>3, <1>4

(* The steps in which a call may fail change no other call. *)
LEMMA CallSteps ==
  ASSUME TypeOK, NEW t \in Threads, GrowCopy(t) \/ PublishCount(t)
  PROVE  /\ Busy(t) /\ call[t].step \in {"grow", "publish"}
         /\ Busy(t)' => /\ call'[t].session = call[t].session
                        /\ call'[t].slot = call[t].slot
                        /\ call'[t].key = call[t].key
         /\ \A u \in Threads : u # t => call'[u] = call[u]
<1>1. call[t] \in AddCall
  BY BusyCall DEF GrowCopy, PublishCount, Busy
<1>2. call \in [Threads -> IdleCall \cup AddCall]
  BY DEF TypeOK
<1>3. CASE call' = [call EXCEPT ![t] = NoCall]
  BY <1>2, <1>3 DEF NoCall, Busy, GrowCopy, PublishCount
<1>4. CASE call' = [call EXCEPT ![t].step = "relink", ![t].copied = count]
  BY <1>1, <1>2, <1>4 DEF AddCall, Busy, GrowCopy, PublishCount
<1>5. CASE call' = [call EXCEPT ![t].step = "key", ![t].array = array]
  BY <1>1, <1>2, <1>5 DEF AddCall, Busy, GrowCopy, PublishCount
<1> QED
  BY <1>3, <1>4, <1>5 DEF GrowCopy, PublishCount, Throws

(* The variables have the types of TypeOK, whatever the interleaving. *)
THEOREM Typing == Spec => []TypeOK
<1> USE CapacityAssumption, NullAssumption
<1>1. NoEntry \in Entry /\ NoArrays \in [Arrays -> [Slots -> Entry]]
      /\ FirstArrays \in [Arrays -> Counts] /\ NoBuckets \in [Arrays -> [Buckets -> Counts]]
      /\ NoSession \in Arrays
  BY DEF NoEntry, Entry, Arrays, NoArrays, NoEntries, FirstArrays, NoBuckets, NoHeads,
         Counts, Slots
<1>2. Init => TypeOK
  BY <1>1 DEF Init, TypeOK, IdleCall, Counts
<1>3. TypeOK /\ [Next]_vars => TypeOK'
  <2> SUFFICES ASSUME TypeOK, [Next]_vars PROVE TypeOK'
    OBVIOUS
  <2>1. ASSUME NEW t \in Threads, NEW s \in Sessions, NEW k \in PublicKeys, BeginAdd(t, s, k)
        PROVE  TypeOK'
    <3>1. drawn' \in SUBSET Sessions /\ overlapped' \in SUBSET Threads /\ serial' \in BOOLEAN
      BY <2>1 DEF BeginAdd, TypeOK
    <3>2. call' \in [Threads -> IdleCall \cup AddCall]
      BY <2>1 DEF BeginAdd, TypeOK, AddCall, Slots, Counts
    <3> QED
      BY <2>1, <3>1, <3>2 DEF BeginAdd, TypeOK, dictionary
  <2>2. ASSUME NEW t \in Threads, PickSlot(t) PROVE TypeOK'
    <3>1. call[t] \in AddCall
      BY <2>2, BusyCall DEF PickSlot, Busy
    <3>2. NextSlot \in Slots
      BY <2>2 DEF PickSlot, NextSlot, TypeOK, Counts, Slots
    <3>3. call' \in [Threads -> IdleCall \cup AddCall]
      BY <2>2, <3>1, <3>2 DEF PickSlot, TypeOK, AddCall
    <3> QED
      BY <2>2, <3>3 DEF PickSlot, TypeOK, dictionary
  <2>3. ASSUME NEW t \in Threads, GrowCopy(t) PROVE TypeOK'
    <3>1. call[t] \in AddCall /\ call[t].session \in Arrays
      BY <2>3, BusyCall DEF GrowCopy, Busy
    <3>2. call' \in [Threads -> IdleCall \cup AddCall]
      <4>1. [call[t] EXCEPT !.step = "relink", !.copied = count] \in AddCall
        BY <3>1 DEF TypeOK, AddCall
      <4>2. NoCall \in IdleCall
        BY DEF IdleCall
      <4> QED
        BY <2>3, <4>1, <4>2 DEF GrowCopy, Throws, TypeOK
    <3>3. CASE UNCHANGED <<entries, length, heads, buckets>>
      BY <2>3, <3>2, <3>3 DEF GrowCopy, TypeOK
    <3>4. CASE ~UNCHANGED <<entries, length, heads, buckets>>
      <4> PICK a \in Arrays : a = call[t].session
        BY <3>1
      <4>1. /\ entries' = [entries EXCEPT ![a] =
                             [i \in Slots |-> IF i <= count THEN entries[array][i] ELSE NoEntry]]
            /\ length' = [length EXCEPT ![a] = Expand[count]]
            /\ heads' = [heads EXCEPT ![a] = NoHeads]
            /\ buckets' = a
        BY <2>3, <3>4 DEF GrowCopy
      <4>2. [i \in Slots |-> IF i <= count THEN entries[array][i] ELSE NoEntry] \in [Slots -> Entry]
        BY <1>1 DEF TypeOK
      <4>3. Expand[count] \in Counts /\ NoHeads \in [Buckets -> Counts]
        BY ExpandAssumption DEF TypeOK, NoHeads, Counts
      <4>4. entries' \in [Arrays -> [Slots -> Entry]] /\ length' \in [Arrays -> Counts]
            /\ heads' \in [Arrays -> [Buckets -> Counts]]
        BY <4>1, <4>2, <4>3 DEF TypeOK
      <4> QED
        BY <2>3, <3>2, <4>1, <4>4 DEF GrowCopy, TypeOK
    <3> QED
      BY <3>3, <3>4
  <2>4. ASSUME NEW t \in Threads, GrowPublish(t) PROVE TypeOK'
    <3>1. call[t] \in AddCall /\ call[t].session \in Arrays /\ call[t].copied \in Counts
      BY <2>4, BusyCall DEF GrowPublish, Busy
    <3> PICK a \in Arrays, n \in Counts : a = call[t].session /\ n = call[t].copied
      BY <3>1
    <3> DEFINE E == entries[a]
    <3>2. E \in [Slots -> Entry] /\ \A i \in Slots : BucketOf[E[i].session] \in Buckets
      BY BucketAssumption DEF TypeOK, Entry, Arrays
    <3>3. \A b \in Buckets : heads[buckets][b] \in Counts
      BY DEF TypeOK
    <3>4. ASSUME NEW i \in Slots PROVE Relinked(E, n, i) \in Counts
      <4>1. E[i].next \in Counts
        BY <3>2 DEF Entry
      <4> QED
        BY <3>2, <3>3, <4>1, LinkedType DEF Relinked
    <3>5. ASSUME NEW b \in Buckets PROVE Linked(E, n, b, heads[buckets][b]) \in Counts
      BY <3>3, LinkedType
    <3>6. [i \in Slots |-> [E[i] EXCEPT !.next = Relinked(E, n, i)]] \in [Slots -> Entry]
      BY <3>2, <3>4 DEF Entry
    <3>7. entries' \in [Arrays -> [Slots -> Entry]]
      BY <2>4, <3>6 DEF GrowPublish, TypeOK
    <3>8. heads' \in [Arrays -> [Buckets -> Counts]]
      BY <2>4, <3>5 DEF GrowPublish, TypeOK
    <3>9. call' \in [Threads -> IdleCall \cup AddCall]
      BY <2>4, <3>1 DEF GrowPublish, TypeOK, AddCall
    <3> QED
      BY <2>4, <3>7, <3>8, <3>9 DEF GrowPublish, TypeOK
  <2>5. ASSUME NEW t \in Threads, PublishCount(t) PROVE TypeOK'
    <3>1. call[t] \in AddCall /\ call[t].slot \in Slots
      BY <2>5, BusyCall DEF PublishCount, Busy
    <3>2. count' \in Counts
      BY <2>5, <3>1 DEF PublishCount, Slots, Counts
    <3>3. call' \in [Threads -> IdleCall \cup AddCall]
      <4>1. [call[t] EXCEPT !.step = "key", !.array = array] \in AddCall
        BY <3>1 DEF TypeOK, AddCall
      <4>2. NoCall \in IdleCall
        BY DEF IdleCall
      <4> QED
        BY <2>5, <4>1, <4>2 DEF PublishCount, Throws, TypeOK
    <3> QED
      BY <2>5, <3>2, <3>3 DEF PublishCount, TypeOK
  <2>6. ASSUME NEW t \in Threads, WriteKey(t) PROVE TypeOK'
    <3>1. call[t] \in AddCall /\ call[t].slot \in Slots /\ call[t].session \in Arrays
          /\ BucketHeld(t) \in Counts
      BY <2>6, BusyCall DEF WriteKey, Busy, BucketHeld, TypeOK
    <3>2. entries' \in [Arrays -> [Slots -> Entry]]
      <4> PICK a \in Arrays, c \in Slots :
            entries' = [entries EXCEPT ![a] = [entries[a] EXCEPT ![c] =
                          [entries[a][c] EXCEPT !.next = BucketHeld(t), !.session = call[t].session]]]
        BY <2>6, WriteKeyEffect
      <4>1. entries[a][c] \in Entry
        BY DEF TypeOK
      <4>2. [entries[a][c] EXCEPT !.next = BucketHeld(t), !.session = call[t].session] \in Entry
        BY <3>1, <4>1 DEF Entry
      <4> QED
        BY <4>2 DEF TypeOK
    <3>3. call' \in [Threads -> IdleCall \cup AddCall]
      BY <2>6, <3>1 DEF WriteKey, TypeOK, AddCall
    <3> QED
      BY <2>6, <3>2, <3>3 DEF WriteKey, TypeOK
  <2>7. ASSUME NEW t \in Threads, WriteValue(t) PROVE TypeOK'
    <3>1. call[t] \in AddCall /\ call[t].slot \in Counts /\ call[t].key \in PublicKeys
      BY <2>7, BusyCall DEF WriteValue, Busy, Slots, Counts
    <3>2. entries' \in [Arrays -> [Slots -> Entry]]
      <4> PICK a \in Arrays, c \in Slots :
            entries' = [entries EXCEPT ![a] = [entries[a] EXCEPT ![c] =
                          [entries[a][c] EXCEPT !.key = call[t].key]]]
        BY <2>7, WriteValueEffect
      <4>1. entries[a][c] \in Entry
        BY DEF TypeOK
      <4>2. [entries[a][c] EXCEPT !.key = call[t].key] \in Entry
        BY <3>1, <4>1 DEF Entry
      <4> QED
        BY <4>2 DEF TypeOK
    <3>3. heads' \in [Arrays -> [Buckets -> Counts]]
      BY <2>7, <3>1 DEF WriteValue, TypeOK
    <3>4. Promised(t) \in Promise
      BY <3>1 DEF Promised, Promise, AddCall
    <3>5. call' \in [Threads -> IdleCall \cup AddCall]
      BY <2>7 DEF WriteValue, TypeOK, IdleCall
    <3> QED
      BY <2>7, <3>2, <3>3, <3>4, <3>5 DEF WriteValue, TypeOK
  <2>8. CASE Restart
    BY <2>8, <1>1 DEF Restart, TypeOK, IdleCall, Counts
  <2>9. CASE UNCHANGED vars
    BY <2>9 DEF vars, dictionary, TypeOK
  <2> QED
    BY <2>1, <2>2, <2>3, <2>4, <2>5, <2>6, <2>7, <2>8, <2>9 DEF Next, CreateSession
<1> QED
  BY <1>2, <1>3, PTL DEF Spec

-----------------------------------------------------------------------------
(* Sessions and slots *)

(* A session belongs to one call and to one slot: the generator repeats    *)
(* none, and only the call that drew it writes it, into the call's slot.   *)
OneOwner ==
  /\ \A t \in Threads : Busy(t) => call[t].session \in drawn
  /\ \A a \in Arrays, i \in Slots : entries[a][i].session \in drawn \cup {NoSession}
  /\ \A t, u \in Threads :
       t # u /\ Busy(t) /\ Busy(u) => call[t].session # call[u].session
  /\ \A a, b \in Arrays, i, j \in Slots :
       entries[a][i].session = entries[b][j].session /\ entries[a][i].session # NoSession
         => i = j
  /\ \A t \in Threads, a \in Arrays, i \in Slots :
       Busy(t) /\ entries[a][i].session = call[t].session =>
         call[t].step = "value" /\ i = call[t].slot
  /\ \A r \in returned : /\ r.session \in drawn
                         /\ \A t \in Threads : Busy(t) => r.session # call[t].session

(* It stays so in a step that brings no session to a slot that did not     *)
(* have it in some array, and no session to a call.                        *)
LEMMA NothingNew ==
  ASSUME TypeOK, OneOwner, drawn' = drawn,
         \A a \in Arrays, i \in Slots :
           \/ entries'[a][i].session = NoSession
           \/ \E b \in Arrays : entries'[a][i].session = entries[b][i].session,
         \A t \in Threads : Busy(t)' =>
           /\ Busy(t) /\ call'[t].session = call[t].session
           /\ call[t].step = "value" => call'[t].step = "value" /\ call'[t].slot = call[t].slot,
         \A r \in returned' : \/ r \in returned
                              \/ /\ r.session \in drawn
                                 /\ \A t \in Threads : Busy(t)' => r.session # call[t].session
  PROVE  OneOwner'
<1>1. /\ \A t \in Threads : Busy(t)' => call'[t].session \in drawn'
      /\ \A t, u \in Threads :
           t # u /\ Busy(t)' /\ Busy(u)' => call'[t].session # call'[u].session
  BY DEF OneOwner
<1>2. \A a \in Arrays, i \in Slots : entries'[a][i].session \in drawn' \cup {NoSession}
  BY DEF OneOwner
<1>3. \A a, b \in Arrays, i, j \in Slots :
        entries'[a][i].session = entries'[b][j].session /\ entries'[a][i].session # NoSession
          => i = j
  BY DEF OneOwner
<1>4. \A t \in Threads, a \in Arrays, i \in Slots :
        Busy(t)' /\ entries'[a][i].session = call'[t].session =>
          call'[t].step = "value" /\ i = call'[t].slot
  <2> SUFFICES ASSUME NEW t \in Threads, NEW a \in Arrays, NEW i \in Slots,
                      Busy(t)', entries'[a][i].session = call'[t].session
               PROVE  call'[t].step = "value" /\ i = call'[t].slot
    OBVIOUS
  <2>1. call[t].session \in drawn /\ Busy(t)
    BY DEF OneOwner
  <2>2. CASE entries'[a][i].session = NoSession
    <3>1. NoSession \notin drawn
      BY NullAssumption DEF TypeOK
    <3> QED
      BY <2>1, <2>2, <3>1
  <2>3. CASE \E b \in Arrays : entries'[a][i].session = entries[b][i].session
    <3>1. PICK b \in Arrays : entries[b][i].session = call[t].session
      BY <2>3
    <3>2. call[t].step = "value" /\ i = call[t].slot
      BY <2>1, <3>1 DEF OneOwner
    <3> QED
      BY <3>2
  <2> QED
    BY <2>2, <2>3
<1>5. \A r \in returned' : /\ r.session \in drawn'
                           /\ \A t \in Threads : Busy(t)' => r.session # call'[t].session
  BY DEF OneOwner
<1> QED
  BY <1>1, <1>2, <1>3, <1>4, <1>5 DEF OneOwner

LEMMA BeginAddOwner ==
  ASSUME TypeOK, OneOwner, NEW t \in Threads, NEW s \in Sessions, NEW k \in PublicKeys,
         BeginAdd(t, s, k)
  PROVE  OneOwner'
<1>1. /\ call'[t].session = s /\ call'[t].step = "count" /\ s \notin drawn
      /\ \A u \in Threads : u # t => call'[u] = call[u]
      /\ drawn' = drawn \cup {s} /\ entries' = entries /\ returned' = returned
  BY DEF BeginAdd, TypeOK, dictionary
<1>2. \A u \in Threads : u # t => (Busy(u)' <=> Busy(u))
  BY <1>1 DEF Busy
<1>3. s # NoSession
  BY NullAssumption
<1>4. \A u, v \in Threads :
        u # v /\ Busy(u)' /\ Busy(v)' => call'[u].session # call'[v].session
  BY <1>1, <1>2 DEF OneOwner
<1>5. \A u \in Threads, a \in Arrays, i \in Slots :
        Busy(u)' /\ entries'[a][i].session = call'[u].session =>
          call'[u].step = "value" /\ i = call'[u].slot
  BY <1>1, <1>2, <1>3 DEF OneOwner
<1>6. \A u \in Threads : Busy(u)' => call'[u].session \in drawn'
  BY <1>1, <1>2 DEF OneOwner
<1>7. \A r \in returned' : /\ r.session \in drawn'
                           /\ \A u \in Threads : Busy(u)' => r.session # call'[u].session
  BY <1>1, <1>2 DEF OneOwner
<1>8. /\ \A a \in Arrays, i \in Slots : entries'[a][i].session \in drawn' \cup {NoSession}
      /\ \A a, b \in Arrays, i, j \in Slots :
           entries'[a][i].session = entries'[b][j].session /\ entries'[a][i].session # NoSession
             => i = j
  BY <1>1 DEF OneOwner
<1> QED
  BY <1>4, <1>5, <1>6, <1>7, <1>8 DEF OneOwner

LEMMA WriteKeyOwner ==
  ASSUME TypeOK, OneOwner, NEW t \in Threads, WriteKey(t)
  PROVE  OneOwner'
<1> PICK a0 \in Arrays, c \in Slots :
      /\ a0 = call[t].array /\ c = call[t].slot
      /\ entries' = [entries EXCEPT ![a0] = [entries[a0] EXCEPT ![c] =
                       [entries[a0][c] EXCEPT !.next = BucketHeld(t),
                                              !.session = call[t].session]]]
  BY WriteKeyEffect
<1>1. Busy(t) /\ call[t].step = "key" /\ call[t].session \in drawn
  BY DEF WriteKey, Busy, OneOwner
<1>2. /\ call'[t].step = "value" /\ call'[t].slot = c /\ call'[t].session = call[t].session
      /\ \A u \in Threads : u # t => call'[u] = call[u]
      /\ drawn' = drawn /\ returned' = returned
  BY DEF WriteKey, TypeOK
<1>3. entries'[a0][c].session = call[t].session
  BY DEF TypeOK, Entry
<1>4. \A a \in Arrays, i \in Slots :
        ~(a = a0 /\ i = c) => entries'[a][i] = entries[a][i]
  BY DEF TypeOK
<1>5. \A u \in Threads : (Busy(u)' <=> Busy(u)) /\ call'[u].session = call[u].session
                         /\ call'[u].slot = call[u].slot
  BY <1>1, <1>2 DEF Busy
<1>6. \A a \in Arrays, i \in Slots : entries[a][i].session # call[t].session
  BY <1>1 DEF OneOwner
<1>7. /\ \A a \in Arrays, i \in Slots : entries'[a][i].session \in drawn' \cup {NoSession}
      /\ \A a, b \in Arrays, i, j \in Slots :
           entries'[a][i].session = entries'[b][j].session /\ entries'[a][i].session # NoSession
             => i = j
  BY <1>1, <1>2, <1>3, <1>4, <1>6 DEF OneOwner
<1>8. ASSUME NEW u \in Threads, NEW a \in Arrays, NEW i \in Slots,
             Busy(u)', entries'[a][i].session = call'[u].session
      PROVE  call'[u].step = "value" /\ i = call'[u].slot
  <2>1. CASE a = a0 /\ i = c
    <3>1. u = t
      BY <1>1, <1>3, <1>5, <1>8, <2>1 DEF OneOwner
    <3> QED
      BY <1>2, <2>1, <3>1
  <2>2. CASE ~(a = a0 /\ i = c)
    <3>1. u # t
      BY <1>4, <1>5, <1>6, <1>8, <2>2
    <3> QED
      BY <1>2, <1>4, <1>5, <1>8, <2>2, <3>1 DEF OneOwner
  <2> QED
    BY <2>1, <2>2
<1> QED
  BY <1>2, <1>5, <1>7, <1>8 DEF OneOwner

(* It holds in every reachable state. *)
LEMMA Owners == Spec => []OneOwner
<1>1. Init => OneOwner
  BY NullAssumption
     DEF Init, OneOwner, Busy, NoCall, NoArrays, NoEntries, NoEntry, Arrays
<1>2. TypeOK /\ TypeOK' /\ OneOwner /\ [Next]_vars => OneOwner'
  <2> SUFFICES ASSUME TypeOK, TypeOK', OneOwner, [Next]_vars PROVE OneOwner'
    OBVIOUS
  <2>1. CASE UNCHANGED vars
    BY <2>1 DEF vars, dictionary, OneOwner, Busy
  <2>2. CASE Restart
    <3>1. /\ \A t \in Threads : ~Busy(t)'
          /\ \A a \in Arrays, i \in Slots : entries'[a][i].session = NoSession
          /\ returned' = {}
      BY <2>2 DEF Restart, Busy, NoCall, NoArrays, NoEntries, NoEntry
    <3> QED
      BY <3>1 DEF OneOwner
  <2>3. ASSUME NEW t \in Threads, CreateSession(t) PROVE OneOwner'
    <3>1. CASE \E s \in Sessions, k \in PublicKeys : BeginAdd(t, s, k)
      BY <3>1, BeginAddOwner
    <3>2. CASE PickSlot(t)
      BY <3>2, NothingNew DEF PickSlot, dictionary, TypeOK, Busy
    <3>3. CASE PublishCount(t)
      <4>1. /\ Busy(t) /\ call[t].step # "value"
            /\ Busy(t)' => call'[t].session = call[t].session
            /\ \A u \in Threads : u # t => call'[u] = call[u]
        BY <3>3, CallSteps DEF PublishCount
      <4>2. \A u \in Threads : Busy(u)' =>
              /\ Busy(u) /\ call'[u].session = call[u].session
              /\ call[u].step = "value" =>
                   call'[u].step = "value" /\ call'[u].slot = call[u].slot
        BY <4>1 DEF Busy
      <4> QED
        BY <3>3, <4>2, NothingNew DEF PublishCount
    <3>4. CASE GrowCopy(t)
      <4>1. \A a \in Arrays, i \in Slots :
              \/ entries'[a][i].session = NoSession
              \/ \E b \in Arrays : entries'[a][i].session = entries[b][i].session
        BY <3>4 DEF GrowCopy, TypeOK, NoEntry
      <4>2. \A u \in Threads : Busy(u)' =>
              /\ Busy(u) /\ call'[u].session = call[u].session
              /\ call[u].step = "value" =>
                   call'[u].step = "value" /\ call'[u].slot = call[u].slot
        <5>1. /\ Busy(t) /\ call[t].step # "value"
              /\ Busy(t)' => call'[t].session = call[t].session
              /\ \A u \in Threads : u # t => call'[u] = call[u]
          BY <3>4, CallSteps
        <5> QED
          BY <5>1 DEF Busy
      <4> QED
        BY <3>4, <4>1, <4>2, NothingNew DEF GrowCopy
    <3>5. CASE GrowPublish(t)
      <4>1. \A a \in Arrays, i \in Slots : entries'[a][i].session = entries[a][i].session
        <5>1. \A a \in Arrays, i \in Slots : entries[a][i] \in Entry
          BY DEF TypeOK
        <5> QED
          BY <3>5, <5>1 DEF GrowPublish, TypeOK, Entry
      <4>2. \A u \in Threads : Busy(u)' =>
              /\ Busy(u) /\ call'[u].session = call[u].session
              /\ call[u].step = "value" =>
                   call'[u].step = "value" /\ call'[u].slot = call[u].slot
        BY <3>5 DEF GrowPublish, TypeOK, Busy
      <4> QED
        BY <3>5, <4>1, <4>2, NothingNew DEF GrowPublish
    <3>6. CASE WriteKey(t)
      BY <3>6, WriteKeyOwner
    <3>7. CASE WriteValue(t)
      <4>1. \A a \in Arrays, i \in Slots : entries'[a][i].session = entries[a][i].session
        <5>1. \A a \in Arrays, i \in Slots : entries[a][i] \in Entry
          BY DEF TypeOK
        <5> QED
          BY <3>7, WriteValueKeeps
      <4>2. /\ Busy(t) /\ ~Busy(t)'
            /\ \A u \in Threads : u # t => call'[u] = call[u]
        BY <3>7 DEF WriteValue, TypeOK, Busy, NoCall
      <4>3. \A u \in Threads : Busy(u)' =>
              /\ Busy(u) /\ call'[u] = call[u] /\ call[u].session # call[t].session
        BY <4>2 DEF Busy, OneOwner
      <4>4. \A r \in returned' : \/ r \in returned
                                 \/ /\ r.session \in drawn
                                    /\ \A u \in Threads : Busy(u)' => r.session # call[u].session
        BY <3>7, <4>2, <4>3 DEF WriteValue, Promised, OneOwner
      <4> QED
        BY <3>7, <4>1, <4>3, <4>4, NothingNew DEF WriteValue
    <3> QED
      BY <2>3, <3>1, <3>2, <3>3, <3>4, <3>5, <3>6, <3>7 DEF CreateSession
  <2> QED
    BY <2>1, <2>2, <2>3 DEF Next
<1> QED
  BY <1>1, <1>2, Typing, PTL DEF Spec

-----------------------------------------------------------------------------
(* What races leave alone *)

Picked(t) == call[t].step \in {"grow", "relink", "publish", "key", "value"}

(* The arrays of entries that are in use or may still come into use. *)
Live == {array} \cup {call[t].session : t \in {u \in Threads : call[u].step = "relink"}}

(* A call that has overlapped none so far is the only one, and once it has *)
(* written the entry's key nothing else has been written to the entry.     *)
Undisturbed ==
  \A t \in Threads : Busy(t) /\ t \notin overlapped =>
    /\ \A u \in Threads : Busy(u) => u = t
    /\ call[t].step \in {"key", "value"} => count = call[t].slot /\ call[t].array = array
    /\ call[t].step = "value" => entries[array][call[t].slot].session = call[t].session

(* The entry of such a call, once it has returned, lies below the count    *)
(* and below every slot a call can still write to, in every live array.    *)
EntriesStay ==
  \A r \in Uncontended :
    /\ r.slot <= count
    /\ \A a \in Live : entries[a][r.slot].session = r.session /\ entries[a][r.slot].key = r.key
    /\ \A t \in Threads : Picked(t) => r.slot < call[t].slot

(* An array that is not in use yet has room for more than was copied.      *)
Copied ==
  \A t \in Threads : call[t].step = "relink" =>
    /\ call[t].copied < length[call[t].session]
    /\ \A r \in Uncontended : r.slot <= call[t].copied

IInv == TypeOK /\ OneOwner /\ Undisturbed /\ EntriesStay /\ Copied

(* A call begins: it overlaps none only if none is in progress, and it has *)
(* no slot yet.                                                            *)
LEMMA BeginAddStays ==
  ASSUME IInv, NEW t \in Threads, NEW s \in Sessions, NEW k \in PublicKeys, BeginAdd(t, s, k)
  PROVE  Undisturbed' /\ EntriesStay' /\ Copied'
<1> USE DEF IInv
<1>1. /\ call'[t].step = "count" /\ ~Busy(t)
      /\ \A u \in Threads : u # t => call'[u] = call[u]
      /\ UNCHANGED <<entries, length, array, count, returned>>
  BY DEF BeginAdd, TypeOK, dictionary
<1>2. ASSUME NEW u \in Threads, Busy(u)', u \notin overlapped'
      PROVE  u = t /\ \A v \in Threads : Busy(v)' => v = t
  <2>1. \A v \in Threads : ~Busy(v)
    BY <1>1, <1>2 DEF BeginAdd, Busy
  <2> QED
    BY <1>1, <1>2, <2>1 DEF Busy
<1>3. Undisturbed'
  BY <1>1, <1>2 DEF Undisturbed
<1>4. \A u \in Threads : (Picked(u)' <=> Picked(u) /\ u # t)
                         /\ (call'[u].step = "relink" <=> call[u].step = "relink" /\ u # t)
  BY <1>1 DEF Picked, Busy
<1>5. Live' = Live
  BY <1>1, <1>4 DEF Live, Busy
<1> QED
  BY <1>1, <1>3, <1>4, <1>5 DEF EntriesStay, Copied, Uncontended

(* The slot picked lies above the count. *)
LEMMA PickSlotStays ==
  ASSUME IInv, NEW t \in Threads, PickSlot(t)
  PROVE  Undisturbed' /\ EntriesStay' /\ Copied'
<1> USE DEF IInv
<1>1. /\ call'[t].step \in {"grow", "publish"} /\ call'[t].slot = count + 1
      /\ call[t].step = "count" /\ Busy(t)
      /\ \A u \in Threads : u # t => call'[u] = call[u]
      /\ UNCHANGED <<entries, length, array, count, returned, overlapped>>
  BY DEF PickSlot, NextSlot, TypeOK, dictionary, Busy
<1>2. \A u \in Threads : Busy(u)' <=> Busy(u)
  BY <1>1 DEF Busy
<1>3. Undisturbed'
  BY <1>1, <1>2 DEF Undisturbed
<1>4. \A u \in Threads : call'[u].step = "relink" <=> call[u].step = "relink" /\ u # t
  BY <1>1
<1>5. Live' = Live
  BY <1>1, <1>4 DEF Live
<1>6. ASSUME NEW r \in Uncontended, NEW u \in Threads, Picked(u)'
      PROVE  r.slot < call'[u].slot
  <2>1. r.slot \in Nat /\ count \in Nat
    BY CapacityAssumption DEF Uncontended, TypeOK, Promise, Slots, Counts
  <2>2. r.slot <= count
    BY DEF EntriesStay
  <2>3. CASE u = t
    BY <1>1, <2>1, <2>2, <2>3
  <2>4. CASE u # t
    BY <1>1, <1>6, <2>4 DEF EntriesStay, Picked
  <2> QED
    BY <2>3, <2>4
<1> QED
  BY <1>1, <1>3, <1>4, <1>5, <1>6 DEF EntriesStay, Copied, Uncontended

(* What a longer array takes over reaches up to the count. *)
LEMMA GrowCopyStays ==
  ASSUME IInv, TypeOK', NEW t \in Threads, GrowCopy(t)
  PROVE  Undisturbed' /\ EntriesStay' /\ Copied'
<1> USE DEF IInv
<1>1. /\ Busy(t) /\ call[t].step = "grow"
      /\ \A u \in Threads : u # t => call'[u] = call[u]
      /\ UNCHANGED <<array, count, returned, overlapped>>
  BY CallSteps DEF GrowCopy
<1>2. \A u \in Threads : Busy(u)' => Busy(u)
  BY <1>1 DEF Busy
<1> PICK a0 \in Arrays : a0 = call[t].session
  BY <1>1, BusyCall
<1>3. \A u \in Threads : u # t /\ Busy(u) => call[u].session # a0
  BY <1>1 DEF OneOwner
<1>4. CASE Throws(t) /\ UNCHANGED <<entries, length, heads, buckets>>
  <2>1. call'[t] = NoCall
    BY <1>4 DEF Throws, TypeOK
  <2>2. \A u \in Threads : /\ Busy(u)' <=> Busy(u) /\ u # t
                           /\ Picked(u)' <=> Picked(u) /\ u # t
                           /\ call'[u].step = "relink" <=> call[u].step = "relink" /\ u # t
    BY <1>1, <2>1 DEF Busy, NoCall, Picked
  <2>3. Live' = Live
    BY <1>1, <2>2 DEF Live
  <2>4. Undisturbed'
    BY <1>1, <1>4, <2>2 DEF Undisturbed
  <2> QED
    BY <1>1, <1>4, <2>2, <2>3, <2>4 DEF EntriesStay, Copied, Uncontended
<1>5. CASE count <= length[array]
  <2>1. /\ entries' = [entries EXCEPT ![a0] =
                         [i \in Slots |-> IF i <= count THEN entries[array][i] ELSE NoEntry]]
        /\ length' = [length EXCEPT ![a0] = Expand[count]]
        /\ call' = [call EXCEPT ![t].step = "relink", ![t].copied = count]
        /\ count < Capacity
    <3>1. ~(count > length[array])
      BY <1>5, CapacityAssumption DEF TypeOK, Counts
    <3> QED
      BY <3>1 DEF GrowCopy
  <2>2. /\ call'[t].step = "relink" /\ call'[t].copied = count
        /\ call'[t].session = a0 /\ call'[t].slot = call[t].slot
    <3>1. call[t] \in AddCall
      BY <1>1, BusyCall
    <3> QED
      BY <2>1, <3>1 DEF TypeOK, AddCall
  <2>3. \A i \in Slots : i <= count => entries'[a0][i] = entries[array][i]
    BY <2>1 DEF TypeOK
  <2>4. \A a \in Arrays : a # a0 => entries'[a] = entries[a] /\ length'[a] = length[a]
    BY <2>1 DEF TypeOK
  <2>5. \A u \in Threads : /\ Busy(u)' <=> Busy(u)
                           /\ Picked(u)' <=> Picked(u)
                           /\ call'[u].step = "relink" <=> call[u].step = "relink" \/ u = t
                           /\ call'[u].slot = call[u].slot /\ call'[u].session = call[u].session
    BY <1>1, <2>2 DEF Busy, Picked
  <2>6. Undisturbed'
    BY <1>1, <2>2, <2>5 DEF Undisturbed
  <2>7. ASSUME NEW r \in Uncontended
        PROVE  r.slot \in Slots /\ r.slot <= count
    BY DEF Uncontended, TypeOK, Promise, EntriesStay
  <2>8. Live' = Live \cup {a0} /\ array \in Live /\ Live \subseteq Arrays
    <3>1. \A u \in Threads : call[u].step = "relink" => call[u].session \in Arrays
      BY BusyCall DEF Busy
    <3>2. array \in Live /\ Live \subseteq Arrays
      BY <3>1 DEF Live, TypeOK
    <3>3. \A a : a \in Live' <=> a \in Live \/ a = a0
      BY <1>1, <2>2, <2>5 DEF Live
    <3> QED
      BY <3>2, <3>3
  <2>9. EntriesStay'
    <3> SUFFICES ASSUME NEW r \in Uncontended, NEW a \in Live'
                 PROVE  /\ entries'[a][r.slot].session = r.session
                        /\ entries'[a][r.slot].key = r.key
      BY <1>1, <2>5, <2>7 DEF EntriesStay, Uncontended
    <3>1. CASE a = a0
      BY <2>3, <2>7, <2>8, <3>1 DEF EntriesStay
    <3>2. CASE a # a0
      BY <2>4, <2>8, <3>2 DEF EntriesStay
    <3> QED
      BY <3>1, <3>2
  <2>10. Copied'
    <3>1. length'[a0] = Expand[count] /\ count < Expand[count]
      BY <2>1, ExpandAssumption DEF TypeOK, Counts
    <3>2. \A u \in Threads : u # t /\ call[u].step = "relink" =>
            call[u].session # a0 /\ call[u].session \in Arrays
      BY <1>3, BusyCall DEF Busy
    <3> SUFFICES ASSUME NEW u \in Threads, call'[u].step = "relink"
                 PROVE  /\ call'[u].copied < length'[call'[u].session]
                        /\ \A r \in Uncontended : r.slot <= call'[u].copied
      BY <1>1 DEF Copied, Uncontended
    <3>3. CASE u = t
      BY <2>2, <2>7, <3>1, <3>3
    <3>4. CASE u # t
      BY <1>1, <2>4, <3>2, <3>4 DEF Copied
    <3> QED
      BY <3>3, <3>4
  <2> QED
    BY <2>6, <2>9, <2>10
<1> QED
  BY <1>4, <1>5 DEF GrowCopy

(* Linking the copied entries changes nothing but their links. *)
LEMMA GrowPublishKeeps ==
  ASSUME TypeOK, NEW t \in Threads, GrowPublish(t)
  PROVE  \A a \in Arrays, i \in Slots : /\ entries'[a][i].session = entries[a][i].session
                                       /\ entries'[a][i].key = entries[a][i].key
<1>1. \A a \in Arrays, i \in Slots : entries[a][i] \in Entry
  BY DEF TypeOK
<1> QED
  BY <1>1 DEF GrowPublish, TypeOK, Entry

LEMMA GrowPublishStays ==
  ASSUME IInv, NEW t \in Threads, GrowPublish(t)
  PROVE  Undisturbed' /\ EntriesStay' /\ Copied'
<1> USE DEF IInv
<1>1. /\ Busy(t) /\ call[t].step = "relink" /\ array' = call[t].session
      /\ call'[t].step = "publish" /\ call'[t].slot = call[t].slot
      /\ call'[t].session = call[t].session
      /\ \A u \in Threads : u # t => call'[u] = call[u]
      /\ UNCHANGED <<length, count, returned, overlapped>>
  BY DEF GrowPublish, TypeOK, Busy
<1>2. \A u \in Threads : /\ Busy(u)' <=> Busy(u)
                         /\ Picked(u)' <=> Picked(u)
                         /\ call'[u].step = "relink" <=> call[u].step = "relink" /\ u # t
                         /\ call'[u].slot = call[u].slot /\ call'[u].session = call[u].session
  BY <1>1 DEF Busy, Picked
<1>3. Undisturbed'
  BY <1>1, <1>2 DEF Undisturbed
<1>4. Live' \subseteq Live /\ Live \subseteq Arrays
  <2>1. \A u \in Threads : call[u].step = "relink" => call[u].session \in Arrays
    BY BusyCall DEF Busy
  <2> QED
    BY <1>1, <1>2, <2>1 DEF Live, TypeOK
<1>5. EntriesStay'
  <2> SUFFICES ASSUME NEW r \in Uncontended, NEW a \in Live'
               PROVE  /\ entries'[a][r.slot].session = r.session
                      /\ entries'[a][r.slot].key = r.key
    BY <1>1, <1>2 DEF EntriesStay, Uncontended
  <2>1. r.slot \in Slots /\ a \in Live /\ a \in Arrays
    BY <1>4 DEF Uncontended, TypeOK, Promise
  <2> QED
    BY <2>1, GrowPublishKeeps DEF EntriesStay
<1> QED
  BY <1>1, <1>2, <1>3, <1>5 DEF Copied, Uncontended

(* The count a call publishes may be an old one, but none from before an   *)
(* uncontended call.                                                       *)
LEMMA PublishCountStays ==
  ASSUME IInv, NEW t \in Threads, PublishCount(t)
  PROVE  Undisturbed' /\ EntriesStay' /\ Copied'
<1> USE DEF IInv
<1>1. /\ Busy(t) /\ call[t].step = "publish" /\ count' = call[t].slot
      /\ call'[t].step # "relink" /\ (Picked(t)' => Busy(t)')
      /\ Busy(t)' => /\ call'[t].session = call[t].session
                     /\ call'[t].slot = call[t].slot
                     /\ call'[t].step = "key" /\ call'[t].array = array
      /\ \A u \in Threads : u # t => call'[u] = call[u]
      /\ UNCHANGED <<entries, length, array, returned, overlapped>>
  <2>1. call[t] \in AddCall /\ call \in [Threads -> IdleCall \cup AddCall]
    BY BusyCall DEF PublishCount, Busy, TypeOK
  <2>2. CASE call' = [call EXCEPT ![t] = NoCall]
    BY <2>1, <2>2, CallSteps DEF NoCall, Picked, Busy, PublishCount
  <2>3. CASE call' = [call EXCEPT ![t].step = "key", ![t].array = array]
    <3>1. call'[t].step = "key" /\ call'[t].array = array
      BY <2>1, <2>3 DEF AddCall
    <3> QED
      BY <3>1, CallSteps DEF Picked, Busy, PublishCount
  <2> QED
    BY <2>2, <2>3 DEF PublishCount, Throws
<1>2. \A u \in Threads : /\ Busy(u)' => Busy(u)
                         /\ Picked(u)' => Picked(u)
                         /\ call'[u].step = "relink" <=> call[u].step = "relink"
                         /\ Picked(u)' => call'[u].slot = call[u].slot
  BY <1>1 DEF Busy, Picked
<1>3. Undisturbed'
  BY <1>1, <1>2 DEF Undisturbed
<1>4. Live' = Live
  BY <1>1, <1>2 DEF Live
<1>5. ASSUME NEW r \in Uncontended PROVE r.slot <= count'
  <2>1. r.slot < call[t].slot
    BY <1>1 DEF EntriesStay, Picked
  <2>2. r.slot \in Nat /\ call[t].slot \in Nat
    BY <1>1, BusyCall, CapacityAssumption DEF Uncontended, TypeOK, Promise, Slots
  <2> QED
    BY <1>1, <2>1, <2>2
<1> QED
  BY <1>1, <1>2, <1>3, <1>4, <1>5 DEF EntriesStay, Copied, Uncontended

(* An entry is written above every entry that is settled. *)
LEMMA WriteKeyStays ==
  ASSUME IInv, NEW t \in Threads, WriteKey(t)
  PROVE  Undisturbed' /\ EntriesStay' /\ Copied'
<1> USE DEF IInv
<1> PICK a0 \in Arrays, c \in Slots :
      /\ a0 = call[t].array /\ c = call[t].slot
      /\ entries' = [entries EXCEPT ![a0] = [entries[a0] EXCEPT ![c] =
                       [entries[a0][c] EXCEPT !.next = BucketHeld(t),
                                              !.session = call[t].session]]]
  BY WriteKeyEffect
<1>1. /\ Busy(t) /\ call[t].step = "key"
      /\ call'[t].step = "value" /\ call'[t].slot = c /\ call'[t].session = call[t].session
      /\ call'[t].array = a0
      /\ \A u \in Threads : u # t => call'[u] = call[u]
      /\ UNCHANGED <<length, array, count, returned, overlapped>>
  BY DEF WriteKey, TypeOK, Busy
<1>2. entries'[a0][c].session = call[t].session
  BY DEF TypeOK, Entry
<1>3. \A a \in Arrays, i \in Slots : i # c => entries'[a][i] = entries[a][i]
  BY DEF TypeOK
<1>4. \A u \in Threads : /\ Busy(u)' <=> Busy(u)
                         /\ Picked(u)' <=> Picked(u)
                         /\ call'[u].step = "relink" <=> call[u].step = "relink"
                         /\ call'[u].slot = call[u].slot /\ call'[u].session = call[u].session
  BY <1>1 DEF Busy, Picked
<1>5. Undisturbed'
  <2> SUFFICES ASSUME NEW u \in Threads, Busy(u)', u \notin overlapped'
               PROVE  /\ \A v \in Threads : Busy(v)' => v = u
                      /\ call'[u].step \in {"key", "value"} =>
                           count' = call'[u].slot /\ call'[u].array = array'
                      /\ call'[u].step = "value" =>
                           entries'[array'][call'[u].slot].session = call'[u].session
    BY DEF Undisturbed
  <2>1. u = t /\ \A v \in Threads : Busy(v) => v = u
    BY <1>1, <1>4 DEF Undisturbed
  <2>2. count = c /\ a0 = array
    BY <1>1, <2>1 DEF Undisturbed
  <2> QED
    BY <1>1, <1>2, <1>4, <2>1, <2>2
<1>6. Live' = Live /\ Live \subseteq Arrays
  <2>1. \A u \in Threads : call[u].step = "relink" => call[u].session \in Arrays
    BY BusyCall DEF Busy
  <2>2. \A a : a \in Live' <=> a \in Live
    BY <1>1, <1>4 DEF Live
  <2> QED
    BY <2>1, <2>2 DEF Live, TypeOK
<1>7. ASSUME NEW r \in Uncontended PROVE r.slot \in Slots /\ r.slot # c
  <2>1. r.slot < c
    BY <1>1 DEF EntriesStay, Picked
  <2> QED
    BY <2>1 DEF Uncontended, TypeOK, Promise, Slots
<1> QED
  BY <1>1, <1>3, <1>4, <1>5, <1>6, <1>7 DEF EntriesStay, Copied, Uncontended

(* The call returns: if it was alone, nobody is left who could write to    *)
(* its entry.                                                              *)
LEMMA WriteValueStays ==
  ASSUME IInv, TypeOK', NEW t \in Threads, WriteValue(t)
  PROVE  Undisturbed' /\ EntriesStay' /\ Copied'
<1> USE DEF IInv
<1> PICK a0 \in Arrays, c \in Slots :
      /\ a0 = call[t].array /\ c = call[t].slot
      /\ entries' = [entries EXCEPT ![a0] = [entries[a0] EXCEPT ![c] =
                       [entries[a0][c] EXCEPT !.key = call[t].key]]]
  BY WriteValueEffect
<1>1. /\ Busy(t) /\ call[t].step = "value" /\ ~Busy(t)' /\ call'[t].step = "idle"
      /\ \A u \in Threads : u # t => call'[u] = call[u]
      /\ UNCHANGED <<length, array, count, overlapped>>
      /\ returned' = returned \cup {Promised(t)}
  BY DEF WriteValue, TypeOK, Busy, NoCall
<1>2. \A a \in Arrays, i \in Slots : i # c => entries'[a][i] = entries[a][i]
  BY DEF TypeOK
<1>3. \A u \in Threads : /\ Busy(u)' <=> Busy(u) /\ u # t
                         /\ Picked(u)' <=> Picked(u) /\ u # t
                         /\ call'[u].step = "relink" <=> call[u].step = "relink"
  BY <1>1 DEF Busy, Picked
<1>4. Undisturbed'
  BY <1>1, <1>3 DEF Undisturbed
<1>5. Live' = Live /\ Live \subseteq Arrays
  <2>1. \A u \in Threads : call[u].step = "relink" => call[u].session \in Arrays /\ u # t
    BY <1>1, BusyCall DEF Busy
  <2> QED
    BY <1>1, <1>3, <2>1 DEF Live, TypeOK
<1>6. CASE t \in overlapped
  <2>1. Uncontended' = Uncontended
    <3>1. ~Promised(t).alone
      BY <1>6 DEF Promised
    <3> QED
      BY <1>1, <3>1 DEF Uncontended
  <2>2. ASSUME NEW r \in Uncontended PROVE r.slot \in Slots /\ r.slot # c
    <3>1. r.slot < c
      BY <1>1 DEF EntriesStay, Picked
    <3> QED
      BY <3>1 DEF Uncontended, TypeOK, Promise, Slots
  <2> QED
    BY <1>1, <1>2, <1>3, <1>4, <1>5, <2>1, <2>2 DEF EntriesStay, Copied
<1>7. CASE t \notin overlapped
  <2>1. /\ \A u \in Threads : Busy(u) => u = t
        /\ count = c /\ a0 = array /\ entries[array][c].session = call[t].session
    BY <1>1, <1>7 DEF Undisturbed
  <2>2. \A u \in Threads : ~Busy(u)' /\ ~Picked(u)' /\ call'[u].step # "relink"
    BY <1>1, <1>3, <2>1 DEF Busy, Picked
  <2>3. Live' = {array}
    BY <1>1, <2>2 DEF Live
  <2>4. entries[a0][c] \in Entry
    BY DEF TypeOK
  <2>5. entries'[array][c].session = call[t].session /\ entries'[array][c].key = call[t].key
    BY <2>1, <2>4 DEF TypeOK, Entry
  <2>6. ASSUME NEW r \in Uncontended'
        PROVE  /\ r.slot <= count
               /\ entries'[array][r.slot].session = r.session
               /\ entries'[array][r.slot].key = r.key
    <3>1. CASE r \in Uncontended
      <4>1. r.slot < c /\ r.slot <= count /\ array \in Live
        BY <1>1, <3>1 DEF EntriesStay, Picked, Live
      <4>2. r.slot \in Slots /\ r.slot # c
        BY <3>1, <4>1 DEF Uncontended, TypeOK, Promise, Slots
      <4> QED
        BY <1>2, <3>1, <4>1, <4>2 DEF EntriesStay, TypeOK
    <3>2. CASE r = Promised(t)
      BY <2>1, <2>5, <3>2 DEF Promised, Slots
    <3> QED
      BY <1>1, <3>1, <3>2 DEF Uncontended
  <2> QED
    BY <1>1, <1>4, <2>2, <2>3, <2>6 DEF EntriesStay, Copied
<1> QED
  BY <1>6, <1>7

(* The invariant holds in every reachable state. *)
LEMMA Invariance == Spec => []IInv
<1>1. Init => Undisturbed /\ EntriesStay /\ Copied
  BY DEF Init, Undisturbed, EntriesStay, Copied, Uncontended, Busy, NoCall
<1>2. IInv /\ TypeOK' /\ OneOwner' /\ [Next]_vars => IInv'
  <2> SUFFICES ASSUME IInv, TypeOK', [Next]_vars
               PROVE  Undisturbed' /\ EntriesStay' /\ Copied'
    BY DEF IInv
  <2>1. CASE UNCHANGED vars
    BY <2>1 DEF vars, dictionary, IInv, Undisturbed, EntriesStay, Copied, Uncontended, Busy,
                Picked, Live
  <2>2. CASE Restart
    BY <2>2 DEF Restart, Undisturbed, EntriesStay, Copied, Uncontended, Busy, NoCall
  <2>3. ASSUME NEW t \in Threads, CreateSession(t)
        PROVE  Undisturbed' /\ EntriesStay' /\ Copied'
    BY <2>3, BeginAddStays, PickSlotStays, GrowCopyStays, GrowPublishStays, PublishCountStays,
       WriteKeyStays, WriteValueStays
       DEF CreateSession
  <2> QED
    BY <2>1, <2>2, <2>3 DEF Next
<1> QED
  BY <1>1, <1>2, Typing, Owners, PTL DEF Spec, IInv

(* CreateSession keeps this much of its promise to a request that no other *)
(* request overlaps (PublicKeyService.cs:10-19), however later requests    *)
(* race: its entry is neither overwritten nor left behind.                 *)
THEOREM UncontendedEntries == Spec => []UncontendedEntryStays
<1>1. IInv => UncontendedEntryStays
  BY DEF IInv, EntriesStay, UncontendedEntryStays, Live
<1> QED
  BY <1>1, Invariance, PTL

-----------------------------------------------------------------------------
(* What growing mends *)

(* Growing links every entry again, so that what overlapping calls did to  *)
(* the chains (PublicKeyService.cs:16) lasts until then at most, for the   *)
(* sessions of calls that overlapped none.                                 *)
THEOREM Mending == Spec => GrowthMends
<1>1. ASSUME IInv, IInv', NEW t \in Threads, GrowPublish(t), NEW r \in Uncontended
      PROVE  GetPublicKey(r.session)' = r.key
  <2> USE <1>1 DEF IInv
  <2>1. Busy(t) /\ call[t].step = "relink"
    BY DEF GrowPublish, Busy
  <2> PICK a \in Arrays, n \in Counts : a = call[t].session /\ n = call[t].copied
    BY <2>1, BusyCall
  <2> DEFINE E == entries[a]
             F == entries'[a]
             b == BucketOf[r.session]
             h == heads[buckets][b]
  <2>2. array' = a /\ buckets' = buckets /\ length' = length
    BY DEF GrowPublish
  <2>3. \A i \in Slots : F[i].session = E[i].session /\ F[i].key = E[i].key
    BY GrowPublishKeeps
  <2>4. \A i \in Slots : F[i].next = Relinked(E, n, i)
    <3>1. \A i \in Slots : E[i] \in Entry
      BY DEF TypeOK
    <3>2. F = [i \in Slots |-> [E[i] EXCEPT !.next = Relinked(E, n, i)]]
      BY DEF GrowPublish, TypeOK
    <3> QED
      BY <3>1, <3>2 DEF Entry
  <2>5. r.session \in Sessions /\ r.slot \in Slots /\ b \in Buckets
    BY BucketAssumption DEF Uncontended, TypeOK, Promise
  <2>6. heads'[buckets][b] = Linked(F, n, b, h)
    <3>1. heads'[buckets][b] = Linked(E, n, b, h)
      BY <2>5 DEF GrowPublish, TypeOK
    <3> QED
      BY <2>3, <3>1, SameSessions
  <2>7. \A i \in InBucket(F, n, b) : F[i].next = Linked(F, i - 1, b, h)
    <3> SUFFICES ASSUME NEW i \in InBucket(F, n, b) PROVE F[i].next = Linked(F, i - 1, b, h)
      OBVIOUS
    <3>1. i \in Slots /\ i <= n /\ BucketOf[E[i].session] = b
      BY <2>3 DEF InBucket
    <3>2. F[i].next = Linked(E, i - 1, b, h)
      BY <2>4, <3>1 DEF Relinked
    <3>3. i - 1 \in Counts
      BY <3>1, CapacityAssumption DEF Slots, Counts
    <3>4. \A j \in Slots : j <= i - 1 => E[j].session = F[j].session
      BY <2>3
    <3>5. Linked(E, i - 1, b, h) = Linked(F, i - 1, b, h)
      BY <3>3, <3>4, SameSessions
    <3> QED
      BY <3>2, <3>5
  <2>8. n <= length[a] /\ length[a] \in Counts /\ r.slot <= n
    BY <2>1, CapacityAssumption DEF Copied, TypeOK, Counts
  <2>9. InBucket(F, n, b) \subseteq Chain(F, 1 .. length[a], Linked(F, n, b, h))
    BY <2>7, <2>8, ChainHasAll
  <2>10. F[r.slot].session = r.session /\ F[r.slot].key = r.key
    <3>1. a \in Live
      BY <2>1 DEF Live
    <3> QED
      BY <2>3, <2>5, <3>1 DEF EntriesStay
  <2>11. r.slot \in ChainOf(b)'
    <3>1. r.slot \in InBucket(F, n, b)
      BY <2>5, <2>8, <2>10 DEF InBucket
    <3> QED
      BY <2>2, <2>6, <2>9, <3>1 DEF ChainOf, Positions
  <2>12. \A j \in ChainOf(b)' : F[j].session = r.session => j = r.slot
    <3>1. \A j \in ChainOf(b)' : j \in Slots
      BY <2>2, <2>8, CapacityAssumption DEF ChainOf, Chain, Positions, Slots, Counts
    <3>2. \A j \in Slots : F[j].session = F[r.slot].session /\ F[j].session # NoSession
                             => j = r.slot
      BY <2>5 DEF OneOwner
    <3> QED
      BY <2>5, <2>10, <3>1, <3>2, NullAssumption
  <2> DEFINE C == ChainOf(b)'
  <2>13. r.slot \in C /\ \A j \in C : F[j].session = r.session => j = r.slot
    BY <2>11, <2>12
  <2>14. KeyIn(F, {j \in C : F[j].session = r.session}) = F[r.slot].key
    <3> HIDE DEF C, F
    <3>1. {j \in C : F[j].session = r.session} = {r.slot}
      BY <2>10, <2>13
    <3> QED
      BY <3>1 DEF KeyIn
  <2> QED
    BY <2>2, <2>10, <2>14 DEF GetPublicKey
<1>2. IInv /\ IInv' /\ [Next]_vars
        => [\A t \in Threads : GrowPublish(t) /\ t \notin overlapped =>
              \A r \in Uncontended : GetPublicKey(r.session)' = r.key]_vars
  BY <1>1
<1> QED
  BY <1>2, Invariance, PTL DEF Spec, GrowthMends

-----------------------------------------------------------------------------
(* While no two calls have overlapped, the dictionary is the abstract      *)
(* session store.                                                          *)

Writing(t) == call[t].step \in {"key", "value"}

(* The number of entries linked to their buckets. *)
Done == IF \E t \in Threads : Writing(t) THEN count - 1 ELSE count

(* The first n of the entries E are linked one after the other. *)
InOrder(E, n) ==
  \A i \in Slots : i <= n => E[i].next = Linked(E, i - 1, BucketOf[E[i].session], 0)

(* The call in progress uses the arrays in use, or prepares those that     *)
(* replace them, and writes to the slot after the last linked entry.       *)
Orderly(t) ==
  /\ call[t].step = "count" => call[t].array = array
  /\ call[t].step \in {"count", "publish", "key", "value"} => call[t].buckets = buckets
  /\ call[t].step \in {"count", "grow", "relink"} => array # call[t].session
  /\ call[t].step \in {"grow", "relink", "publish"} => call[t].slot = count + 1
  /\ call[t].step = "relink" =>
       /\ call[t].copied = count
       /\ buckets = call[t].session
       /\ heads[buckets] = NoHeads
       /\ \A i \in Slots : i <= count =>
            /\ entries[call[t].session][i].session = entries[array][i].session
            /\ entries[call[t].session][i].key = entries[array][i].key
  /\ call[t].step = "publish" => call[t].slot <= length[array]
  /\ call[t].step = "value" =>
       entries[array][count].next = heads[buckets][BucketOf[call[t].session]]

(* Without overlaps every chain has all entries of its bucket, the last    *)
(* one first.                                                              *)
SInv ==
  serial =>
    /\ overlapped = {}
    /\ array \in drawn \cup {NoSession}
    /\ count <= length[array]
    /\ InOrder(entries[array], Done)
    /\ ~Growing => \A b \in Buckets : heads[buckets][b] = Linked(entries[array], Done, b, 0)
    /\ \A t \in Threads : Busy(t) => Orderly(t)

(* A call in progress is the only one, and has counted its own entry in    *)
(* once it writes it.                                                      *)
LEMMA Alone ==
  ASSUME IInv, SInv, serial, NEW t \in Threads, Busy(t)
  PROVE  /\ \A u \in Threads : u # t => ~Busy(u) /\ ~Writing(u) /\ call[u].step # "relink"
         /\ Growing <=> call[t].step = "relink"
         /\ Done = IF Writing(t) THEN count - 1 ELSE count
         /\ Writing(t) => count = call[t].slot /\ call[t].array = array
         /\ call[t].step = "value" => entries[array][count].session = call[t].session
<1>1. t \notin overlapped /\ \A u \in Threads : Busy(u) => u = t
  BY DEF SInv, IInv, Undisturbed
<1>2. \A u \in Threads : u # t => ~Busy(u) /\ ~Writing(u) /\ call[u].step # "relink"
  BY <1>1 DEF Busy, Writing
<1>3. Writing(t) => count = call[t].slot /\ call[t].array = array
  BY <1>1 DEF IInv, Undisturbed, Writing
<1>4. call[t].step = "value" => entries[array][count].session = call[t].session
  BY <1>1 DEF IInv, Undisturbed, Writing
<1>5. Done = IF Writing(t) THEN count - 1 ELSE count
  BY <1>2 DEF Done
<1> QED
  BY <1>2, <1>3, <1>4, <1>5 DEF Growing

(* The order of entries shows in their sessions and links only. *)
LEMMA OrderKept ==
  ASSUME NEW E, NEW F, NEW n \in Counts, InOrder(E, n),
         \A i \in Slots : i <= n => F[i].session = E[i].session /\ F[i].next = E[i].next
  PROVE  InOrder(F, n) /\ \A b : Linked(F, n, b, 0) = Linked(E, n, b, 0)
<1> USE CapacityAssumption DEF Counts, Slots
<1>1. ASSUME NEW m \in Counts, m <= n, NEW b PROVE Linked(F, m, b, 0) = Linked(E, m, b, 0)
  <2>1. \A i \in Slots : i <= m => F[i].session = E[i].session
    BY <1>1
  <2> QED
    BY <2>1, SameSessions
<1>2. ASSUME NEW i \in Slots, i <= n
      PROVE  F[i].next = Linked(F, i - 1, BucketOf[F[i].session], 0)
  <2>1. i - 1 \in Counts /\ i - 1 <= n
    BY <1>2
  <2>2. E[i].next = Linked(E, i - 1, BucketOf[E[i].session], 0)
    BY <1>2 DEF InOrder
  <2> QED
    BY <1>1, <1>2, <2>1, <2>2
<1> QED
  BY <1>1, <1>2 DEF InOrder

(* The last entry of n is the head of its own bucket and leaves the others *)
(* as they are.                                                            *)
LEMMA LastIsHead ==
  ASSUME NEW E, NEW n \in Slots, NEW b
  PROVE  Linked(E, n, b, 0) = IF BucketOf[E[n].session] = b THEN n ELSE Linked(E, n - 1, b, 0)
<1> USE CapacityAssumption DEF Slots, Counts
<1>1. CASE BucketOf[E[n].session] = b
  <2> DEFINE I == InBucket(E, n, b)
  <2>1. I \in SUBSET Slots /\ n \in I /\ \A i \in I : i <= n
    BY <1>1 DEF InBucket
  <2>2. LatestOf(I) \in I /\ \A i \in I : i <= LatestOf(I)
    BY <2>1, FirstAndLast
  <2>3. LatestOf(I) = n
    BY <2>1, <2>2
  <2> QED
    BY <1>1, <2>1, <2>3 DEF Linked
<1>2. CASE BucketOf[E[n].session] # b
  <2>1. InBucket(E, n, b) = InBucket(E, n - 1, b)
    BY <1>2 DEF InBucket
  <2> QED
    BY <1>2, <2>1 DEF Linked
<1> QED
  BY <1>1, <1>2

(* The conjuncts of SInv in the next state, for a call that goes on or has *)
(* just ended, and is the only one.                                        *)
LEMMA StillOrderly ==
  ASSUME IInv, SInv, serial, NEW t \in Threads, Busy(t),
         \A u \in Threads : u # t => call'[u] = call[u],
         overlapped' = overlapped, array' \in drawn' \cup {NoSession},
         count' <= length'[array'],
         InOrder(entries'[array'], Done'),
         call'[t].step # "relink" =>
           \A b \in Buckets : heads'[buckets'][b] = Linked(entries'[array'], Done', b, 0),
         Busy(t)' => Orderly(t)'
  PROVE  SInv'
<1>1. \A u \in Threads : u # t => ~Busy(u)' /\ call'[u].step # "relink"
  BY Alone DEF Busy
<1>2. ~Growing' => call'[t].step # "relink"
  BY DEF Growing
<1> QED
  BY <1>1, <1>2 DEF SInv

(* Done in the next state. *)
LEMMA DoneNext ==
  ASSUME IInv, SInv, serial, NEW t \in Threads, Busy(t),
         \A u \in Threads : u # t => call'[u] = call[u]
  PROVE  /\ Done' = IF Writing(t)' THEN count' - 1 ELSE count'
         /\ Growing' <=> call'[t].step = "relink"
<1>1. \A u \in Threads : u # t => ~Writing(u)' /\ call'[u].step # "relink"
  BY Alone DEF Writing
<1> QED
  BY <1>1 DEF Done, Growing

LEMMA BeginAddOrderly ==
  ASSUME IInv, SInv, NEW t \in Threads, NEW s \in Sessions, NEW k \in PublicKeys,
         BeginAdd(t, s, k)
  PROVE  SInv' /\ (serial' => Done' = Done /\ (Growing' <=> Growing))
<1> SUFFICES ASSUME serial' PROVE SInv' /\ Done' = Done /\ (Growing' <=> Growing)
  BY DEF SInv
<1>1. /\ call'[t].session = s /\ call'[t].step = "count"
      /\ call'[t].array = array /\ call'[t].buckets = buckets
      /\ \A u \in Threads : u # t => call'[u] = call[u]
      /\ s \notin drawn /\ drawn' = drawn \cup {s}
      /\ UNCHANGED <<entries, length, heads, array, buckets, count>>
      /\ serial /\ \A u \in Threads : ~Busy(u)
      /\ overlapped' = {}
  BY DEF BeginAdd, IInv, TypeOK, dictionary
<1>2. \A u \in Threads : /\ ~Writing(u) /\ ~Writing(u)'
                         /\ call[u].step # "relink" /\ call'[u].step # "relink"
                         /\ Busy(u)' <=> u = t
  BY <1>1 DEF Busy, Writing
<1>3. Done = count /\ Done' = count /\ ~Growing /\ ~Growing'
  BY <1>1, <1>2 DEF Done, Growing
<1>4. array # s
  BY <1>1, NullAssumption DEF SInv
<1>5. Orderly(t)'
  BY <1>1, <1>4 DEF Orderly
<1>6. /\ array \in drawn \cup {NoSession} /\ count <= length[array]
      /\ InOrder(entries[array], Done)
      /\ \A b \in Buckets : heads[buckets][b] = Linked(entries[array], Done, b, 0)
  BY <1>1, <1>3 DEF SInv
<1>7. InOrder(entries'[array'], Done')
  BY <1>1, <1>3, <1>6
<1>8. \A b \in Buckets : heads'[buckets'][b] = Linked(entries'[array'], Done', b, 0)
  BY <1>1, <1>3, <1>6
<1> QED
  BY <1>1, <1>2, <1>3, <1>5, <1>6, <1>7, <1>8 DEF SInv

LEMMA PickSlotOrderly ==
  ASSUME IInv, SInv, NEW t \in Threads, PickSlot(t)
  PROVE  SInv' /\ (serial' => Done' = Done /\ (Growing' <=> Growing))
<1> SUFFICES ASSUME serial, serial' PROVE SInv' /\ Done' = Done /\ (Growing' <=> Growing)
  BY DEF PickSlot, SInv
<1>1. /\ call[t].step = "count" /\ Busy(t)
      /\ call'[t].step = (IF count = length[call[t].array] THEN "grow" ELSE "publish")
      /\ call'[t].slot = count + 1 /\ call'[t].session = call[t].session
      /\ call'[t].buckets = call[t].buckets
      /\ \A u \in Threads : u # t => call'[u] = call[u]
      /\ UNCHANGED <<entries, length, heads, array, buckets, count, overlapped, drawn>>
  BY DEF PickSlot, NextSlot, IInv, TypeOK, Busy, dictionary
<1>2. ~Growing /\ Done = count /\ ~Writing(t) /\ ~Writing(t)'
  BY <1>1, Alone DEF Writing
<1>3. Done' = count /\ ~Growing'
  BY <1>1, <1>2, DoneNext
<1>4. Orderly(t) /\ count <= length[array]
  BY <1>1 DEF SInv
<1>5. Orderly(t)'
  <2>1. call[t].array = array /\ call[t].buckets = buckets /\ array # call[t].session
    BY <1>1, <1>4 DEF Orderly
  <2>2. call'[t].step = "publish" => count + 1 <= length[array]
    <3>1. count \in Counts /\ length[array] \in Counts
      BY DEF IInv, TypeOK
    <3>2. call'[t].step = "publish" => count # length[array]
      BY <1>1, <2>1
    <3> QED
      BY <1>4, <3>1, <3>2, CapacityAssumption DEF Counts
  <2> QED
    BY <1>1, <2>1, <2>2 DEF Orderly
<1>6. /\ array \in drawn \cup {NoSession}
      /\ InOrder(entries[array], Done)
      /\ \A b \in Buckets : heads[buckets][b] = Linked(entries[array], Done, b, 0)
  BY <1>2 DEF SInv
<1>7. InOrder(entries'[array'], Done')
  BY <1>1, <1>2, <1>3, <1>6
<1>8. \A b \in Buckets : heads'[buckets'][b] = Linked(entries'[array'], Done', b, 0)
  BY <1>1, <1>2, <1>3, <1>6
<1>9. SInv'
  BY <1>1, <1>4, <1>5, <1>6, <1>7, <1>8, StillOrderly
<1> QED
  BY <1>2, <1>3, <1>9

LEMMA GrowCopyOrderly ==
  ASSUME IInv, SInv, NEW t \in Threads, GrowCopy(t)
  PROVE  /\ SInv'
         /\ serial' => /\ Done' = Done /\ array' = array /\ entries'[array] = entries[array]
                       /\ Busy(t)'
<1> SUFFICES ASSUME serial, serial'
             PROVE  SInv' /\ Done' = Done /\ array' = array /\ entries'[array] = entries[array]
                    /\ Busy(t)'
  BY DEF GrowCopy, SInv
<1> USE DEF IInv
<1>1. Busy(t) /\ call[t].step = "grow" /\ count <= length[array]
  BY DEF GrowCopy, Busy, SInv
<1> PICK a \in Arrays : a = call[t].session
  BY <1>1, BusyCall
<1>2. /\ entries' = [entries EXCEPT ![a] =
                       [i \in Slots |-> IF i <= count THEN entries[array][i] ELSE NoEntry]]
      /\ length'  = [length EXCEPT ![a] = Expand[count]]
      /\ heads'   = [heads EXCEPT ![a] = NoHeads]
      /\ buckets' = a
      /\ call' = [call EXCEPT ![t].step = "relink", ![t].copied = count]
      /\ UNCHANGED <<array, count, overlapped, drawn>>
  <2>1. ~(count > length[array])
    BY <1>1, CapacityAssumption DEF TypeOK, Counts
  <2> QED
    BY <2>1 DEF GrowCopy
<1>3. /\ call'[t].step = "relink" /\ call'[t].copied = count
      /\ call'[t].session = a /\ call'[t].slot = call[t].slot
      /\ \A u \in Threads : u # t => call'[u] = call[u]
  <2>1. call[t] \in AddCall
    BY <1>1, BusyCall
  <2> QED
    BY <1>2, <2>1 DEF TypeOK, AddCall
<1>4. array # a /\ call[t].slot = count + 1
  BY <1>1 DEF SInv, Orderly
<1>5. entries'[array] = entries[array] /\ length'[array] = length[array]
  BY <1>2, <1>4 DEF TypeOK
<1>6. heads'[a] = NoHeads /\ \A i \in Slots : i <= count => entries'[a][i] = entries[array][i]
  BY <1>2 DEF TypeOK
<1>7. Done = count /\ Done' = count /\ Busy(t)'
  BY <1>1, <1>2, <1>3, Alone, DoneNext DEF Writing, Busy
<1>8. Orderly(t)'
  BY <1>2, <1>3, <1>4, <1>5, <1>6 DEF Orderly
<1>9. InOrder(entries'[array'], Done')
  BY <1>2, <1>5, <1>7 DEF SInv
<1> QED
  BY <1>1, <1>2, <1>3, <1>5, <1>7, <1>8, <1>9, StillOrderly DEF SInv

LEMMA GrowPublishOrderly ==
  ASSUME IInv, SInv, NEW t \in Threads, GrowPublish(t)
  PROVE  /\ SInv'
         /\ serial' => /\ Done = count /\ Done' = count
                       /\ \A i \in Slots : i <= count =>
                            /\ entries'[array'][i].session = entries[array][i].session
                            /\ entries'[array'][i].key = entries[array][i].key
<1> SUFFICES ASSUME serial, serial'
             PROVE  /\ SInv' /\ Done = count /\ Done' = count
                    /\ \A i \in Slots : i <= count =>
                         /\ entries'[array'][i].session = entries[array][i].session
                         /\ entries'[array'][i].key = entries[array][i].key
  BY DEF GrowPublish, SInv
<1> USE DEF IInv
<1>1. Busy(t) /\ call[t].step = "relink"
  BY DEF GrowPublish, Busy
<1> PICK a \in Arrays, n \in Counts : a = call[t].session /\ n = call[t].copied
  BY <1>1, BusyCall
<1> DEFINE E == entries[a]
           F == entries'[a]
<1>2. /\ call'[t].step = "publish" /\ call'[t].slot = call[t].slot
      /\ call'[t].session = a /\ call'[t].buckets = buckets
      /\ \A u \in Threads : u # t => call'[u] = call[u]
      /\ array' = a /\ UNCHANGED <<length, buckets, count, overlapped, drawn>>
  BY DEF GrowPublish, TypeOK
<1>3. /\ n = count /\ buckets = a /\ heads[a] = NoHeads /\ call[t].slot = count + 1
      /\ \A i \in Slots : i <= count => /\ E[i].session = entries[array][i].session
                                       /\ E[i].key = entries[array][i].key
  BY <1>1 DEF SInv, Orderly
<1>4. \A i \in Slots : F[i].session = E[i].session /\ F[i].key = E[i].key
  BY GrowPublishKeeps
<1>5. Done = count /\ Done' = count /\ Busy(t)'
  BY <1>1, <1>2, Alone, DoneNext DEF Writing, Busy
<1>6. \A b \in Buckets : heads[buckets][b] = 0
  BY <1>3 DEF NoHeads
<1>7. InOrder(F, n)
  <2> SUFFICES ASSUME NEW i \in Slots, i <= n
               PROVE  F[i].next = Linked(F, i - 1, BucketOf[F[i].session], 0)
    BY DEF InOrder
  <2>1. E[i] \in Entry
    BY DEF TypeOK
  <2>2. F[i] = [E[i] EXCEPT !.next = Relinked(E, n, i)]
    BY DEF GrowPublish, TypeOK
  <2>3. F[i].next = Relinked(E, n, i)
    BY <2>1, <2>2 DEF Entry
  <2>4. BucketOf[E[i].session] \in Buckets
    BY <2>1, BucketAssumption DEF Entry, Arrays
  <2>5. F[i].next = Linked(E, i - 1, BucketOf[E[i].session], 0)
    BY <1>6, <2>3, <2>4 DEF Relinked
  <2>6. i - 1 \in Counts /\ \A j \in Slots : j <= i - 1 => E[j].session = F[j].session
    BY <1>4, CapacityAssumption DEF Slots, Counts
  <2>7. Linked(E, i - 1, BucketOf[E[i].session], 0) = Linked(F, i - 1, BucketOf[E[i].session], 0)
    BY <2>6, SameSessions
  <2> QED
    BY <1>4, <2>5, <2>7
<1>8. ASSUME NEW b \in Buckets PROVE heads'[buckets][b] = Linked(F, n, b, 0)
  <2>1. heads'[buckets][b] = Linked(E, n, b, 0)
    BY <1>6 DEF GrowPublish, TypeOK
  <2>2. Linked(E, n, b, 0) = Linked(F, n, b, 0)
    BY <1>4, SameSessions
  <2> QED
    BY <2>1, <2>2
<1>9. n < length[a] /\ length[a] \in Counts
  BY <1>1 DEF Copied, TypeOK
<1>10. Orderly(t)'
  BY <1>2, <1>3, <1>9, CapacityAssumption DEF Orderly, Counts
<1>11. a \in drawn
  BY <1>1 DEF OneOwner
<1>12. count' <= length'[array']
  BY <1>2, <1>3, <1>9, CapacityAssumption DEF Counts
<1>13. SInv'
  BY <1>1, <1>2, <1>3, <1>5, <1>7, <1>8, <1>10, <1>11, <1>12, StillOrderly
<1> QED
  BY <1>2, <1>3, <1>4, <1>5, <1>13

LEMMA PublishCountOrderly ==
  ASSUME IInv, SInv, NEW t \in Threads, PublishCount(t)
  PROVE  SInv' /\ (serial' => Done' = Done /\ (Growing' <=> Growing) /\ Busy(t)')
<1> SUFFICES ASSUME serial, serial'
             PROVE  SInv' /\ Done' = Done /\ (Growing' <=> Growing) /\ Busy(t)'
  BY DEF PublishCount, SInv
<1> USE DEF IInv
<1>1. /\ Busy(t) /\ call[t].step = "publish" /\ call[t] \in AddCall
      /\ call[t].slot \in Slots /\ length[array] \in Counts
  BY BusyCall DEF PublishCount, Busy, TypeOK
<1>2. Orderly(t)
  BY <1>1 DEF SInv
<1>3. call[t].slot = count + 1 /\ call[t].slot <= length[array] /\ call[t].buckets = buckets
  BY <1>1, <1>2 DEF Orderly
<1>4. call' = [call EXCEPT ![t].step = "key", ![t].array = array]
  <2>1. ~(call[t].slot > length[array])
    BY <1>1, <1>3, CapacityAssumption DEF Slots, Counts
  <2> QED
    BY <2>1 DEF PublishCount
<1>5. /\ call'[t].step = "key" /\ call'[t].slot = call[t].slot
      /\ call'[t].buckets = call[t].buckets
      /\ \A u \in Threads : u # t => call'[u] = call[u]
      /\ count' = count + 1
      /\ UNCHANGED <<entries, length, heads, array, buckets, overlapped, drawn>>
  BY <1>1, <1>3, <1>4 DEF PublishCount, TypeOK, AddCall
<1>6. ~Growing /\ Done = count /\ ~Writing(t) /\ Writing(t)' /\ Busy(t)'
  BY <1>1, <1>5, Alone DEF Writing, Busy
<1>7. Done' = count /\ ~Growing'
  <2>1. count \in Nat
    BY CapacityAssumption DEF TypeOK, Counts
  <2> QED
    BY <1>1, <1>5, <1>6, <2>1, DoneNext
<1>8. Orderly(t)'
  BY <1>3, <1>5 DEF Orderly
<1>9. /\ array \in drawn \cup {NoSession}
      /\ InOrder(entries[array], Done)
      /\ \A b \in Buckets : heads[buckets][b] = Linked(entries[array], Done, b, 0)
  BY <1>6 DEF SInv
<1>10. InOrder(entries'[array'], Done')
  BY <1>5, <1>6, <1>7, <1>9
<1>11. \A b \in Buckets : heads'[buckets'][b] = Linked(entries'[array'], Done', b, 0)
  BY <1>5, <1>6, <1>7, <1>9
<1>12. count' <= length'[array']
  BY <1>3, <1>5
<1>13. SInv'
  BY <1>1, <1>5, <1>8, <1>9, <1>10, <1>11, <1>12, StillOrderly
<1> QED
  BY <1>6, <1>7, <1>13

LEMMA WriteKeyOrderly ==
  ASSUME IInv, SInv, NEW t \in Threads, WriteKey(t)
  PROVE  /\ SInv'
         /\ serial' => /\ Done' = Done /\ (Growing' <=> Growing)
                       /\ \A i \in Slots : i <= Done => entries'[array'][i] = entries[array][i]
<1> SUFFICES ASSUME serial, serial'
             PROVE  /\ SInv' /\ Done' = Done /\ (Growing' <=> Growing)
                    /\ \A i \in Slots : i <= Done => entries'[array'][i] = entries[array][i]
  BY DEF WriteKey, SInv
<1> USE DEF IInv
<1>1. Busy(t) /\ call[t].step = "key" /\ Writing(t)
  BY DEF WriteKey, Busy, Writing
<1> PICK a \in Arrays, c \in Slots :
      /\ a = call[t].array /\ c = call[t].slot
      /\ entries' = [entries EXCEPT ![a] = [entries[a] EXCEPT ![c] =
                       [entries[a][c] EXCEPT !.next = BucketHeld(t),
                                             !.session = call[t].session]]]
  BY WriteKeyEffect
<1>2. count = c /\ a = array /\ Done = c - 1 /\ ~Growing
  BY <1>1, Alone
<1>3. /\ call'[t].step = "value" /\ call'[t].session = call[t].session
      /\ call'[t].buckets = call[t].buckets
      /\ \A u \in Threads : u # t => call'[u] = call[u]
      /\ UNCHANGED <<length, heads, array, buckets, count, overlapped, drawn>>
  BY DEF WriteKey, TypeOK
<1>4. entries'[array][c].next = BucketHeld(t)
      /\ \A i \in Slots : i # c => entries'[array][i] = entries[array][i]
  BY <1>2 DEF TypeOK, Entry
<1>5. Done' = Done /\ ~Growing'
  BY <1>1, <1>2, <1>3, DoneNext DEF Writing
<1>6. \A i \in Slots : i <= Done => entries'[array][i] = entries[array][i]
  BY <1>2, <1>4, CapacityAssumption DEF Slots
<1>7. Orderly(t) /\ count <= length[array] /\ array \in drawn \cup {NoSession}
      /\ InOrder(entries[array], Done)
      /\ \A b \in Buckets : heads[buckets][b] = Linked(entries[array], Done, b, 0)
  BY <1>1, <1>2 DEF SInv
<1>8. Orderly(t)'
  <2>1. call[t].buckets = buckets
    BY <1>1, <1>7 DEF Orderly
  <2> QED
    BY <1>2, <1>3, <1>4, <2>1 DEF Orderly, BucketHeld
<1>9. Done \in Counts
  BY <1>2, CapacityAssumption DEF Slots, Counts
<1>10. /\ InOrder(entries'[array], Done)
       /\ \A b : Linked(entries'[array], Done, b, 0) = Linked(entries[array], Done, b, 0)
  <2> DEFINE E == entries[array]
             F == entries'[array]
  <2>1. \A i \in Slots : i <= Done => F[i].session = E[i].session /\ F[i].next = E[i].next
    BY <1>6
  <2>2. InOrder(E, Done)
    BY <1>7
  <2> HIDE DEF E, F
  <2>3. InOrder(F, Done) /\ \A b : Linked(F, Done, b, 0) = Linked(E, Done, b, 0)
    BY <1>9, <2>1, <2>2, OrderKept
  <2> QED
    BY <2>3 DEF E, F
<1>11. InOrder(entries'[array'], Done')
  BY <1>3, <1>5, <1>10
<1>12. \A b \in Buckets : heads'[buckets'][b] = Linked(entries'[array'], Done', b, 0)
  BY <1>3, <1>5, <1>7, <1>10
<1>13. SInv'
  BY <1>1, <1>3, <1>7, <1>8, <1>11, <1>12, StillOrderly
<1> QED
  BY <1>2, <1>3, <1>5, <1>6, <1>13

LEMMA WriteValueOrderly ==
  ASSUME IInv, SInv, NEW t \in Threads, WriteValue(t)
  PROVE  /\ SInv'
         /\ serial' =>
              /\ Done = count - 1 /\ Done' = count /\ count \in Slots
              /\ entries[array][count].session = call[t].session
              /\ entries'[array'][count].key = call[t].key
              /\ \A i \in Slots : /\ entries'[array'][i].session = entries[array][i].session
                                  /\ i # count => entries'[array'][i] = entries[array][i]
<1> SUFFICES ASSUME serial, serial'
             PROVE  /\ SInv'
                    /\ Done = count - 1 /\ Done' = count /\ count \in Slots
                    /\ entries[array][count].session = call[t].session
                    /\ entries'[array'][count].key = call[t].key
                    /\ \A i \in Slots :
                         /\ entries'[array'][i].session = entries[array][i].session
                         /\ i # count => entries'[array'][i] = entries[array][i]
  BY DEF WriteValue, SInv
<1> USE DEF IInv
<1>1. Busy(t) /\ call[t].step = "value" /\ Writing(t)
  BY DEF WriteValue, Busy, Writing
<1> PICK a \in Arrays, c \in Slots :
      /\ a = call[t].array /\ c = call[t].slot
      /\ entries' = [entries EXCEPT ![a] = [entries[a] EXCEPT ![c] =
                       [entries[a][c] EXCEPT !.key = call[t].key]]]
  BY WriteValueEffect
<1>2. count = c /\ a = array /\ Done = c - 1 /\ ~Growing
      /\ entries[array][c].session = call[t].session
  BY <1>1, Alone
<1>3. /\ ~Busy(t)' /\ call'[t].step = "idle"
      /\ \A u \in Threads : u # t => call'[u] = call[u]
      /\ UNCHANGED <<length, array, buckets, count, overlapped, drawn>>
  BY DEF WriteValue, TypeOK, Busy, NoCall
<1>4. Orderly(t) /\ count <= length[array] /\ array \in drawn \cup {NoSession}
      /\ InOrder(entries[array], Done)
      /\ \A b \in Buckets : heads[buckets][b] = Linked(entries[array], Done, b, 0)
  BY <1>1, <1>2 DEF SInv
<1>5. /\ entries'[array][c].key = call[t].key
      /\ \A i \in Slots : i # c => entries'[array][i] = entries[array][i]
  BY <1>2 DEF TypeOK, Entry
<1>6. \A i \in Slots : /\ entries'[array][i].session = entries[array][i].session
                       /\ entries'[array][i].next = entries[array][i].next
  BY WriteValueKeeps DEF TypeOK
<1>7. Done' = c /\ ~Growing' /\ c - 1 \in Counts /\ c \in Counts
  BY <1>1, <1>2, <1>3, DoneNext, CapacityAssumption DEF Writing, Slots, Counts
<1> DEFINE E == entries[array]
           F == entries'[array]
           b0 == BucketOf[call[t].session]
<1>8. b0 \in Buckets /\ call[t].buckets = buckets /\ E[c].next = heads[buckets][b0]
  BY <1>1, <1>2, <1>4, BusyCall DEF Orderly
<1>9. heads'[buckets] = [heads[buckets] EXCEPT ![b0] = c]
  BY <1>8 DEF WriteValue, TypeOK
<1>10. \A b \in Buckets : heads'[buckets][b] = IF b = b0 THEN c ELSE heads[buckets][b]
  BY <1>9 DEF TypeOK
<1>11. InOrder(E, c)
  <2> SUFFICES ASSUME NEW i \in Slots, i <= c
               PROVE  E[i].next = Linked(E, i - 1, BucketOf[E[i].session], 0)
    BY DEF InOrder
  <2>1. CASE i = c
    BY <1>2, <1>4, <1>8, <2>1
  <2>2. CASE i # c
    <3>1. i <= Done
      BY <1>2, <2>2, CapacityAssumption DEF Slots
    <3> QED
      BY <1>4, <3>1 DEF InOrder
  <2> QED
    BY <2>1, <2>2
<1>12. InOrder(F, c) /\ \A b : Linked(F, c, b, 0) = Linked(E, c, b, 0)
  <2>1. \A i \in Slots : i <= c => F[i].session = E[i].session /\ F[i].next = E[i].next
    BY <1>6
  <2> HIDE DEF E, F
  <2> QED
    BY <1>7, <1>11, <2>1, OrderKept
<1>13. ASSUME NEW b \in Buckets PROVE heads'[buckets][b] = Linked(F, c, b, 0)
  <2>1. Linked(E, c, b, 0) = IF BucketOf[E[c].session] = b THEN c ELSE Linked(E, c - 1, b, 0)
    BY LastIsHead
  <2> QED
    BY <1>2, <1>4, <1>10, <1>12, <2>1
<1>14. InOrder(entries'[array'], Done')
  BY <1>3, <1>7, <1>12
<1>15. \A b \in Buckets : heads'[buckets'][b] = Linked(entries'[array'], Done', b, 0)
  BY <1>3, <1>7, <1>13
<1>16. SInv'
  BY <1>1, <1>3, <1>4, <1>14, <1>15, StillOrderly
<1> QED
  BY <1>2, <1>3, <1>5, <1>6, <1>7, <1>16

(* The strengthened invariant holds in every reachable state. *)
LEMMA SerialInvariance == Spec => []SInv
<1>1. Init => SInv
  <2> SUFFICES ASSUME Init PROVE SInv
    OBVIOUS
  <2>1. \A t \in Threads : ~Busy(t) /\ ~Writing(t)
    BY DEF Init, Busy, Writing, NoCall
  <2>2. Done = 0
    BY <2>1 DEF Init, Done
  <2>3. count <= length[array]
    BY CapacityAssumption DEF Init, FirstArrays, Arrays, Counts
  <2>4. InOrder(entries[array], 0)
    BY CapacityAssumption DEF InOrder, Slots
  <2>5. \A b : Linked(entries[array], 0, b, 0) = 0
    <3>1. \A b : InBucket(entries[array], 0, b) = {}
      BY CapacityAssumption DEF InBucket, Slots
    <3> QED
      BY <3>1 DEF Linked
  <2>6. \A b \in Buckets : heads[buckets][b] = 0
    BY DEF Init, NoBuckets, NoHeads, Arrays
  <2> QED
    BY <2>1, <2>2, <2>3, <2>4, <2>5, <2>6 DEF Init, SInv
<1>2. IInv /\ SInv /\ [Next]_vars => SInv'
  <2> SUFFICES ASSUME IInv, SInv, [Next]_vars PROVE SInv'
    OBVIOUS
  <2>1. CASE UNCHANGED vars
    BY <2>1 DEF vars, dictionary, SInv, Done, Writing, Growing, Busy, Orderly
  <2>2. CASE Restart
    <3>1. \A t \in Threads : ~Busy(t)' /\ ~Writing(t)'
      BY <2>2 DEF Restart, Busy, Writing, NoCall
    <3>2. Done' = 0
      BY <2>2, <3>1 DEF Restart, Done
    <3>3. count' <= length'[array']
      BY <2>2, CapacityAssumption DEF Restart, FirstArrays, Arrays, Counts
    <3>4. InOrder(entries'[array'], 0)
      BY CapacityAssumption DEF InOrder, Slots
    <3>5. \A b : Linked(entries'[array'], 0, b, 0) = 0
      <4>1. \A b : InBucket(entries'[array'], 0, b) = {}
        BY CapacityAssumption DEF InBucket, Slots
      <4> QED
        BY <4>1 DEF Linked
    <3>6. \A b \in Buckets : heads'[buckets'][b] = 0
      BY <2>2 DEF Restart, NoBuckets, NoHeads, Arrays
    <3> QED
      BY <2>2, <3>1, <3>2, <3>3, <3>4, <3>5, <3>6 DEF Restart, SInv
  <2>3. ASSUME NEW t \in Threads, CreateSession(t) PROVE SInv'
    BY <2>3, BeginAddOrderly, PickSlotOrderly, GrowCopyOrderly, GrowPublishOrderly,
       PublishCountOrderly, WriteKeyOrderly, WriteValueOrderly
       DEF CreateSession
  <2> QED
    BY <2>1, <2>2, <2>3 DEF Next
<1> QED
  BY <1>1, <1>2, Invariance, PTL DEF Spec

(* What the lookups find, or would find were the arrays not growing, and   *)
(* the sessions drawn for calls that have returned: the store's variables. *)
Bound     == [s \in Sessions |-> IF Growing THEN Stored(s) ELSE GetPublicKey(s)]
Announced == {s \in drawn : \A t \in Threads : call[t].session # s}

(* It is what a scan of the linked entries finds. *)
BoundIsScan == serial => Bound = [s \in Sessions |-> Scan(entries[array], Done, s)]

LEMMA Bindings == Spec => []BoundIsScan
<1>1. IInv /\ SInv => BoundIsScan
  <2> SUFFICES ASSUME IInv, SInv, serial, NEW s \in Sessions
               PROVE  (IF Growing THEN Stored(s) ELSE GetPublicKey(s))
                        = Scan(entries[array], Done, s)
    BY DEF BoundIsScan, Bound
  <2>1. CASE Growing
    <3>1. PICK t \in Threads : call[t].step = "relink"
      BY <2>1 DEF Growing
    <3>2. Done = count
      BY <3>1, Alone DEF Busy, Writing
    <3> QED
      BY <2>1, <3>2 DEF Stored
  <2>2. CASE ~Growing
    <3> DEFINE E == entries[array]
               b == BucketOf[s]
    <3>1. b \in Buckets
      BY BucketAssumption
    <3>2. heads[buckets][b] = Linked(E, Done, b, 0) /\ InOrder(E, Done)
      BY <2>2, <3>1 DEF SInv
    <3>3. Done \in Counts /\ Done <= length[array] /\ length[array] \in Counts
      <4>1. count \in Counts /\ length[array] \in Counts /\ count <= length[array]
        BY DEF IInv, TypeOK, SInv
      <4>2. CASE \E t \in Threads : Writing(t)
        <5>1. PICK t \in Threads : Writing(t)
          BY <4>2
        <5>2. Busy(t) /\ count = call[t].slot /\ Done = count - 1
          BY <5>1, Alone DEF Busy, Writing
        <5>3. count \in Slots
          BY <5>2, BusyCall DEF IInv
        <5> QED
          BY <4>1, <5>2, <5>3, CapacityAssumption DEF Slots, Counts
      <4>3. CASE ~\E t \in Threads : Writing(t)
        BY <4>1, <4>3 DEF Done
      <4> QED
        BY <4>2, <4>3
    <3>4. \A i \in Slots : i <= Done => E[i].next = Linked(E, i - 1, BucketOf[E[i].session], 0)
      BY <3>2 DEF InOrder
    <3>5. KeyIn(E, {i \in Chain(E, 1 .. length[array], Linked(E, Done, b, 0)) :
                      E[i].session = s}) = Scan(E, Done, s)
      <4> HIDE DEF E
      <4> QED
        BY <3>3, <3>4, LookupIsScan
    <3> QED
      BY <2>2, <3>2, <3>5 DEF GetPublicKey, ChainOf, Positions
  <2> QED
    BY <2>1, <2>2
<1> QED
  BY <1>1, Invariance, SerialInvariance, PTL

(* A scan sees the sessions and the keys of the entries only. *)
LEMMA SameScan ==
  ASSUME NEW E, NEW F, NEW n, NEW s,
         \A i \in Slots : i <= n => F[i].session = E[i].session /\ F[i].key = E[i].key
  PROVE  Scan(F, n, s) = Scan(E, n, s)
<1>1. {i \in Slots : i <= n /\ F[i].session = s} = {i \in Slots : i <= n /\ E[i].session = s}
  OBVIOUS
<1> DEFINE I == {i \in Slots : i <= n /\ E[i].session = s}
<1>2. CASE I = {}
  BY <1>1, <1>2 DEF Scan, KeyIn
<1>3. CASE I # {}
  <2> DEFINE c == CHOOSE i \in I : TRUE
  <2>1. c \in I
    BY <1>3
  <2>2. F[c].key = E[c].key
    BY <2>1
  <2> QED
    BY <1>1, <1>3, <2>2 DEF Scan, KeyIn
<1> QED
  BY <1>2, <1>3

(* The steps of a call before it returns change nothing a lookup or a      *)
(* caller could see, but for what is missing while the arrays grow.        *)
LEMMA StoreStutters ==
  ASSUME IInv, SInv, BoundIsScan, BoundIsScan', serial, serial', NEW t \in Threads,
         CreateSession(t), ~WriteValue(t)
  PROVE  Bound' = Bound /\ Announced' = Announced
<1> USE DEF IInv
<1>1. /\ Done' = Done
      /\ \A i \in Slots : i <= Done => /\ entries'[array'][i].session = entries[array][i].session
                                       /\ entries'[array'][i].key = entries[array][i].key
  <2>1. CASE \E s \in Sessions, k \in PublicKeys : BeginAdd(t, s, k)
    BY <2>1, BeginAddOrderly DEF BeginAdd, dictionary
  <2>2. CASE PickSlot(t)
    BY <2>2, PickSlotOrderly DEF PickSlot, dictionary
  <2>3. CASE GrowCopy(t)
    BY <2>3, GrowCopyOrderly
  <2>4. CASE GrowPublish(t)
    BY <2>4, GrowPublishOrderly
  <2>5. CASE PublishCount(t)
    BY <2>5, PublishCountOrderly DEF PublishCount
  <2>6. CASE WriteKey(t)
    BY <2>6, WriteKeyOrderly
  <2> QED
    BY <2>1, <2>2, <2>3, <2>4, <2>5, <2>6 DEF CreateSession
<1>2. \A s \in Sessions : Scan(entries'[array'], Done', s) = Scan(entries[array], Done, s)
  BY <1>1, SameScan
<1>3. Bound' = Bound
  BY <1>2 DEF BoundIsScan
<1>4. Announced' = Announced
  <2>1. ASSUME NEW s \in Sessions, NEW k \in PublicKeys, BeginAdd(t, s, k)
        PROVE  Announced' = Announced
    <3>1. /\ call'[t].session = s /\ drawn' = drawn \cup {s} /\ s \notin drawn
          /\ \A u \in Threads : u # t => call'[u] = call[u]
      BY <2>1 DEF BeginAdd, TypeOK
    <3>2. call[t].session = NoSession
      BY <2>1, NotBusy DEF BeginAdd
    <3>3. NoSession \notin drawn
      BY NullAssumption DEF TypeOK
    <3> QED
      BY <3>1, <3>2, <3>3 DEF Announced
  <2>2. CASE GrowCopy(t) \/ PublishCount(t)
    <3>1. Busy(t)'
      BY <2>2, GrowCopyOrderly, PublishCountOrderly
    <3>2. \A u \in Threads : call'[u].session = call[u].session
      BY <2>2, <3>1, CallSteps
    <3>3. drawn' = drawn
      BY <2>2 DEF GrowCopy, PublishCount
    <3> QED
      BY <3>2, <3>3 DEF Announced
  <2>3. CASE PickSlot(t) \/ GrowPublish(t) \/ WriteKey(t)
    <3>1. drawn' = drawn /\ \A u \in Threads : call'[u].session = call[u].session
      <4>1. call[t] \in AddCall /\ call \in [Threads -> IdleCall \cup AddCall]
        BY <2>3, BusyCall DEF PickSlot, GrowPublish, WriteKey, Busy, TypeOK
      <4>2. CASE PickSlot(t)
        BY <4>1, <4>2 DEF PickSlot, AddCall
      <4>3. CASE GrowPublish(t)
        BY <4>1, <4>3 DEF GrowPublish, AddCall
      <4>4. CASE WriteKey(t)
        BY <4>1, <4>4 DEF WriteKey, AddCall
      <4> QED
        BY <2>3, <4>2, <4>3, <4>4
    <3> QED
      BY <3>1 DEF Announced
  <2> QED
    BY <2>1, <2>2, <2>3 DEF CreateSession
<1> QED
  BY <1>3, <1>4

(* The step that returns a session is the store's Create. *)
LEMMA StoreCreates ==
  ASSUME IInv, OneOwner', SInv, BoundIsScan, BoundIsScan', serial, serial',
         NEW t \in Threads, WriteValue(t)
  PROVE  \E s \in Sessions, k \in PublicKeys : Store!Create(s, k)
<1> USE DEF IInv
<1>0. Busy(t) /\ call[t].step = "value"
  BY DEF WriteValue, Busy
<1> PICK s \in Sessions, k \in PublicKeys : s = call[t].session /\ k = call[t].key
  BY <1>0, BusyCall
<1> PICK c \in Slots : c = count
  BY WriteValueOrderly
<1> DEFINE E == entries[array]
           F == entries'[array']
<1>1. /\ Done = c - 1 /\ Done' = c /\ E[c].session = s /\ F[c].key = k
      /\ \A i \in Slots : F[i].session = E[i].session /\ (i # c => F[i] = E[i])
  BY WriteValueOrderly
<1>2. s # NoSession
  BY NullAssumption
<1>3. \A i \in Slots : E[i].session = s <=> i = c
  BY <1>1, <1>2 DEF OneOwner, TypeOK
<1>4. Scan(F, c, s) = k
  <2>1. {i \in Slots : i <= c /\ F[i].session = s} = {c}
    BY <1>1, <1>3, CapacityAssumption DEF Slots
  <2> QED
    BY <1>1, <2>1 DEF Scan, KeyIn
<1>5. ASSUME NEW x \in Sessions, x # s PROVE Scan(F, c, x) = Scan(E, c - 1, x)
  <2>1. {i \in Slots : i <= c /\ F[i].session = x} = {i \in Slots : i <= c - 1 /\ F[i].session = x}
    BY <1>1, <1>5, CapacityAssumption DEF Slots
  <2>2. Scan(F, c, x) = Scan(F, c - 1, x)
    BY <2>1 DEF Scan
  <2>3. \A i \in Slots : i <= c - 1 => F[i].session = E[i].session /\ F[i].key = E[i].key
    BY <1>1, CapacityAssumption DEF Slots
  <2>4. Scan(F, c - 1, x) = Scan(E, c - 1, x)
    <3> HIDE DEF E, F
    <3> QED
      BY <2>3, SameScan
  <2> QED
    BY <2>2, <2>4
<1>6. Bound' = [Bound EXCEPT ![s] = k]
  <2>1. Bound = [x \in Sessions |-> Scan(E, c - 1, x)]
    BY <1>1 DEF BoundIsScan
  <2>2. Bound' = [x \in Sessions |-> Scan(F, c, x)]
    BY <1>1 DEF BoundIsScan
  <2> HIDE DEF E, F
  <2> QED
    BY <1>4, <1>5, <2>1, <2>2
<1>7. s \in drawn /\ drawn' = drawn
  BY <1>0 DEF WriteValue, OneOwner
<1>8. Announced' = Announced \cup {s}
  <2>1. \A u \in Threads : u # t => call[u].session = NoSession
    BY <1>0, Alone, NotBusy
  <2>2. call'[t].session = NoSession /\ \A u \in Threads : u # t => call'[u] = call[u]
    BY DEF WriteValue, TypeOK, NoCall
  <2>3. NoSession \notin drawn
    BY NullAssumption DEF TypeOK
  <2> QED
    BY <1>7, <2>1, <2>2, <2>3 DEF Announced
<1>9. s \notin Announced
  BY DEF Announced
<1>10. Store!Create(s, k)
  BY <1>6, <1>8, <1>9 DEF Store!Create, Store!Fresh, Bound, Announced
<1> QED
  BY <1>10

(* A restart is the store's Forget. *)
LEMMA StoreForgets ==
  ASSUME IInv, Restart
  PROVE  Store!Forget
<1>1. ~Growing'
  BY DEF Restart, Growing, NoCall
<1>2. \A i \in Slots, s \in Sessions : entries'[array'][i].session # s
  BY NullAssumption DEF Restart, NoArrays, NoEntries, NoEntry, Arrays
<1>3. \A i : i \in Positions(array)' => i \in Slots
  BY CapacityAssumption
     DEF Restart, Positions, FirstArrays, Arrays, Slots, Counts
<1>4. \A s \in Sessions : GetPublicKey(s)' = NoKey
  <2> SUFFICES ASSUME NEW s \in Sessions PROVE GetPublicKey(s)' = NoKey
    OBVIOUS
  <2>1. {i \in ChainOf(BucketOf[s])' : entries'[array'][i].session = s} = {}
    BY <1>2, <1>3 DEF ChainOf, Chain
  <2> QED
    BY <2>1 DEF GetPublicKey, KeyIn
<1>5. Bound' = Store!EmptyStore
  BY <1>1, <1>4 DEF Bound, Store!EmptyStore
<1>6. Announced' = drawn /\ drawn \in SUBSET Sessions
  BY NullAssumption DEF IInv, TypeOK, Restart, Announced, NoCall
<1> QED
  BY <1>5, <1>6 DEF Store!Forget, Store!EmptyStore, Bound, Announced

(* CreateSession and the lookups implement the session store that the      *)
(* controllers and the secret validator rely on, as long as no two         *)
(* registrations overlap (PublicKeyService.cs:8-33), for any number of     *)
(* sessions, keys and buckets, restarts included.                          *)
THEOREM ImplementsStore == Spec => StoreWhileSerial
<1>1. Init => Store!Init
  <2> SUFFICES ASSUME Init PROVE Store!Init
    OBVIOUS
  <2>1. ~Growing
    BY DEF Init, Growing, NoCall
  <2>2. \A i \in Slots, s \in Sessions : entries[array][i].session # s
    BY NullAssumption DEF Init, NoArrays, NoEntries, NoEntry, Arrays
  <2>3. \A i : i \in Positions(array) => i \in Slots
    BY CapacityAssumption DEF Init, Positions, FirstArrays, Arrays, Slots, Counts
  <2>4. ASSUME NEW s \in Sessions PROVE GetPublicKey(s) = NoKey
    <3>1. {i \in ChainOf(BucketOf[s]) : entries[array][i].session = s} = {}
      BY <2>2, <2>3 DEF ChainOf, Chain
    <3> QED
      BY <3>1 DEF GetPublicKey, KeyIn
  <2> QED
    BY <2>1, <2>4 DEF Init, Store!Init, Store!EmptyStore
<1>2. IInv /\ OneOwner' /\ SInv /\ BoundIsScan /\ BoundIsScan' /\ [Next]_vars
        => [serial /\ serial' => [Store!Next]_(Store!storeVars)]_vars
  <2> SUFFICES ASSUME IInv, OneOwner', SInv, BoundIsScan, BoundIsScan', Next, serial, serial'
               PROVE  [Store!Next]_(Store!storeVars)
    OBVIOUS
  <2>1. CASE Restart
    BY <2>1, StoreForgets DEF Store!Next
  <2>2. ASSUME NEW t \in Threads, CreateSession(t) PROVE [Store!Next]_(Store!storeVars)
    <3>1. CASE ~WriteValue(t)
      <4>1. Bound' = Bound /\ Announced' = Announced
        BY <2>2, <3>1, StoreStutters
      <4> QED
        BY <4>1 DEF Store!storeVars, Bound, Announced
    <3>2. CASE WriteValue(t)
      BY <3>2, StoreCreates DEF Store!Next
    <3> QED
      BY <3>1, <3>2
  <2> QED
    BY <2>1, <2>2 DEF Next
<1> QED
  BY <1>1, <1>2, Invariance, Owners, SerialInvariance, Bindings, PTL
     DEF Spec, StoreWhileSerial, IInv
=============================================================================
