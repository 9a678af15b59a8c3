-------------------------- MODULE PublicKeyService --------------------------
(***************************************************************************)
(* Idp/PublicKeyService.cs: the cache from auth_session to public key.     *)
(*                                                                         *)
(* The service is registered as transient, its cache is one static         *)
(* Dictionary, and every registration request that ASP.NET Core runs on a  *)
(* pool thread adds to it without a lock, while token requests look keys   *)
(* up.  A Thread here is one request inside CreateSession.                 *)
(*                                                                         *)
(* The Dictionary is external; what it does without a lock decides which   *)
(* sessions are found.  It keeps an array of entries, filled from the      *)
(* front, and an array of buckets, each the head of a chain of entries     *)
(* linked by their next fields.  Add reads the references it needs, picks  *)
(* the slot after the last one in use, lets both arrays grow when they are *)
(* full, publishes the new count, and only then writes the entry and links *)
(* it.  Slots are counted from 1, and 0 ends a chain.                      *)
(***************************************************************************)
EXTENDS Naturals

CONSTANTS Threads, Sessions, PublicKeys,
          NoKey,        \* the PublicKey component of default((string, string))
          NoSession,    \* the key component of an entry never written
          Buckets,
          BucketOf,     \* the bucket of a session: its hash code
          Capacity,     \* bound: slots of the longest array of entries
          FirstLength,  \* length of the first arrays, 0 if not yet made
          Expand        \* the length ExpandPrime gives for a number of entries

Slots  == 1 .. Capacity
Counts == 0 .. Capacity

ASSUME CapacityAssumption == Capacity \in Nat \ {0} /\ FirstLength \in Counts
ASSUME NullAssumption     == NoKey \notin PublicKeys /\ NoSession \notin Sessions
ASSUME BucketAssumption   == BucketOf \in [Sessions \cup {NoSession} -> Buckets]
ASSUME ExpandAssumption   == /\ Expand \in [Counts -> Counts]
                             /\ \A n \in Counts \ {Capacity} : n < Expand[n]

(* Arrays are named by the session whose Add made them. *)
Arrays == Sessions \cup {NoSession}

VARIABLES entries,   \* the contents of every array of entries made
          length,    \* and its length
          heads,     \* the contents of every array of buckets
          array,     \* _entries: the array of entries in use
          buckets,   \* _buckets: the array of buckets in use
          count,     \* _count: how many entries are in use
          call,      \* per thread: where it is inside CreateSession, and its locals
          drawn,     \* sessions drawn so far, by any call
          returned,  \* history: the sessions returned, with the key and slot of each
          overlapped, \* history: threads whose call has overlapped another one
          serial     \* history: no two calls have overlapped since the process started

dictionary == <<entries, length, heads, array, buckets, count>>
vars       == <<dictionary, call, drawn, returned, overlapped, serial>>

(* The next field of an entry never written is a 0 counted from 0. *)
NoEntry   == [session |-> NoSession, key |-> NoKey, next |-> 1]
NoEntries == [i \in Slots |-> NoEntry]
NoHeads   == [b \in Buckets |-> 0]
NoCall    == [step |-> "idle", session |-> NoSession, key |-> NoKey, slot |-> 1,
              array |-> NoSession, buckets |-> NoSession, copied |-> 0]

NoArrays    == [a \in Arrays |-> NoEntries]
NoBuckets   == [a \in Arrays |-> NoHeads]
FirstArrays == [a \in Arrays |-> IF a = NoSession THEN FirstLength ELSE 0]

Init ==
  /\ entries    = NoArrays
  /\ length     = FirstArrays
  /\ heads      = NoBuckets
  /\ array      = NoSession
  /\ buckets    = NoSession
  /\ count      = 0
  /\ call       = [t \in Threads |-> NoCall]
  /\ drawn      = {}
  /\ returned   = {}
  /\ overlapped = {}
  /\ serial     = TRUE

Busy(t) == call[t].step # "idle"

-----------------------------------------------------------------------------
(* The lookups.  They change nothing. *)

Positions(a) == 1 .. length[a]

(* The slots a walk comes to that starts at a head and follows the links   *)
(* of the entries E, as far as these lead to positions of the array.       *)
Follows(E, P, head, S) ==
  /\ head \in P => head \in S
  /\ \A i \in S : E[i].next \in P => E[i].next \in S
Chain(E, P, head) == {i \in P : \A S \in SUBSET P : Follows(E, P, head, S) => i \in S}

ChainOf(b) == Chain(entries[array], Positions(array), heads[buckets][b])

(* A chain that racing calls have closed to a ring ends no walk, unless it *)
(* finds its entry first: the Dictionary counts the steps and throws.      *)
Ends(b) ==
  ChainOf(b) # {} => \E i \in ChainOf(b) : entries[array][i].next \notin Positions(array)

(* TryGetValue and GetValueOrDefault: the value of the entry with that key *)
(* on the chain of its bucket.                                             *)
KeyIn(E, I) == IF I = {} THEN NoKey ELSE E[CHOOSE i \in I : TRUE].key
GetPublicKey(s) ==
  KeyIn(entries[array], {i \in ChainOf(BucketOf[s]) : entries[array][i].session = s})

-----------------------------------------------------------------------------
(* CreateSession *)

(* Draw a session, enter Add, take the references to the entries and to    *)
(* the bucket, and look for the session on the bucket's chain.             *)
BeginAdd(t, s, k) ==
  /\ ~Busy(t)
  /\ s \in Sessions \ drawn
  /\ Ends(BucketOf[s])
  /\ drawn' = drawn \cup {s}
  /\ call'  = [call EXCEPT ![t] = [step |-> "count", session |-> s, key |-> k,
                                   slot |-> 1, array |-> array,
                                   buckets |-> buckets, copied |-> 0]]
  /\ overlapped' = IF \E u \in Threads : Busy(u)
                     THEN {u \in Threads : Busy(u)} \cup {t}
                     ELSE {}
  /\ serial' = (serial /\ \A u \in Threads : ~Busy(u))
  /\ UNCHANGED <<dictionary, returned>>

(* Mutants: the slot of the last entry, and one slot left out. *)
NextSlotOfLast   == IF count = 0 THEN 1 ELSE count
NextSlotSkipping == count + 2

(* A dictionary has no room to reserve: the slot of a new entry is the one *)
(* after the count a thread happens to read.                               *)
NextSlot == count + 1

PickSlot(t) ==
  /\ call[t].step = "count"
  /\ count < Capacity
  /\ call' = [call EXCEPT ![t].slot = NextSlot,
                          ![t].step = IF count = length[call[t].array]
                                        THEN "grow" ELSE "publish"]
  /\ UNCHANGED <<dictionary, drawn, returned, overlapped, serial>>

(* The request fails: its session is returned to nobody. *)
Throws(t) == call' = [call EXCEPT ![t] = NoCall]

(* Resize, its first half: copy the entries to a longer array and publish  *)
(* a new array of buckets, which are all empty.                            *)
GrowCopy(t) ==
  /\ call[t].step = "grow"
  /\ count < Capacity
  /\ \/ /\ count <= length[array]
        /\ LET a == call[t].session
           IN /\ entries' = [entries EXCEPT ![a] =
                               [i \in Slots |-> IF i <= count THEN entries[array][i]
                                                              ELSE NoEntry]]
              /\ length'  = [length EXCEPT ![a] = Expand[count]]
              /\ heads'   = [heads EXCEPT ![a] = NoHeads]
              /\ buckets' = a
        /\ call' = [call EXCEPT ![t].step = "relink", ![t].copied = count]
     \/ /\ count > length[array]
        /\ Throws(t)
        /\ UNCHANGED <<entries, length, heads, buckets>>
  /\ UNCHANGED <<array, count, drawn, returned, overlapped, serial>>

(* The head of a bucket after the first n entries of E are linked to it   *)
(* one after the other: the last of them, or what it was before.           *)
InBucket(E, n, b)  == {i \in Slots : i <= n /\ BucketOf[E[i].session] = b}
LatestOf(I)        == CHOOSE i \in I : \A j \in I : j <= i
Linked(E, n, b, h) == IF InBucket(E, n, b) = {} THEN h ELSE LatestOf(InBucket(E, n, b))

(* Mutant: the entries keep the links of the old array. *)
RelinkedNot(E, n, i) == E[i].next

(* The new link of entry i, of the first n entries of E. *)
Relinked(E, n, i) ==
  LET b == BucketOf[E[i].session]
  IN IF i <= n THEN Linked(E, i - 1, b, heads[buckets][b]) ELSE E[i].next

(* Resize, its second half: link the copied entries to the buckets in use, *)
(* which another Resize may have replaced, and publish them.               *)
GrowPublish(t) ==
  /\ call[t].step = "relink"
  /\ LET a == call[t].session
         E == entries[a]
         n == call[t].copied
     IN /\ entries' = [entries EXCEPT ![a] =
                         [i \in Slots |-> [E[i] EXCEPT !.next = Relinked(E, n, i)]]]
        /\ heads' = [heads EXCEPT ![buckets] =
                       [b \in Buckets |-> Linked(E, n, b, heads[buckets][b])]]
        /\ array' = a
  /\ call' = [call EXCEPT ![t].step = "publish", ![t].buckets = buckets]
  /\ UNCHANGED <<length, buckets, count, drawn, returned, overlapped, serial>>

(* Publish the count, and take the slot in the array in use by now. *)
PublishCount(t) ==
  /\ call[t].step = "publish"
  /\ count' = call[t].slot
  /\ \/ /\ call[t].slot <= length[array]
        /\ call' = [call EXCEPT ![t].step = "key", ![t].array = array]
     \/ /\ call[t].slot > length[array]
        /\ Throws(t)
  /\ UNCHANGED <<entries, length, heads, array, buckets, drawn, returned, overlapped, serial>>

BucketHeld(t) == heads[call[t].buckets][BucketOf[call[t].session]]

(* Write the link and the key of the entry. *)
WriteKey(t) ==
  /\ call[t].step = "key"
  /\ entries' = [entries EXCEPT ![call[t].array][call[t].slot] =
                    [@ EXCEPT !.next = BucketHeld(t), !.session = call[t].session]]
  /\ call'    = [call EXCEPT ![t].step = "value"]
  /\ UNCHANGED <<length, heads, array, buckets, count, drawn, returned, overlapped, serial>>

Promised(t) == [session |-> call[t].session, key |-> call[t].key, slot |-> call[t].slot,
                alone |-> t \notin overlapped]

(* Write the value of the entry, make it the head of its bucket, and       *)
(* return the session to the controller.                                   *)
WriteValue(t) ==
  /\ call[t].step = "value"
  /\ entries'  = [entries EXCEPT ![call[t].array][call[t].slot] = [@ EXCEPT !.key = call[t].key]]
  /\ heads'    = [heads EXCEPT ![call[t].buckets][BucketOf[call[t].session]] = call[t].slot]
  /\ returned' = returned \cup {Promised(t)}
  /\ call'     = [call EXCEPT ![t] = NoCall]
  /\ UNCHANGED <<length, array, buckets, count, drawn, overlapped, serial>>

(* The identity provider stops and starts: the static cache is lost with   *)
(* the process, and so are the calls in it.                                *)
Restart ==
  /\ entries'    = NoArrays
  /\ length'     = FirstArrays
  /\ heads'      = NoBuckets
  /\ array'      = NoSession
  /\ buckets'    = NoSession
  /\ count'      = 0
  /\ call'       = [t \in Threads |-> NoCall]
  /\ returned'   = {}
  /\ overlapped' = {}
  /\ serial'     = TRUE
  /\ UNCHANGED drawn

CreateSession(t) ==
  \/ \E s \in Sessions, k \in PublicKeys : BeginAdd(t, s, k)
  \/ PickSlot(t)
  \/ GrowCopy(t)
  \/ GrowPublish(t)
  \/ PublishCount(t)
  \/ WriteKey(t)
  \/ WriteValue(t)

Next == Restart \/ \E t \in Threads : CreateSession(t)

Spec == Init /\ [][Next]_vars

-----------------------------------------------------------------------------
(* Properties *)

Entry    == [session : Arrays, key : PublicKeys \cup {NoKey}, next : Counts]
IdleCall == {NoCall}
AddCall  == [step : {"count", "grow", "relink", "publish", "key", "value"},
             session : Sessions, key : PublicKeys, slot : Slots,
             array : Arrays, buckets : Arrays, copied : Counts]
Promise  == [session : Sessions, key : PublicKeys, slot : Slots, alone : BOOLEAN]

(* The shape of the dictionary, of the calls in progress and of the        *)
(* history.                                                                *)
TypeOK ==
  /\ entries  \in [Arrays -> [Slots -> Entry]]
  /\ length   \in [Arrays -> Counts]
  /\ heads    \in [Arrays -> [Buckets -> Counts]]
  /\ array    \in Arrays
  /\ buckets  \in Arrays
  /\ count    \in Counts
  /\ call     \in [Threads -> IdleCall \cup AddCall]
  /\ drawn    \in SUBSET Sessions
  /\ returned \in SUBSET Promise
  /\ overlapped \in SUBSET Threads
  /\ serial   \in BOOLEAN

(* The sessions of calls that no other call overlapped. *)
Uncontended == {r \in returned : r.alone}

(* CreateSession, run while no other call is in it, stores an entry that   *)
(* is never overwritten and goes along whenever the arrays grow, however   *)
(* later calls race each other: what a race can take from it is the chain  *)
(* that leads to it, never its slot or its key.                            *)
UncontendedEntryStays ==
  \A r \in Uncontended :
    /\ entries[array][r.slot].session = r.session
    /\ entries[array][r.slot].key = r.key

(* What races did to the chains is mended when the arrays next grow in a   *)
(* call that overlaps no other: then every session of an uncontended call  *)
(* is found with its own key, also one that could not be found before.     *)
GrowthMends ==
  [][\A t \in Threads : GrowPublish(t) /\ t \notin overlapped =>
       \A r \in Uncontended : GetPublicKey(r.session)' = r.key]_vars

(* Every session CreateSession returned is found with the key it was given *)
(* (PublicKeyService.cs:16-18).  True when requests come one at a time and *)
(* the arrays are not just growing.                                        *)
ReturnedSessionIsBound ==
  \A r \in returned : GetPublicKey(r.session) = r.key

(* The key of the entry that holds a session, on a chain or not. *)
Scan(E, n, s) == KeyIn(E, {i \in Slots : i <= n /\ E[i].session = s})
Stored(s)     == Scan(entries[array], count, s)
Growing == \E t \in Threads : call[t].step = "relink"

(* With one request at a time this is the session store the rest of the    *)
(* identity provider relies on: a session becomes known, with its key, in  *)
(* one step, and only a restart makes it unknown again.  As long as no two *)
(* calls of CreateSession have overlapped, every step is a step of the     *)
(* store, whose binding is what the lookups find, or would find were the   *)
(* arrays not growing at the moment.                                       *)
Store == INSTANCE SessionStore WITH
           binding <- [s \in Sessions |-> IF Growing THEN Stored(s) ELSE GetPublicKey(s)],
           drawn   <- {s \in drawn : \A t \in Threads : call[t].session # s}
StoreWhileSerial ==
  Store!Init /\ [][serial /\ serial' => [Store!Next]_(Store!storeVars)]_vars
=============================================================================
