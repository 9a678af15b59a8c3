--------------------------- MODULE ValuesApiProofs ---------------------------
(***************************************************************************)
(* Proofs about the two models of the values API.                          *)
(*                                                                         *)
(* ScopeValues: for scope parameters with any number of values of any      *)
(* number of parts, its readers agree and the console programs' requests   *)
(* pass.  The readers take sequences apart with recursive functions, Only  *)
(* and WithoutName, so the proof starts from induction over the length of  *)
(* a sequence.                                                             *)
(*                                                                         *)
(* SecurityHeaders: for any number of requests, in either environment, its *)
(* type invariant, and that a policy in use is completed if no two insert  *)
(* into it at a time.                                                      *)
(***************************************************************************)
EXTENDS ScopeValues, SecurityHeaders, WellFoundedInduction, TLAPS

-----------------------------------------------------------------------------
(* Induction over the natural numbers *)

(* Every set of natural numbers but the empty one has a least element. *)
LEMMA LeastNumber ==
  ASSUME NEW T \in SUBSET Nat, T # {}
  PROVE  \E n \in T : \A m \in T : n <= m
<1> DEFINE R == OpToRel(<, Nat)
<1>1. IsWellFoundedOn(R, Nat)
  BY NatLessThanWellFounded
<1>2. \A m, k \in Nat : m < k => <<m, k>> \in R
  BY DEF OpToRel
<1> HIDE DEF R
<1>3. PICK n \in T : \A m \in T : <<m, n>> \notin R
  BY <1>1, WFMin
<1>4. \A m \in T : ~(m < n)
  BY <1>2, <1>3
<1> QED
  BY <1>4

(* Induction up to N: a set of numbers that has not 0, and has the         *)
(* predecessor of each of its elements, is empty.                          *)
LEMMA NoneLeft ==
  ASSUME NEW N \in Nat, NEW bad \in SUBSET (0 .. N), 0 \notin bad,
         \A n \in 1 .. N : n \in bad => n - 1 \in bad
  PROVE  bad = {}
<1> SUFFICES ASSUME bad # {} PROVE FALSE
  OBVIOUS
<1>1. bad \in SUBSET Nat
  OBVIOUS
<1>2. PICK n \in bad : \A m \in bad : n <= m
  BY <1>1, LeastNumber
<1>3. n \in 1 .. N /\ n - 1 \in bad
  OBVIOUS
<1> QED
  BY <1>2, <1>3

-----------------------------------------------------------------------------
(* What Only returns, for sequences of any length *)

(* One step of Only, from what is taken of the first n - 1 elements. *)
Taken(s, keep, before, n) ==
  IF n = 0 THEN <<>>
  ELSE IF s[n] \in keep THEN Append(before[n - 1], s[n]) ELSE before[n - 1]

(* t is what Only takes from the first n elements and from fewer. *)
TakenUpTo(s, keep, t, n) ==
  /\ t \in [0 .. n -> Seq(keep)]
  /\ \A i \in 0 .. n : t[i] = Taken(s, keep, t, i)

(* The recursive function in Only has a value for every prefix. *)
LEMMA TakenExists ==
  ASSUME NEW S, NEW s \in Seq(S), NEW keep
  PROVE  \A n \in 0 .. Len(s) : \E t : TakenUpTo(s, keep, t, n)
<1> DEFINE Defined(n) == \E t : TakenUpTo(s, keep, t, n)
           bad == {n \in 0 .. Len(s) : ~Defined(n)}
<1>1. Defined(0)
  <2>1. TakenUpTo(s, keep, [i \in 0 .. 0 |-> <<>>], 0)
    BY DEF TakenUpTo, Taken
  <2> QED
    BY <2>1
<1>2. ASSUME NEW n \in 1 .. Len(s), Defined(n - 1) PROVE Defined(n)
  <2>1. PICK t : TakenUpTo(s, keep, t, n - 1)
    BY <1>2
  <2> DEFINE u == [i \in 0 .. n |-> IF i = n THEN Taken(s, keep, t, n) ELSE t[i]]
  <2>2. /\ u[n] = Taken(s, keep, t, n)
        /\ \A i \in 0 .. n - 1 : u[i] = t[i] /\ t[i] \in Seq(keep)
    BY <2>1 DEF TakenUpTo
  <2>3. Taken(s, keep, t, n) \in Seq(keep)
    <3>1. t[n - 1] \in Seq(keep)
      BY <2>2
    <3> QED
      BY <3>1 DEF Taken
  <2>4. u \in [0 .. n -> Seq(keep)]
    BY <2>2, <2>3
  <2> HIDE DEF u
  <2>5. ASSUME NEW i \in 0 .. n PROVE u[i] = Taken(s, keep, u, i)
    <3>1. i # 0 => u[i - 1] = t[i - 1]
      BY <2>2
    <3>2. Taken(s, keep, u, i) = Taken(s, keep, t, i)
      BY <3>1 DEF Taken
    <3>3. CASE i = n
      BY <3>2, <3>3, <2>2
    <3>4. CASE i \in 0 .. n - 1
      BY <3>2, <3>4, <2>1, <2>2 DEF TakenUpTo
    <3> QED
      BY <3>3, <3>4
  <2>6. TakenUpTo(s, keep, u, n)
    BY <2>4, <2>5 DEF TakenUpTo
  <2> QED
    BY <2>6
<1>3. bad = {}
  <2> HIDE DEF Defined
  <2>1. bad \in SUBSET (0 .. Len(s)) /\ Len(s) \in Nat /\ 0 \notin bad
    BY <1>1
  <2>2. \A n \in 1 .. Len(s) : n \in bad => n - 1 \in bad
    BY <1>2
  <2> HIDE DEF bad
  <2> QED
    BY <2>1, <2>2, NoneLeft
<1> QED
  BY <1>3

LEMMA OnlyTaken ==
  ASSUME NEW S, NEW s \in Seq(S), NEW keep
  PROVE  \E t : TakenUpTo(s, keep, t, Len(s)) /\ Only(s, keep) = t[Len(s)]
<1> DEFINE Def(t) == [n \in 0 .. Len(s) |->
             IF n = 0 THEN <<>>
             ELSE IF s[n] \in keep THEN Append(t[n - 1], s[n]) ELSE t[n - 1]]
           taken == CHOOSE t : t = Def(t)
<1>1. Only(s, keep) = taken[Len(s)]
  BY DEF Only
<1>2. PICK t : TakenUpTo(s, keep, t, Len(s))
  <2>1. Len(s) \in 0 .. Len(s)
    OBVIOUS
  <2> QED
    BY <2>1, TakenExists
<1>3. t = Def(t)
  BY <1>2 DEF TakenUpTo, Taken
<1>4. taken = Def(taken)
  BY <1>3
<1> DEFINE bad == {n \in 0 .. Len(s) : taken[n] # t[n]}
<1>5. bad = {}
  <2>0. /\ \A n \in 0 .. Len(s) : t[n] = Taken(s, keep, t, n)
        /\ \A n \in 0 .. Len(s) : taken[n] = Taken(s, keep, taken, n)
    <3>1. \A f : f = Def(f) => \A n \in 0 .. Len(s) : f[n] = Taken(s, keep, f, n)
      BY DEF Taken
    <3> HIDE DEF Def, taken
    <3> QED
      BY <3>1, <1>3, <1>4
  <2> HIDE DEF taken
  <2>1. taken[0] = t[0]
    BY <2>0 DEF Taken
  <2>2. ASSUME NEW n \in 1 .. Len(s), taken[n - 1] = t[n - 1] PROVE taken[n] = t[n]
    <3>1. t[n] = Taken(s, keep, t, n) /\ taken[n] = Taken(s, keep, taken, n)
      BY <2>0
    <3>2. Taken(s, keep, t, n) = Taken(s, keep, taken, n)
      BY <2>2 DEF Taken
    <3> QED
      BY <3>1, <3>2
  <2>3. bad \in SUBSET (0 .. Len(s)) /\ Len(s) \in Nat /\ 0 \notin bad
    BY <2>1
  <2>4. \A n \in 1 .. Len(s) : n \in bad => n - 1 \in bad
    BY <2>2
  <2> HIDE DEF bad
  <2> QED
    BY <2>3, <2>4, NoneLeft
<1>6. taken[Len(s)] = t[Len(s)]
  BY <1>5
<1> QED
  BY <1>1, <1>2, <1>6

(* What holds of each prefix holds of what Only returns: o is what is left *)
(* of the first n elements.                                                *)
Left(s, keep, o, n) ==
  /\ \A i \in 1 .. Len(o) : \E m \in 1 .. n : s[m] \in keep /\ o[i] = s[m]
  /\ \A m \in 1 .. n : s[m] \in keep => \E i \in 1 .. Len(o) : o[i] = s[m]
  /\ (\A m \in 1 .. n : s[m] \in keep) => Len(o) = n /\ \A i \in 1 .. n : o[i] = s[i]

(* Only returns exactly the elements that are in keep, and the sequence    *)
(* itself when all of them are.                                            *)
LEMMA OnlyReturns ==
  ASSUME NEW S, NEW s \in Seq(S), NEW keep
  PROVE  Only(s, keep) \in Seq(keep) /\ Left(s, keep, Only(s, keep), Len(s))
<1>1. PICK t : TakenUpTo(s, keep, t, Len(s)) /\ Only(s, keep) = t[Len(s)]
  BY OnlyTaken
<1> DEFINE bad == {n \in 0 .. Len(s) : ~Left(s, keep, t[n], n)}
<1>2. /\ \A n \in 0 .. Len(s) : t[n] \in Seq(keep) /\ t[n] = Taken(s, keep, t, n)
      /\ Len(s) \in Nat
  BY <1>1 DEF TakenUpTo
<1>3. Left(s, keep, t[0], 0)
  <2>1. t[0] = <<>>
    BY <1>2 DEF Taken
  <2> QED
    BY <2>1 DEF Left
<1>4. ASSUME NEW n \in 1 .. Len(s), Left(s, keep, t[n - 1], n - 1)
      PROVE  Left(s, keep, t[n], n)
  <2> DEFINE o == t[n - 1]
  <2>1. /\ o \in Seq(keep) /\ n - 1 \in 0 .. Len(s) /\ n \in Nat
        /\ t[n] = IF s[n] \in keep THEN Append(o, s[n]) ELSE o
    BY <1>2 DEF Taken
  <2>2. Left(s, keep, o, n - 1)
    BY <1>4
  <2> HIDE DEF o
  <2>3. CASE s[n] \notin keep
    BY <2>1, <2>2, <2>3 DEF Left
  <2>4. CASE s[n] \in keep
    <3> DEFINE p == Append(o, s[n])
    <3>1. /\ t[n] = p /\ Len(p) = Len(o) + 1 /\ p[Len(o) + 1] = s[n]
          /\ \A i \in 1 .. Len(o) : p[i] = o[i]
          /\ Len(o) \in Nat
      BY <2>1, <2>4
    <3> HIDE DEF p
    <3>2. \A i \in 1 .. Len(p) : \E m \in 1 .. n : s[m] \in keep /\ p[i] = s[m]
      <4> TAKE i \in 1 .. Len(p)
      <4>1. CASE i = Len(o) + 1
        BY <4>1, <3>1, <2>4
      <4>2. CASE i \in 1 .. Len(o)
        BY <4>2, <3>1, <2>2, <2>1 DEF Left
      <4> QED
        BY <4>1, <4>2, <3>1
    <3>3. \A m \in 1 .. n : s[m] \in keep => \E i \in 1 .. Len(p) : p[i] = s[m]
      <4> SUFFICES ASSUME NEW m \in 1 .. n, s[m] \in keep
                   PROVE  \E i \in 1 .. Len(p) : p[i] = s[m]
        OBVIOUS
      <4>1. CASE m = n
        <5>1. Len(o) + 1 \in 1 .. Len(p)
          BY <3>1
        <5> QED
          BY <4>1, <5>1, <3>1
      <4>2. CASE m \in 1 .. n - 1
        <5>1. PICK i \in 1 .. Len(o) : o[i] = s[m]
          BY <4>2, <2>2 DEF Left
        <5>2. i \in 1 .. Len(p) /\ p[i] = s[m]
          BY <5>1, <3>1
        <5> QED
          BY <5>2
      <4> QED
        BY <4>1, <4>2, <2>1
    <3>4. (\A m \in 1 .. n : s[m] \in keep) =>
            Len(p) = n /\ \A i \in 1 .. n : p[i] = s[i]
      <4> SUFFICES ASSUME \A m \in 1 .. n : s[m] \in keep
                   PROVE  Len(p) = n /\ \A i \in 1 .. n : p[i] = s[i]
        OBVIOUS
      <4>1. Len(o) = n - 1 /\ \A i \in 1 .. n - 1 : o[i] = s[i]
        BY <2>1, <2>2 DEF Left
      <4> QED
        BY <4>1, <3>1, <2>1
    <3> QED
      BY <3>1, <3>2, <3>3, <3>4 DEF Left
  <2> QED
    BY <2>3, <2>4
<1>5. bad = {}
  <2>1. bad \in SUBSET (0 .. Len(s)) /\ 0 \notin bad
    BY <1>3
  <2>2. \A n \in 1 .. Len(s) : n \in bad => n - 1 \in bad
    BY <1>4
  <2> HIDE DEF bad
  <2> QED
    BY <1>2, <2>1, <2>2, NoneLeft
<1> QED
  BY <1>1, <1>2, <1>5

(* Only in the words that its uses need. *)
LEMMA OnlyElements ==
  ASSUME NEW S, NEW s \in Seq(S), NEW keep
  PROVE  /\ Only(s, keep) \in Seq(S)
         /\ \A i \in DOMAIN Only(s, keep) :
              \E n \in DOMAIN s : s[n] \in keep /\ Only(s, keep)[i] = s[n]
         /\ \A n \in DOMAIN s :
              s[n] \in keep => \E i \in DOMAIN Only(s, keep) : Only(s, keep)[i] = s[n]
<1> DEFINE o == Only(s, keep)
<1>1. o \in Seq(keep) /\ Left(s, keep, o, Len(s))
  BY OnlyReturns
<1> HIDE DEF o
<1>2. DOMAIN o = 1 .. Len(o) /\ DOMAIN s = 1 .. Len(s) /\ Len(o) \in Nat
  BY <1>1
<1>3. \A i \in 1 .. Len(o) : o[i] \in S
  BY <1>1 DEF Left
<1>4. o \in Seq(S)
  BY <1>1, <1>2, <1>3
<1>5. /\ \A i \in DOMAIN o : \E n \in DOMAIN s : s[n] \in keep /\ o[i] = s[n]
      /\ \A n \in DOMAIN s : s[n] \in keep => \E i \in DOMAIN o : o[i] = s[n]
  BY <1>1, <1>2 DEF Left
<1> QED
  BY <1>4, <1>5 DEF o

LEMMA OnlyAll ==
  ASSUME NEW S, NEW s \in Seq(S), NEW keep, \A n \in DOMAIN s : s[n] \in keep
  PROVE  Only(s, keep) = s
<1> DEFINE o == Only(s, keep)
<1>1. o \in Seq(keep) /\ Left(s, keep, o, Len(s)) /\ o \in Seq(S)
  BY OnlyReturns, OnlyElements
<1> HIDE DEF o
<1>2. Len(o) = Len(s) /\ \A i \in 1 .. Len(s) : o[i] = s[i]
  BY <1>1 DEF Left
<1>3. o = s
  BY <1>1, <1>2
<1> QED
  BY <1>3 DEF o

LEMMA OnlyNone ==
  ASSUME NEW S, NEW s \in Seq(S), NEW keep
  PROVE  Only(s, keep) = <<>> <=> \A n \in DOMAIN s : s[n] \notin keep
<1> DEFINE o == Only(s, keep)
<1>1. /\ o \in Seq(S)
      /\ \A i \in DOMAIN o : \E n \in DOMAIN s : s[n] \in keep /\ o[i] = s[n]
      /\ \A n \in DOMAIN s : s[n] \in keep => \E i \in DOMAIN o : o[i] = s[n]
  BY OnlyElements
<1> HIDE DEF o
<1>2. o = <<>> <=> DOMAIN o = {}
  BY <1>1
<1>3. o = <<>> <=> \A n \in DOMAIN s : s[n] \notin keep
  BY <1>1, <1>2
<1> QED
  BY <1>3 DEF o

-----------------------------------------------------------------------------
(* What the readers return *)

(* Scope values: the parts between colons, of which there is at least one. *)
Values == Seq(Segments) \ {<<>>}

(* The values that start with the name are those of AuthSessionValues. *)
LEMMA Hits ==
  ASSUME NEW p \in Seq(Values)
  PROVE  /\ AuthSessionValues(p) \in Seq(Values)
         /\ \A i \in DOMAIN AuthSessionValues(p) :
              \E n \in DOMAIN p : StartsWithAuthSession(p[n]) /\ AuthSessionValues(p)[i] = p[n]
         /\ \A n \in DOMAIN p : StartsWithAuthSession(p[n]) =>
              \E i \in DOMAIN AuthSessionValues(p) : AuthSessionValues(p)[i] = p[n]
<1> DEFINE keep == {v \in {p[i] : i \in DOMAIN p} : StartsWithAuthSession(v)}
<1>1. AuthSessionValues(p) = Only(p, keep)
  BY DEF AuthSessionValues
<1>2. \A n \in DOMAIN p : p[n] \in keep <=> StartsWithAuthSession(p[n])
  OBVIOUS
<1> HIDE DEF keep
<1> QED
  BY <1>1, <1>2, OnlyElements

LEMMA Granted ==
  ASSUME scopes \in Seq(Values)
  PROVE  /\ GrantedValues \in Seq(Values)
         /\ \A i \in DOMAIN GrantedValues : \E n \in DOMAIN scopes : GrantedValues[i] = scopes[n]
         /\ \A n \in DOMAIN scopes : ParseScopeValue(scopes[n]).kind # "ignored" =>
              \E i \in DOMAIN GrantedValues : GrantedValues[i] = scopes[n]
<1> DEFINE keep == {v \in {scopes[i] : i \in DOMAIN scopes} : ParseScopeValue(v).kind # "ignored"}
<1>1. GrantedValues = Only(scopes, keep)
  BY DEF GrantedValues
<1>2. \A n \in DOMAIN scopes : ParseScopeValue(scopes[n]).kind # "ignored" => scopes[n] \in keep
  OBVIOUS
<1> HIDE DEF keep
<1> QED
  BY <1>1, <1>2, OnlyElements

LEMMA Single ==
  ASSUME NEW S, NEW x \in S
  PROVE  <<x>> \in Seq(S) /\ Len(<<x>>) = 1 /\ \A n \in DOMAIN <<x>> : <<x>>[n] = x
OBVIOUS

LEMMA Pair ==
  ASSUME NEW S, NEW x \in S, NEW y \in S
  PROVE  /\ <<x, y>> \in Seq(S) /\ Len(<<x, y>>) = 2
         /\ <<x, y>>[1] = x /\ <<x, y>>[2] = y
         /\ \A n \in DOMAIN <<x, y>> : <<x, y>>[n] \in {x, y}
         /\ SubSeq(<<x, y>>, 1, 1) = <<x>>
<1> DEFINE p == SubSeq(<<x, y>>, 1, 1)
<1>1. p \in Seq(S) /\ Len(p) = 1 /\ p[1] = x
  OBVIOUS
<1> HIDE DEF p
<1>2. p = <<x>>
  BY <1>1
<1> QED
  BY <1>2 DEF p

(* One step of WithoutName, from what is read of the first n - 1 segments. *)
Reading(v, before, n) ==
  IF n = 0 THEN <<>>
  ELSE IF n > 1 /\ EndsInName(v[n - 1]) THEN Joined(before[n - 1], v[n])
  ELSE Append(before[n - 1], v[n])

(* t is what WithoutName reads of the first n segments and of fewer. *)
ReadUpTo(v, t, n) ==
  /\ t \in [0 .. n -> Seq(Segments)]
  /\ \A i \in 0 .. n : t[i] = Reading(v, t, i) /\ (i # 0 => t[i] # <<>>)

(* Joining changes the last segment only. *)
LEMMA JoinedSegments ==
  ASSUME NEW r \in Seq(Segments), r # <<>>, NEW g \in Segments
  PROVE  /\ Joined(r, g) \in Seq(Segments) /\ Len(Joined(r, g)) = Len(r)
         /\ Joined(r, g) # <<>>
         /\ r = <<Name>> => Joined(r, g) = <<g>>
<1> DEFINE x == r[Len(r)]
           y == SubSeq(x, 1, Len(x) - 1) \o g
<1>1. /\ r \in Seq(Seq(Pieces)) /\ Len(r) \in Nat \ {0} /\ x \in Seq(Pieces) /\ g \in Seq(Pieces)
  BY DEF Segments
<1>2. y \in Seq(Pieces)
  <2>1. SubSeq(x, 1, Len(x) - 1) \in Seq(Pieces)
    BY <1>1
  <2> QED
    BY <1>1, <2>1
<1>3. Joined(r, g) = [r EXCEPT ![Len(r)] = y]
  BY DEF Joined
<1>4. r = <<Name>> => y = g
  <2> SUFFICES ASSUME r = <<Name>> PROVE y = g
    OBVIOUS
  <2>1. x = Name
    BY DEF Name
  <2>2. SubSeq(x, 1, Len(x) - 1) = <<>>
    BY <2>1 DEF Name
  <2>3. \A z \in Seq(Pieces) : <<>> \o z = z
    OBVIOUS
  <2> HIDE DEF x
  <2>4. y = <<>> \o g
    BY <2>2
  <2> HIDE DEF y
  <2> QED
    BY <1>1, <2>3, <2>4
<1> HIDE DEF y, x
<1>5. Joined(r, g) \in Seq(Segments) /\ Len(Joined(r, g)) = Len(r) /\ Joined(r, g)[Len(r)] = y
  BY <1>1, <1>2, <1>3 DEF Segments
<1>6. r = <<Name>> => Joined(r, g) = <<g>>
  <2> SUFFICES ASSUME r = <<Name>> PROVE Joined(r, g) = <<g>>
    OBVIOUS
  <2>1. Len(r) = 1
    OBVIOUS
  <2> DEFINE j == Joined(r, g)
  <2>2. j \in Seq(Segments) /\ Len(j) = 1 /\ j[1] = g
    BY <1>4, <1>5, <2>1
  <2> HIDE DEF j
  <2>3. j = <<g>>
    BY <2>2
  <2> QED
    BY <2>3 DEF j
<1> QED
  BY <1>1, <1>5, <1>6

LEMMA AppendedSegments ==
  ASSUME NEW r \in Seq(Segments), NEW g \in Segments
  PROVE  Append(r, g) \in Seq(Segments) /\ Append(r, g) # <<>> /\ Len(Append(r, g)) = Len(r) + 1
<1> DEFINE o == Append(r, g)
<1>1. o \in Seq(Segments) /\ Len(o) = Len(r) + 1 /\ Len(r) \in Nat
  OBVIOUS
<1> HIDE DEF o
<1>2. o # <<>>
  BY <1>1
<1> QED
  BY <1>1, <1>2 DEF o

LEMMA ReadExists ==
  ASSUME NEW v \in Seq(Segments)
  PROVE  \A n \in 0 .. Len(v) : \E t : ReadUpTo(v, t, n)
<1> DEFINE Defined(n) == \E t : ReadUpTo(v, t, n)
           bad == {n \in 0 .. Len(v) : ~Defined(n)}
<1>1. Defined(0)
  <2>1. ReadUpTo(v, [i \in 0 .. 0 |-> <<>>], 0)
    BY DEF ReadUpTo, Reading
  <2> QED
    BY <2>1
<1>2. ASSUME NEW n \in 1 .. Len(v), Defined(n - 1) PROVE Defined(n)
  <2>1. PICK t : ReadUpTo(v, t, n - 1)
    BY <1>2
  <2> DEFINE u == [i \in 0 .. n |-> IF i = n THEN Reading(v, t, n) ELSE t[i]]
  <2>2. /\ u[n] = Reading(v, t, n)
        /\ \A i \in 0 .. n - 1 : u[i] = t[i] /\ t[i] \in Seq(Segments) /\ (i # 0 => t[i] # <<>>)
    BY <2>1 DEF ReadUpTo
  <2>3. Reading(v, t, n) \in Seq(Segments) /\ Reading(v, t, n) # <<>>
    <3>1. t[n - 1] \in Seq(Segments) /\ (n > 1 => t[n - 1] # <<>>) /\ v[n] \in Segments
      BY <2>2
    <3>2. n > 1 => Joined(t[n - 1], v[n]) \in Seq(Segments) /\ Joined(t[n - 1], v[n]) # <<>>
      BY <3>1, JoinedSegments
    <3>3. Append(t[n - 1], v[n]) \in Seq(Segments) /\ Append(t[n - 1], v[n]) # <<>>
      BY <3>1, AppendedSegments
    <3> QED
      BY <3>2, <3>3 DEF Reading
  <2>4. u \in [0 .. n -> Seq(Segments)]
    BY <2>2, <2>3
  <2> HIDE DEF u
  <2>5. ASSUME NEW i \in 0 .. n PROVE u[i] = Reading(v, u, i) /\ (i # 0 => u[i] # <<>>)
    <3>1. i # 0 => u[i - 1] = t[i - 1]
      BY <2>2
    <3>2. Reading(v, u, i) = Reading(v, t, i)
      BY <3>1 DEF Reading
    <3>3. CASE i = n
      BY <3>2, <3>3, <2>2, <2>3
    <3>4. CASE i \in 0 .. n - 1
      BY <3>2, <3>4, <2>1, <2>2 DEF ReadUpTo
    <3> QED
      BY <3>3, <3>4
  <2>6. ReadUpTo(v, u, n)
    BY <2>4, <2>5 DEF ReadUpTo
  <2> QED
    BY <2>6
<1>3. bad = {}
  <2> HIDE DEF Defined
  <2>1. bad \in SUBSET (0 .. Len(v)) /\ Len(v) \in Nat /\ 0 \notin bad
    BY <1>1
  <2>2. \A n \in 1 .. Len(v) : n \in bad => n - 1 \in bad
    BY <1>2
  <2> HIDE DEF bad
  <2> QED
    BY <2>1, <2>2, NoneLeft
<1> QED
  BY <1>3

LEMMA WithoutNameRead ==
  ASSUME NEW v \in Seq(Segments)
  PROVE  \E t : ReadUpTo(v, t, Len(v)) /\ WithoutName(v) = t[Len(v)]
<1> DEFINE Def(t) == [n \in 0 .. Len(v) |->
             IF n = 0 THEN <<>>
             ELSE IF n > 1 /\ EndsInName(v[n - 1]) THEN Joined(t[n - 1], v[n])
             ELSE Append(t[n - 1], v[n])]
           read == CHOOSE t : t = Def(t)
<1>1. WithoutName(v) = read[Len(v)]
  BY DEF WithoutName
<1>2. PICK t : ReadUpTo(v, t, Len(v))
  <2>1. Len(v) \in 0 .. Len(v)
    OBVIOUS
  <2> QED
    BY <2>1, ReadExists
<1>3. t = Def(t)
  BY <1>2 DEF ReadUpTo, Reading
<1>4. read = Def(read)
  BY <1>3
<1> DEFINE bad == {n \in 0 .. Len(v) : read[n] # t[n]}
<1>5. bad = {}
  <2>0. /\ \A n \in 0 .. Len(v) : t[n] = Reading(v, t, n)
        /\ \A n \in 0 .. Len(v) : read[n] = Reading(v, read, n)
    <3>1. \A f : f = Def(f) => \A n \in 0 .. Len(v) : f[n] = Reading(v, f, n)
      BY DEF Reading
    <3> HIDE DEF Def, read
    <3> QED
      BY <3>1, <1>3, <1>4
  <2> HIDE DEF read
  <2>1. read[0] = t[0]
    BY <2>0 DEF Reading
  <2>2. ASSUME NEW n \in 1 .. Len(v), read[n - 1] = t[n - 1] PROVE read[n] = t[n]
    <3>1. t[n] = Reading(v, t, n) /\ read[n] = Reading(v, read, n)
      BY <2>0
    <3>2. Reading(v, t, n) = Reading(v, read, n)
      BY <2>2 DEF Reading
    <3> QED
      BY <3>1, <3>2
  <2>3. bad \in SUBSET (0 .. Len(v)) /\ Len(v) \in Nat /\ 0 \notin bad
    BY <2>1
  <2>4. \A n \in 1 .. Len(v) : n \in bad => n - 1 \in bad
    BY <2>2
  <2> HIDE DEF bad
  <2> QED
    BY <2>3, <2>4, NoneLeft
<1>6. read[Len(v)] = t[Len(v)]
  BY <1>5
<1> QED
  BY <1>1, <1>2, <1>6

(* What is read of the first n segments: one segment, if all but the last  *)
(* of these end in the name; and then the last one as it is, if those are  *)
(* nothing but the name.                                                   *)
ReadSoFar(v, r, n) ==
  /\ Len(r) = 1 <=> \A i \in 1 .. n - 1 : EndsInName(v[i])
  /\ Len(r) = 1 /\ ~LongNamed(v) => r = <<v[n]>>

LEMMA Stripped ==
  ASSUME NEW v \in Values
  PROVE  WithoutName(v) \in Values /\ ReadSoFar(v, WithoutName(v), Len(v))
<1>0. v \in Seq(Segments) /\ Len(v) \in Nat \ {0}
  BY DEF Values
<1>1. PICK t : ReadUpTo(v, t, Len(v)) /\ WithoutName(v) = t[Len(v)]
  BY <1>0, WithoutNameRead
<1>2. \A n \in 0 .. Len(v) : t[n] \in Seq(Segments) /\ t[n] = Reading(v, t, n) /\ (n # 0 => t[n] # <<>>)
  BY <1>1 DEF ReadUpTo
<1> DEFINE bad == {n \in 0 .. Len(v) : n # 0 /\ ~ReadSoFar(v, t[n], n)}
<1>3. ReadSoFar(v, t[1], 1)
  <2>1. t[0] = <<>> /\ t[1] = Append(t[0], v[1]) /\ v[1] \in Segments
    <3>1. 0 \in 0 .. Len(v) /\ 1 \in 0 .. Len(v)
      BY <1>0
    <3>2. t[0] = Reading(v, t, 0) /\ t[1] = Reading(v, t, 1)
      BY <1>2, <3>1
    <3>3. Reading(v, t, 0) = <<>> /\ Reading(v, t, 1) = Append(t[0], v[1])
      BY DEF Reading
    <3>4. v[1] \in Segments
      BY <1>0
    <3> QED
      BY <3>2, <3>3, <3>4
  <2>2. t[1] = <<v[1]>>
    BY <2>1
  <2> QED
    BY <2>1, <2>2 DEF ReadSoFar
<1>4. ASSUME NEW n \in 2 .. Len(v), ReadSoFar(v, t[n - 1], n - 1) PROVE ReadSoFar(v, t[n], n)
  <2>1. /\ t[n - 1] \in Seq(Segments) /\ t[n - 1] # <<>> /\ v[n] \in Segments /\ v[n - 1] \in Segments
        /\ Len(t[n - 1]) \in Nat \ {0}
    BY <1>0, <1>2
  <2>2. CASE EndsInName(v[n - 1])
    <3>1. t[n] = Joined(t[n - 1], v[n])
      BY <1>2, <2>2 DEF Reading
    <3>2. /\ Len(t[n]) = Len(t[n - 1])
          /\ t[n - 1] = <<Name>> => t[n] = <<v[n]>>
      BY <2>1, <3>1, JoinedSegments
    <3>3. Len(t[n]) = 1 <=> \A i \in 1 .. n - 1 : EndsInName(v[i])
      BY <1>4, <2>2, <3>2 DEF ReadSoFar
    <3>4. ~LongNamed(v) => v[n - 1] = Name
      BY <1>0, <2>2 DEF LongNamed
    <3> QED
      BY <1>4, <3>2, <3>3, <3>4 DEF ReadSoFar
  <2>3. CASE ~EndsInName(v[n - 1])
    <3>1. t[n] = Append(t[n - 1], v[n])
      <4>1. n \in 0 .. Len(v) /\ n # 0
        BY <1>0
      <4> QED
        BY <1>2, <2>3, <4>1 DEF Reading
    <3>2. Len(t[n]) # 1
      BY <2>1, <3>1, AppendedSegments
    <3> QED
      BY <2>3, <3>2 DEF ReadSoFar
  <2> QED
    BY <2>2, <2>3
<1>5. bad = {}
  <2>1. bad \in SUBSET (0 .. Len(v)) /\ 0 \notin bad
    OBVIOUS
  <2>2. \A n \in 1 .. Len(v) : n \in bad => n - 1 \in bad
    BY <1>3, <1>4
  <2> HIDE DEF bad
  <2> QED
    BY <1>0, <2>1, <2>2, NoneLeft
<1> QED
  BY <1>0, <1>1, <1>2, <1>5 DEF Values

(* A value that strips to a session alone is not the bare name; and if no  *)
(* segment of it is longer than the name and ends in it, it is the name    *)
(* and nothing else up to its last segment, which is the session: then the *)
(* scope parser reads the same session from it, if it reads one.           *)
LEMMA StrippedToSession ==
  ASSUME NEW v \in Values, NEW a \in AuthSessions, WithoutName(v) = <<a>>
  PROVE  /\ ParseScopeValue(v).kind = "parameterized" /\ ~LongNamed(v) => ParseScopeValue(v).value = a
         /\ ParseScopeValue(v).kind # "ignored"
<1>0. v \in Seq(Segments) /\ Len(v) \in Nat \ {0}
  BY DEF Values
<1>1. /\ a \in Segments /\ a # <<>> /\ a # Name /\ ~EndsInName(a)
  BY SegmentAssumption DEF Segments, Name, EndsInName
<1>2. Len(<<a>>) = 1 /\ <<a>>[1] = a
  BY <1>1
<1>3. ReadSoFar(v, <<a>>, Len(v))
  BY Stripped
<1>4. v # <<Name>>
  <2> SUFFICES ASSUME v = <<Name>> PROVE FALSE
    OBVIOUS
  <2>1. Len(v) = 1 /\ v[1] = Name /\ DOMAIN v = {1}
    OBVIOUS
  <2>2. ~LongNamed(v)
    BY <2>1 DEF LongNamed
  <2>3. <<a>> = <<v[1]>>
    BY <1>2, <1>3, <2>1, <2>2 DEF ReadSoFar
  <2> QED
    BY <1>1, <2>1, <2>3
<1>5. ASSUME ~LongNamed(v)
      PROVE  Parameters(v) = v /\ v[Len(v)] = a
  <2>1. v[Len(v)] = a
    <3>1. <<a>> = <<v[Len(v)]>>
      BY <1>2, <1>3, <1>5 DEF ReadSoFar
    <3> QED
      BY <3>1
  <2>2. \A i \in 1 .. Len(v) - 1 : v[i] = Name
    BY <1>0, <1>2, <1>3, <1>5 DEF ReadSoFar, LongNamed
  <2>3. \A n \in DOMAIN v : v[n] \in Segments \ {<<>>}
    <3> TAKE n \in DOMAIN v
    <3>1. n \in 1 .. Len(v) - 1 \/ n = Len(v)
      BY <1>0
    <3>2. Name \in Segments /\ Name # <<>>
      BY SegmentAssumption DEF Name, Segments
    <3> QED
      BY <1>1, <2>1, <2>2, <3>1, <3>2
  <2> QED
    BY <1>0, <2>1, <2>3, OnlyAll DEF Parameters
<1>6. ParseScopeValue(v).kind # "ignored"
  BY <1>4 DEF ParseScopeValue
<1>7. ASSUME ParseScopeValue(v).kind = "parameterized", ~LongNamed(v)
      PROVE  ParseScopeValue(v).value = a
  BY <1>5, <1>7 DEF ParseScopeValue
<1> QED
  BY <1>6, <1>7

(* A console program's value: the name and a session. *)
LEMMA NameAndSession ==
  ASSUME NEW a \in AuthSessions
  PROVE  /\ WithoutName(<<Name, a>>) = <<a>>
         /\ Allowed(<<Name, a>>)
<1> DEFINE v == <<Name, a>>
<1>1. /\ a \in Segments /\ a # <<>> /\ a # Name /\ ~EndsInName(a)
      /\ Name \in Segments /\ Name # <<>> /\ EndsInName(Name) /\ Name \in AllowedScopes
  BY SegmentAssumption DEF Segments, Name, EndsInName
<1> HIDE DEF v
<1>2. /\ v \in Seq(Segments) /\ Len(v) = 2
      /\ v[1] = Name /\ v[2] = a
      /\ \A n \in DOMAIN v : v[n] \in {Name, a}
  <2>1. \A x, y \in Segments :
          /\ <<x, y>> \in Seq(Segments) /\ Len(<<x, y>>) = 2
          /\ <<x, y>>[1] = x /\ <<x, y>>[2] = y
          /\ \A n \in DOMAIN <<x, y>> : <<x, y>>[n] \in {x, y}
    BY Pair
  <2> QED
    BY <1>1, <2>1, Zenon DEF v
<1>3. WithoutName(v) = <<a>>
  <2>1. v \in Values
    BY <1>2 DEF Values
  <2>2. ReadSoFar(v, WithoutName(v), 2)
    BY <1>2, <2>1, Stripped
  <2>3. \A i \in 1 .. 2 - 1 : EndsInName(v[i])
    BY <1>1, <1>2
  <2>4. ~LongNamed(v)
    BY <1>1, <1>2 DEF LongNamed
  <2> QED
    BY <1>2, <2>2, <2>3, <2>4 DEF ReadSoFar
<1>4. Parameters(v) = v
  <2>1. \A n \in DOMAIN v : v[n] \in Segments \ {<<>>}
    BY <1>1, <1>2
  <2> QED
    BY <1>2, <2>1, OnlyAll DEF Parameters
<1>5. HasPrefix(v) /\ Len(Parameters(v)) = 2
  BY <1>2, <1>4 DEF HasPrefix
<1>6. ParseScopeValue(v).kind = "parameterized" /\ ParseScopeValue(v).name = Name
  BY <1>5 DEF ParseScopeValue
<1>7. Allowed(v)
  BY <1>1, <1>6 DEF Allowed
<1> QED
  BY <1>3, <1>7 DEF v

-----------------------------------------------------------------------------
(* The invariant: the validator let the request through because the scope  *)
(* has the session of the assertion, the claims are what it grants, and    *)
(* what was served is read from them.                                      *)
Typed == TypeOK /\ scopes \in Seq(Values)

Trace ==
  /\ step \in {"authenticated", "granted", "served"} =>
       GetAuthSessionRefFromRequestedScope(scopes) = <<authSession>>
  /\ claims = IF step \in {"granted", "served"} THEN GrantedValues ELSE <<>>
  /\ step = "served" => served = GetAuthSession(claims)

IInv == Typed /\ Trace /\ ConsoleScopesPass

LEMMA InitHolds == Init => IInv
<1> SUFFICES ASSUME Init PROVE IInv
  OBVIOUS
<1>1. scopes \in Seq(Seq(Segments)) /\ \A i \in DOMAIN scopes : scopes[i] # <<>>
  BY SegmentAssumption DEF Init
<1>2. scopes \in Seq(Values)
  BY <1>1 DEF Values
<1>3. Typed
  BY <1>1, <1>2 DEF Init, Typed, TypeOK, Null
<1>4. Trace /\ ConsoleScopesPass
  BY DEF Init, Trace, ConsoleScopesPass
<1> QED
  BY <1>3, <1>4 DEF IInv

(* The request of a console program: its only value about auth_session is  *)
(* the second one.                                                         *)
LEMMA ConsoleHits ==
  ASSUME scopes \in Seq(Values), authSession \in AuthSessions,
         Len(scopes) = 2, ~StartsWithAuthSession(scopes[1]),
         scopes[2] = <<Name, authSession>>
  PROVE  GetAuthSessionRefFromRequestedScope(scopes) = <<authSession>>
<1> DEFINE hits == AuthSessionValues(scopes)
<1>1. /\ hits \in Seq(Values)
      /\ \A i \in DOMAIN hits :
           \E n \in DOMAIN scopes : StartsWithAuthSession(scopes[n]) /\ hits[i] = scopes[n]
      /\ \A n \in DOMAIN scopes : StartsWithAuthSession(scopes[n]) =>
           \E i \in DOMAIN hits : hits[i] = scopes[n]
  BY Hits
<1>2. DOMAIN scopes = 1 .. 2
  OBVIOUS
<1>3. StartsWithAuthSession(scopes[2])
  <2>1. Name \in Segments /\ authSession \in Segments
    BY SegmentAssumption DEF Segments, Name
  <2>2. <<Name, authSession>>[1] = Name
    BY <2>1, Pair, Zenon
  <2>3. scopes[2][1] = Name
    BY <2>2, Zenon
  <2> QED
    BY <2>3 DEF StartsWithAuthSession, Name
<1> HIDE DEF hits
<1>4. hits # <<>> /\ hits[1] = scopes[2]
  <2>1. PICK i \in DOMAIN hits : hits[i] = scopes[2]
    BY <1>1, <1>2, <1>3
  <2>2. DOMAIN hits = 1 .. Len(hits) /\ Len(hits) \in Nat
    BY <1>1
  <2>3. 1 \in DOMAIN hits
    BY <2>1, <2>2
  <2>4. hits[1] = scopes[2]
    BY <2>3, <1>1, <1>2, <1>3
  <2> QED
    BY <2>2, <2>3, <2>4
<1>5. GetAuthSessionRefFromRequestedScope(scopes) = WithoutName(scopes[2])
  BY <1>4 DEF GetAuthSessionRefFromRequestedScope, FirstAuthSession, hits
<1> QED
  BY <1>5, NameAndSession

(* Its plain scope is the name of a scope that its client may have. *)
LEMMA PlainScope ==
  ASSUME NEW v \in Values, Len(v) = 1, v[1] \in AllowedScopes \ {Name}
  PROVE  Allowed(v)
<1>1. ~HasPrefix(v)
  BY DEF HasPrefix
<1>2. v # <<Name>>
  BY DEF HasPrefix
<1>3. ParseScopeValue(v).kind = "plain" /\ ParseScopeValue(v).name = v[1]
  BY <1>1, <1>2 DEF ParseScopeValue
<1> QED
  BY <1>3 DEF Allowed

LEMMA AuthenticatePreserves == ASSUME IInv, Authenticate PROVE IInv'
<1>1. /\ step = "requested" /\ UNCHANGED <<scopes, authSession, claims, served>>
      /\ step' = IF GetAuthSessionRefFromRequestedScope(scopes) = <<authSession>>
                   THEN "authenticated" ELSE "refused"
  BY DEF Authenticate
<1>2. Typed'
  BY <1>1 DEF IInv, Typed, TypeOK
<1>3. Trace'
  BY <1>1
     DEF IInv, Trace, GetAuthSessionRefFromRequestedScope, FirstAuthSession,
         AuthSessionValues
<1>4. ConsoleScopesPass'
  BY <1>1, ConsoleHits DEF IInv, Typed, TypeOK, ConsoleScopesPass
<1> QED
  BY <1>2, <1>3, <1>4 DEF IInv

LEMMA GrantPreserves == ASSUME IInv, Grant PROVE IInv'
<1> DEFINE all == \A i \in DOMAIN scopes : Allowed(scopes[i])
<1>1. /\ step = "authenticated" /\ UNCHANGED <<scopes, authSession, served>>
      /\ step' = IF all THEN "granted" ELSE "refused"
      /\ claims' = IF all THEN GrantedValues ELSE claims
  BY DEF Grant
<1>2. /\ GrantedValues' = GrantedValues
      /\ GetAuthSessionRefFromRequestedScope(scopes)' = GetAuthSessionRefFromRequestedScope(scopes)
  BY <1>1 DEF GrantedValues, GetAuthSessionRefFromRequestedScope
<1>3. Typed'
  <2>1. claims = <<>>
    BY <1>1 DEF IInv, Trace
  <2>2. \A i \in DOMAIN claims' : \E n \in DOMAIN scopes : claims'[i] = scopes[n]
    BY <1>1, <2>1, Granted DEF IInv, Typed
  <2> QED
    BY <1>1, <2>2 DEF IInv, Typed, TypeOK
<1>4. Trace'
  BY <1>1, <1>2 DEF IInv, Trace
<1>5. ConsoleScopesPass'
  <2> SUFFICES ASSUME Len(scopes) = 2, Len(scopes[1]) = 1,
                      scopes[1][1] \in AllowedScopes \ {Name},
                      scopes[2] = <<Name, authSession>>
               PROVE  all
    BY <1>1 DEF ConsoleScopesPass
  <2>1. DOMAIN scopes = 1 .. 2 /\ scopes[1] \in Values /\ authSession \in AuthSessions
    <3>1. scopes \in Seq(Values) /\ authSession \in AuthSessions
      BY DEF IInv, Typed, TypeOK
    <3> QED
      BY <3>1
  <2>2. Allowed(scopes[1])
    BY <2>1, PlainScope
  <2>3. Allowed(scopes[2])
    BY <2>1, NameAndSession
  <2> QED
    BY <2>1, <2>2, <2>3
<1> QED
  BY <1>3, <1>4, <1>5 DEF IInv

LEMMA ServePreserves == ASSUME IInv, Serve PROVE IInv'
<1>1. /\ step = "granted" /\ step' = "served" /\ UNCHANGED <<scopes, authSession, claims>>
      /\ served' = GetAuthSession(claims)
  BY DEF Serve
<1>2. GrantedValues' = GrantedValues /\ GetAuthSession(claims)' = GetAuthSession(claims)
      /\ GetAuthSessionRefFromRequestedScope(scopes)' = GetAuthSessionRefFromRequestedScope(scopes)
  BY <1>1 DEF GrantedValues, GetAuthSession, GetAuthSessionRefFromRequestedScope
<1>3. GetAuthSession(claims) \in Seq(Segments)
  <2> DEFINE hits == AuthSessionValues(claims)
  <2>1. claims \in Seq(Values)
    BY <1>1, Granted DEF IInv, Typed, Trace
  <2>2. hits \in Seq(Values)
    BY <2>1, Hits
  <2>3. GetAuthSession(claims) = IF hits = <<>> THEN <<>> ELSE WithoutName(hits[1])
    BY DEF GetAuthSession, FirstAuthSession, Null
  <2> HIDE DEF hits
  <2>4. hits # <<>> => hits[1] \in Values
    BY <2>2
  <2> QED
    BY <2>3, <2>4, Stripped DEF Values
<1>4. Typed'
  BY <1>1, <1>3 DEF IInv, Typed, TypeOK
<1>5. Trace'
  BY <1>1, <1>2 DEF IInv, Trace
<1>6. ConsoleScopesPass'
  BY <1>1 DEF ConsoleScopesPass
<1> QED
  BY <1>4, <1>5, <1>6 DEF IInv

LEMMA InvPreserved == IInv /\ [Next]_vars => IInv'
<1> SUFFICES ASSUME IInv, [Next]_vars PROVE IInv'
  OBVIOUS
<1>1. CASE UNCHANGED vars
  BY <1>1 DEF vars, IInv, Typed, TypeOK, Trace, ConsoleScopesPass, GrantedValues,
              GetAuthSession, GetAuthSessionRefFromRequestedScope
<1> QED
  BY <1>1, AuthenticatePreserves, GrantPreserves, ServePreserves DEF Next

(* The readers agree because they read the same value: the only one of the *)
(* scope parameter that starts with the name, which is not ignored and so  *)
(* is the only such claim of the token.                                    *)
LEMMA OneValue ==
  ASSUME IInv, step = "served", OneAuthSession
  PROVE  ReadersAgree
<1> DEFINE hits   == AuthSessionValues(scopes)
           carried == AuthSessionValues(claims)
<1>1. /\ authSession \in AuthSessions /\ scopes \in Seq(Values)
      /\ GetAuthSessionRefFromRequestedScope(scopes) = <<authSession>>
      /\ claims = GrantedValues /\ served = GetAuthSession(claims)
  BY DEF IInv, Typed, TypeOK, Trace
<1>2. /\ hits \in Seq(Values) /\ Len(hits) <= 1
      /\ \A i \in DOMAIN hits :
           \E n \in DOMAIN scopes : StartsWithAuthSession(scopes[n]) /\ hits[i] = scopes[n]
      /\ \A n \in DOMAIN scopes : StartsWithAuthSession(scopes[n]) =>
           \E i \in DOMAIN hits : hits[i] = scopes[n]
  BY <1>1, Hits DEF OneAuthSession
<1>3. /\ claims \in Seq(Values)
      /\ \A i \in DOMAIN claims : \E n \in DOMAIN scopes : claims[i] = scopes[n]
      /\ \A n \in DOMAIN scopes : ParseScopeValue(scopes[n]).kind # "ignored" =>
           \E i \in DOMAIN claims : claims[i] = scopes[n]
  BY <1>1, Granted
<1>4. /\ carried \in Seq(Values)
      /\ \A i \in DOMAIN carried :
           \E n \in DOMAIN claims : StartsWithAuthSession(claims[n]) /\ carried[i] = claims[n]
      /\ \A n \in DOMAIN claims : StartsWithAuthSession(claims[n]) =>
           \E i \in DOMAIN carried : carried[i] = claims[n]
  BY <1>3, Hits
<1>5. /\ <<authSession>> = IF hits = <<>> THEN <<<<>>>> ELSE WithoutName(hits[1])
      /\ served = IF carried = <<>> THEN Null ELSE WithoutName(carried[1])
  BY <1>1 DEF GetAuthSessionRefFromRequestedScope, GetAuthSession, FirstAuthSession
<1> HIDE DEF hits, carried
<1>6. hits # <<>> /\ WithoutName(hits[1]) = <<authSession>>
  <2>1. authSession # <<>> /\ authSession \in Segments
    BY <1>1, SegmentAssumption DEF Segments
  <2>2. <<authSession>> # <<<<>>>>
    BY <2>1
  <2> QED
    BY <1>5, <2>2
<1>7. /\ 1 \in DOMAIN hits /\ hits[1] \in Values
      /\ \A i \in DOMAIN hits : i = 1
  BY <1>2, <1>6
<1>8. /\ ParseScopeValue(hits[1]).kind = "parameterized" /\ ~LongNamed(hits[1]) =>
           ParseScopeValue(hits[1]).value = authSession
      /\ ParseScopeValue(hits[1]).kind # "ignored"
  BY <1>1, <1>6, <1>7, StrippedToSession
<1>9. \A n \in DOMAIN scopes : StartsWithAuthSession(scopes[n]) => scopes[n] = hits[1]
  BY <1>2, <1>7
<1>10. served = <<authSession>>
  <2>1. PICK n \in DOMAIN scopes : StartsWithAuthSession(scopes[n]) /\ hits[1] = scopes[n]
    BY <1>2, <1>7
  <2>2. PICK i \in DOMAIN claims : claims[i] = hits[1] /\ StartsWithAuthSession(claims[i])
    BY <1>3, <1>8, <2>1
  <2>3. carried # <<>> /\ 1 \in DOMAIN carried
    <3>1. \E k \in DOMAIN carried : carried[k] = claims[i]
      BY <1>4, <2>2
    <3> QED
      BY <1>4, <3>1
  <2>4. carried[1] = hits[1]
    BY <1>3, <1>4, <1>9, <2>3
  <2> QED
    BY <1>5, <1>6, <2>3, <2>4
<1>11. ASSUME NEW n \in DOMAIN scopes, ParseScopeValue(scopes[n]).kind = "parameterized",
              ~LongNamed(scopes[n])
       PROVE  ParseScopeValue(scopes[n]).value = authSession
  <2>1. HasPrefix(scopes[n])
    BY <1>11 DEF ParseScopeValue
  <2>2. StartsWithAuthSession(scopes[n])
    BY <2>1 DEF HasPrefix, StartsWithAuthSession, Name
  <2> QED
    BY <1>8, <1>9, <1>11, <2>2
<1> QED
  BY <1>10, <1>11 DEF ReadersAgree

-----------------------------------------------------------------------------
(* Theorems *)

(* The invariant holds in every state of every behaviour. *)
THEOREM Invariance == Spec => []IInv
BY InitHolds, InvPreserved, PTL DEF Spec

(* Whatever the scope parameter, a token carries only scopes that were     *)
(* asked for, as they were asked for, and an API reads segments.           *)
THEOREM Typing == Spec => []TypeOK
<1>1. IInv => TypeOK
  BY DEF IInv, Typed
<1> QED
  BY <1>1, Invariance, PTL

(* For scope parameters of any length and shape, three parsers that take a *)
(* value apart in three ways read the same session from it; the scope      *)
(* parser only if no longer segment of the value ends in the name.         *)
THEOREM Agreement == Spec => []ReadersAgree
<1>1. IInv => ReadersAgree
  BY OneValue DEF ReadersAgree
<1> QED
  BY <1>1, Invariance, PTL

(* The request that the console programs build passes the validator and    *)
(* the scope parser, whatever the scope and the session are called.        *)
THEOREM ConsolePasses == Spec => []ConsoleScopesPass
<1>1. IInv => ConsoleScopesPass
  BY DEF IInv
<1> QED
  BY <1>1, Invariance, PTL

-----------------------------------------------------------------------------
(* The security header policies *)

(* The type invariant needs four more facts: nobody is about to add strict *)
(* transport security in development, a call that has read the field has a *)
(* policy and so has a request that applies one, and a call that has taken *)
(* a slot has one.                                                         *)
HeadersTyped ==
  /\ HeadersTypeOK
  /\ \A r \in Requests : At(r, "hsts") => ~IsDev
  /\ \A r \in Requests : Adding(r) /\ add[r].step # "read" => add[r].policy \in Requests
  /\ \A r \in Requests : Adding(r) /\ add[r].step \in {"count", "write"} => add[r].slot \in Slots
  /\ \A r \in Requests : At(r, "apply") => applied[r] \in Requests

(* The field's policy is added to by its creator, if by nobody else: who   *)
(* has not created a policy yet has not begun to add to one.               *)
OwnPolicy ==
  /\ \A r \in Requests : stage[r] \in {"new", "create"} => add[r] = NoAdd
  /\ policy # None /\ Adding(policy) /\ add[policy].step # "read" => add[policy].policy = policy

(* A call that has taken a slot and has not filled it. *)
Filling(r) == Adding(r) /\ add[r].step \in {"count", "write"}

(* To a policy without races one call inserts at a time, into a blank slot *)
(* at the end of those in use.                                             *)
OneAtATime(p) ==
  /\ \A i \in Slots : count[p] < i => InSlot(p, i) = "blank"
  /\ \A r \in Requests : Filling(r) /\ add[r].policy = p =>
       /\ InSlot(p, add[r].slot) = "blank"
       /\ add[r].step = "count" => add[r].slot = count[p] + 1
       /\ add[r].step = "write" => add[r].slot = count[p]
       /\ \A q \in Requests : Filling(q) /\ add[q].policy = p => q = r

Unraced    == \A p \in Requests : p \notin raced => OneAtATime(p)
HeadersInv == HeadersTyped /\ OwnPolicy /\ Unraced /\ PolicyIsCompleted

-----------------------------------------------------------------------------
(* Lemmas *)

LEMMA HeadersInitHolds == HeadersInit => HeadersInv
<1> SUFFICES ASSUME HeadersInit PROVE HeadersInv
  OBVIOUS
<1> USE NoneAssumption, CapacityAssumption DEF HeadersInit
<1>1. HeadersTyped
  BY DEF HeadersTyped, HeadersTypeOK, Stages, Added, At, Adding, NoAdd
<1>2. OwnPolicy
  BY DEF OwnPolicy
<1>3. Unraced
  BY DEF Unraced, OneAtATime, Filling, Adding, InSlot
<1>4. PolicyIsCompleted
  BY DEF PolicyIsCompleted
<1> QED
  BY <1>1, <1>2, <1>3, <1>4 DEF HeadersInv

(* Who is adding neither before nor after a step changes nothing that the  *)
(* invariant speaks of.                                                    *)
LEMMA QuietPreserves ==
  ASSUME HeadersInv, HeadersTyped', NEW r \in Requests, ~Adding(r),
         NEW s \in {"create", "return", "apply", "sent", "failed"}, s = "create" => At(r, "new"),
         stage' = [stage EXCEPT ![r] = s], UNCHANGED <<policyVars, add, raced>>
  PROVE  HeadersInv'
<1>1. stage \in [Requests -> Stages] /\ policy \in Requests \cup {None}
  BY DEF HeadersInv, HeadersTyped, HeadersTypeOK
<1>2. \A q \in Requests : Adding(q)' <=> Adding(q)
  BY <1>1 DEF Adding
<1>3. OwnPolicy'
  BY <1>1, <1>2 DEF HeadersInv, OwnPolicy, policyVars, Adding, At
<1>4. Unraced'
  BY <1>2 DEF HeadersInv, Unraced, OneAtATime, Filling, InSlot, policyVars
<1>5. PolicyIsCompleted'
  BY <1>1, <1>2 DEF HeadersInv, PolicyIsCompleted, HeadersOf, InSlot, At, policyVars, Adding
<1> QED
  BY <1>3, <1>4, <1>5 DEF HeadersInv

LEMMA EnterPreserves == ASSUME HeadersInv, NEW r \in Requests, Enter(r) PROVE HeadersInv'
<1>1. PICK s \in {"create", "return"} : /\ stage' = [stage EXCEPT ![r] = s]
                                        /\ s = "return" => policy # None
  BY DEF Enter, Goto
<1>2. HeadersTyped'
  BY <1>1 DEF HeadersInv, HeadersTyped, HeadersTypeOK, Stages, Enter, At, Adding, policyVars
<1> QED
  BY <1>1, <1>2, QuietPreserves DEF Enter, At, Adding

LEMMA AnswerPreserves ==
  ASSUME HeadersInv, NEW r \in Requests, Return(r) \/ Apply(r)
  PROVE  HeadersInv'
<1>1. PICK s \in {"apply", "sent", "failed"} : stage' = [stage EXCEPT ![r] = s]
  BY DEF Return, Apply, Goto
<1>2. UNCHANGED <<policyVars, add, raced>> /\ stage[r] \in {"return", "apply"}
  BY DEF Return, Apply, At
<1>3. /\ applied' \in [Requests -> Requests \cup {None}] /\ changed' = changed
      /\ Return(r) => applied'[r] \in Requests
      /\ Apply(r) => applied[r] \in Requests /\ s # "apply"
      /\ \A q \in Requests : q # r => applied'[q] = applied[q]
  BY <1>1, <1>2 DEF Return, Apply, HeadersInv, HeadersTyped, HeadersTypeOK, Stages, At, Goto
<1>4. sent' \in [Requests -> SUBSET Full]
  <2>1. ASSUME NEW o \in Requests PROVE HeadersOf(o) \subseteq Full
    <3>1. count[o] \in 0 .. Capacity /\ slots[o] \in [Slots -> Added \cup {"blank"}]
      BY DEF HeadersInv, HeadersTyped, HeadersTypeOK
    <3>2. \A i \in 1 .. count[o] : i \in Slots
      BY <3>1, CapacityAssumption DEF Slots
    <3>3. \A i \in 1 .. count[o] : InSlot(o, i) \in Added \cup {"blank"}
      BY <3>1, <3>2 DEF InSlot
    <3> QED
      BY <3>3 DEF HeadersOf, Full
  <2>2. CASE Return(r)
    BY <2>2 DEF Return, HeadersInv, HeadersTyped, HeadersTypeOK
  <2>3. CASE Apply(r)
    BY <1>3, <2>1, <2>3 DEF Apply, HeadersInv, HeadersTyped, HeadersTypeOK
  <2> QED
    BY <2>2, <2>3
<1>5. HeadersTyped'
  BY <1>1, <1>2, <1>3, <1>4 DEF HeadersInv, HeadersTyped, HeadersTypeOK, Stages, At, Adding, policyVars
<1> QED
  BY <1>1, <1>2, <1>5, QuietPreserves DEF Adding

(* The creator of the new policy is about to add what it lacks, whoever    *)
(* created the policy that it replaces.                                    *)
LEMMA CreatePreserves == ASSUME HeadersInv, NEW r \in Requests, Create(r) PROVE HeadersInv'
<1>1. /\ policy' = r /\ r # None /\ stage[r] = "create" /\ stage' = [stage EXCEPT ![r] = "csp"]
      /\ add[r] = NoAdd /\ UNCHANGED <<slots, count, add, applied, changed, sent, raced>>
  BY NoneAssumption DEF HeadersInv, OwnPolicy, Create, At, Goto
<1>2. HeadersTyped'
  BY <1>1, NoneAssumption DEF HeadersInv, HeadersTyped, HeadersTypeOK, Stages, At, Adding, NoAdd
<1>3. stage \in [Requests -> Stages]
  BY DEF HeadersInv, HeadersTyped, HeadersTypeOK
<1>4. OwnPolicy'
  BY <1>1, <1>3 DEF HeadersInv, OwnPolicy, Adding, NoAdd
<1>5. \A q \in Requests : Filling(q)' <=> Filling(q)
  BY <1>1, <1>3 DEF Filling, Adding, NoAdd
<1>6. Unraced'
  BY <1>1, <1>5 DEF HeadersInv, Unraced, OneAtATime, InSlot
<1>7. PolicyIsCompleted'
  BY <1>1, <1>3 DEF PolicyIsCompleted, At, Adding
<1> QED
  BY <1>2, <1>4, <1>6, <1>7 DEF HeadersInv

(* What a call that adds a header may rely on. *)
LEMMA AddingFacts ==
  ASSUME HeadersInv, NEW r \in Requests, Adding(r)
  PROVE  /\ policy \in Requests /\ policy # None
         /\ At(r, "csp") \/ (At(r, "hsts") /\ ~IsDev)
         /\ stage[r] \in Added
         /\ stage \in [Requests -> Stages]
         /\ add \in [Requests -> [step   : {"read", "find", "take", "count", "write"},
                                  policy : Requests \cup {None}, slot : 0 .. Capacity]]
         /\ add[r].step # "read" => add[r].policy \in Requests
<1>1. /\ policy \in Requests /\ policy # None
      /\ stage \in [Requests -> Stages]
      /\ add \in [Requests -> [step   : {"read", "find", "take", "count", "write"},
                               policy : Requests \cup {None}, slot : 0 .. Capacity]]
      /\ add[r].step # "read" => add[r].policy \in Requests
  BY NoneAssumption DEF HeadersInv, HeadersTyped, HeadersTypeOK, Adding
<1>2. stage[r] = "csp" \/ stage[r] = "hsts"
  BY DEF Adding
<1>3. stage[r] = "hsts" => ~IsDev
  BY DEF HeadersInv, HeadersTyped, At
<1>4. At(r, "csp") \/ (At(r, "hsts") /\ ~IsDev)
  BY <1>2, <1>3, Zenon DEF At
<1>5. "csp" \in Added /\ (~IsDev => "hsts" \in Added)
  BY DEF Added
<1>6. stage[r] \in Added
  BY <1>2, <1>3, <1>5
<1> QED
  BY <1>1, <1>4, <1>6, Zenon

LEMMA ReadFieldPreserves == ASSUME HeadersInv, NEW r \in Requests, ReadField(r) PROVE HeadersInv'
<1>1. /\ Adding(r) /\ add[r].step = "read"
      /\ add' = [add EXCEPT ![r] = [step |-> "find", policy |-> policy, slot |-> 0]]
      /\ UNCHANGED <<policyVars, stage, applied, changed, sent, raced>>
  BY DEF ReadField, AtStep
<1>2. HeadersTyped'
  BY <1>1, AddingFacts, CapacityAssumption
     DEF HeadersInv, HeadersTyped, HeadersTypeOK, Stages, At, Adding, policyVars
<1>3. OwnPolicy'
  BY <1>1, AddingFacts DEF HeadersInv, OwnPolicy, Adding, policyVars
<1>4. \A q \in Requests : /\ Filling(q)' <=> Filling(q)
                          /\ Filling(q) => add'[q] = add[q]
  BY <1>1, AddingFacts DEF Filling, Adding
<1>5. Unraced'
  BY <1>1, <1>4 DEF HeadersInv, Unraced, OneAtATime, InSlot, policyVars
<1>6. PolicyIsCompleted'
  BY <1>1 DEF HeadersInv, PolicyIsCompleted, HeadersOf, InSlot, At, Adding, policyVars
<1> QED
  BY <1>2, <1>3, <1>5, <1>6 DEF HeadersInv

(* A call that leaves its statement, with the header found or added, or in *)
(* an exception, leaves no header of an unraced policy out.                *)
LEMMA LeavePreserves ==
  ASSUME HeadersInv, NEW r \in Requests, Adding(r), add[r].step = "find",
         NEW s \in {"hsts", "return", "failed"}, stage' = [stage EXCEPT ![r] = s],
         add' = [add EXCEPT ![r] = NoAdd] \/ (add' = add /\ s = "failed"),
         s = "hsts" => At(r, "csp") /\ ~IsDev,
         s = "return" => At(r, "hsts") \/ IsDev,
         add[r].policy \notin raced => s # "failed" /\ stage[r] \in HeadersOf(add[r].policy),
         UNCHANGED <<policyVars, applied, changed, sent, raced>>
  PROVE  HeadersInv'
<1>1. HeadersTyped'
  BY AddingFacts, CapacityAssumption
     DEF HeadersInv, HeadersTyped, HeadersTypeOK, Stages, At, Adding, policyVars, NoAdd
<1>2. OwnPolicy'
  BY AddingFacts DEF HeadersInv, OwnPolicy, Adding, policyVars, NoAdd
<1>3. \A q \in Requests : /\ Filling(q)' <=> Filling(q)
                          /\ Filling(q) => add'[q] = add[q]
  BY AddingFacts DEF Filling, Adding, NoAdd
<1>4. Unraced'
  BY <1>3 DEF HeadersInv, Unraced, OneAtATime, InSlot, policyVars
<1>5. HeadersOf(policy)' = HeadersOf(policy)
  BY DEF HeadersOf, InSlot, policyVars
<1>6. r = policy => add[r].policy = policy
  BY AddingFacts DEF HeadersInv, OwnPolicy
<1>7. PolicyIsCompleted'
  BY <1>5, <1>6, AddingFacts, IsDevAssumption
     DEF HeadersInv, PolicyIsCompleted, At, Adding, policyVars
<1> QED
  BY <1>1, <1>2, <1>4, <1>7 DEF HeadersInv

LEMMA FindPreserves == ASSUME HeadersInv, NEW r \in Requests, Find(r) PROVE HeadersInv'
<1>1. /\ Adding(r) /\ add[r].step = "find"
      /\ UNCHANGED <<policyVars, applied, changed, sent, raced>>
  BY DEF Find, AtStep
<1>2. CASE (Finds(r) \/ add[r].policy \in raced) /\ Advance(r)
  <2>1. PICK s \in {"hsts", "return"} :
          /\ stage' = [stage EXCEPT ![r] = s]
          /\ s = "hsts" => At(r, "csp") /\ ~IsDev
          /\ s = "return" => At(r, "hsts") \/ IsDev
    BY <1>1, <1>2, AddingFacts, IsDevAssumption DEF Advance, Goto
  <2>2. add' = [add EXCEPT ![r] = NoAdd] \/ (add' = add /\ s = "failed")
    BY <1>2 DEF Advance
  <2>3. s # "failed"
    OBVIOUS
  <2>4. s \in {"hsts", "return", "failed"}
    OBVIOUS
  <2>5. add[r].policy \notin raced => s # "failed" /\ stage[r] \in HeadersOf(add[r].policy)
    BY <1>2, <2>3 DEF Finds
  <2> QED
    BY <1>1, <2>1, <2>2, <2>4, <2>5, LeavePreserves
<1>3. CASE add' = [add EXCEPT ![r].step = "take"] /\ UNCHANGED stage
  <2>1. HeadersTyped'
    BY <1>1, <1>3, AddingFacts DEF HeadersInv, HeadersTyped, HeadersTypeOK, Stages, At, Adding, policyVars
  <2>2. OwnPolicy'
    BY <1>1, <1>3, AddingFacts DEF HeadersInv, OwnPolicy, Adding, policyVars
  <2>3. \A q \in Requests : /\ Filling(q)' <=> Filling(q)
                            /\ Filling(q) => add'[q] = add[q]
    BY <1>1, <1>3, AddingFacts DEF Filling, Adding
  <2>4. Unraced'
    BY <1>1, <2>3 DEF HeadersInv, Unraced, OneAtATime, InSlot, policyVars
  <2>5. PolicyIsCompleted'
    BY <1>1, <1>3 DEF HeadersInv, PolicyIsCompleted, HeadersOf, InSlot, At, Adding, policyVars
  <2> QED
    BY <2>1, <2>2, <2>4, <2>5 DEF HeadersInv
<1>4. CASE add[r].policy \in raced /\ Goto(r, "failed") /\ UNCHANGED add
  BY <1>1, <1>4, LeavePreserves DEF Goto
<1> QED
  BY <1>2, <1>3, <1>4 DEF Find

(* Who takes a slot of an unraced policy is the only one to insert into it *)
(* and takes a blank one.                                                  *)
LEMMA TakeSlotPreserves == ASSUME HeadersInv, NEW r \in Requests, TakeSlot(r) PROVE HeadersInv'
<1> DEFINE p == add[r].policy
<1>1. /\ Adding(r) /\ add[r].step = "take" /\ p \in Requests
      /\ count[p] \in Nat /\ count[p] < Capacity /\ count \in [Requests -> Nat]
      /\ add' = [add EXCEPT ![r] = [step |-> "count", policy |-> p, slot |-> count[p] + 1]]
      /\ raced' \subseteq Requests /\ raced \subseteq raced'
      /\ Inserting(p) # {} => p \in raced'
      /\ UNCHANGED <<policyVars, stage, applied, changed, sent>>
  BY AddingFacts, CapacityAssumption
     DEF TakeSlot, AtStep, HeadersInv, HeadersTyped, HeadersTypeOK
<1>2. HeadersTyped'
  BY <1>1, AddingFacts, CapacityAssumption
     DEF HeadersInv, HeadersTyped, HeadersTypeOK, Stages, At, Adding, policyVars, Slots
<1>3. OwnPolicy'
  BY <1>1, AddingFacts DEF HeadersInv, OwnPolicy, Adding, policyVars
<1>4. \A q \in Requests : q # r => add'[q] = add[q] /\ (Filling(q)' <=> Filling(q))
  BY <1>1, AddingFacts DEF Filling, Adding
<1>5. ASSUME NEW o \in Requests, o \notin raced' PROVE OneAtATime(o)'
  <2>1. OneAtATime(o)
    BY <1>1, <1>5 DEF HeadersInv, Unraced
  <2>2. CASE o # p
    BY <1>1, <1>4, <2>1, <2>2, AddingFacts DEF OneAtATime, InSlot, policyVars
  <2>3. CASE o = p
    <3>1. \A q \in Requests : ~(Filling(q) /\ add[q].policy = p)
      BY <1>1, <1>5, <2>3 DEF Inserting, Filling, AtStep
    <3>2. count[p] + 1 \in Slots /\ count' = count /\ slots' = slots
      BY <1>1, CapacityAssumption DEF Slots, policyVars
    <3>3. add'[r] = [step |-> "count", policy |-> p, slot |-> count[p] + 1]
      BY <1>1, AddingFacts
    <3>4. InSlot(p, count[p] + 1) = "blank"
      BY <1>1, <2>1, <2>3, <3>2 DEF OneAtATime
    <3>5. \A q \in Requests : Filling(q)' /\ add'[q].policy = p => q = r
      BY <1>4, <3>1
    <3> QED
      BY <1>1, <2>1, <2>3, <3>2, <3>3, <3>4, <3>5 DEF OneAtATime, InSlot
  <2> QED
    BY <2>2, <2>3
<1>6. Unraced'
  BY <1>5 DEF Unraced
<1>7. PolicyIsCompleted'
  BY <1>1 DEF HeadersInv, PolicyIsCompleted, HeadersOf, InSlot, At, Adding, policyVars
<1> QED
  BY <1>2, <1>3, <1>6, <1>7 DEF HeadersInv

(* Counting the slot hides no header of an unraced policy: the count grows *)
(* by one.                                                                 *)
LEMMA CountSlotPreserves == ASSUME HeadersInv, NEW r \in Requests, CountSlot(r) PROVE HeadersInv'
<1> DEFINE p == add[r].policy
<1>1. /\ Filling(r) /\ Adding(r) /\ add[r].step = "count" /\ p \in Requests
      /\ add[r].slot \in Slots /\ count \in [Requests -> Nat]
      /\ count' = [count EXCEPT ![p] = add[r].slot]
      /\ add' = [add EXCEPT ![r].step = "write"]
      /\ UNCHANGED <<policy, slots, stage, applied, changed, sent, raced>>
  BY AddingFacts, CapacityAssumption
     DEF CountSlot, AtStep, Filling, HeadersInv, HeadersTyped, HeadersTypeOK
<1>2. HeadersTyped'
  BY <1>1, AddingFacts, CapacityAssumption
     DEF HeadersInv, HeadersTyped, HeadersTypeOK, Stages, At, Adding, Slots
<1>3. OwnPolicy'
  BY <1>1, AddingFacts DEF HeadersInv, OwnPolicy, Adding
<1>4. \A q \in Requests : /\ q # r => add'[q] = add[q]
                          /\ Filling(q)' <=> Filling(q)
                          /\ add'[q].policy = add[q].policy /\ add'[q].slot = add[q].slot
  BY <1>1, AddingFacts DEF Filling, Adding
<1>5. p \notin raced => add[r].slot = count[p] + 1
  BY <1>1 DEF HeadersInv, Unraced, OneAtATime
<1>6. ASSUME NEW o \in Requests, o \notin raced' PROVE OneAtATime(o)'
  <2>1. OneAtATime(o)
    BY <1>1, <1>6 DEF HeadersInv, Unraced
  <2>2. CASE o # p
    BY <1>1, <1>4, <2>1, <2>2 DEF OneAtATime, InSlot
  <2>3. CASE o = p
    <3>1. count'[p] = count[p] + 1 /\ add[r].slot = count[p] + 1 /\ slots' = slots
      BY <1>1, <1>5, <1>6, <2>3
    <3>2. \A i \in Slots : count'[p] < i => InSlot(p, i)' = "blank"
      BY <1>1, <2>1, <2>3, <3>1 DEF OneAtATime, InSlot, Slots
    <3>3. add'[r].step = "write"
      BY <1>1, AddingFacts
    <3> QED
      BY <1>1, <1>4, <2>1, <2>3, <3>1, <3>2, <3>3 DEF OneAtATime, InSlot
  <2> QED
    BY <2>2, <2>3
<1>7. Unraced'
  BY <1>6 DEF Unraced
<1>8. policy \notin raced /\ policy # None => HeadersOf(policy) \subseteq HeadersOf(policy)'
  <2> SUFFICES ASSUME policy \notin raced, policy # None
               PROVE  \A i \in 1 .. count[policy] : i \in 1 .. count'[policy]
    BY <1>1 DEF HeadersOf, InSlot
  <2> QED
    BY <1>1, <1>5, AddingFacts
<1>9. PolicyIsCompleted'
  BY <1>1, <1>8 DEF HeadersInv, PolicyIsCompleted, At, Adding
<1> QED
  BY <1>2, <1>3, <1>7, <1>9 DEF HeadersInv

(* The slot that is filled was blank, if the policy is unraced, so it has  *)
(* its headers and one more.                                               *)
LEMMA WriteSlotPreserves == ASSUME HeadersInv, NEW r \in Requests, WriteSlot(r) PROVE HeadersInv'
<1> DEFINE p == add[r].policy
           n == add[r].slot
<1>1. /\ Filling(r) /\ Adding(r) /\ add[r].step = "write" /\ p \in Requests /\ n \in Slots
      /\ slots \in [Requests -> [Slots -> Added \cup {"blank"}]] /\ count \in [Requests -> Nat]
      /\ slots' = [slots EXCEPT ![p][n] = stage[r]]
      /\ changed' \subseteq Requests
      /\ UNCHANGED <<policy, count, applied, sent, raced>>
  BY AddingFacts, CapacityAssumption
     DEF WriteSlot, AtStep, Filling, HeadersInv, HeadersTyped, HeadersTypeOK
<1>2. PICK s \in {"hsts", "return"} :
        /\ stage' = [stage EXCEPT ![r] = s] /\ add' = [add EXCEPT ![r] = NoAdd]
        /\ s = "hsts" => At(r, "csp") /\ ~IsDev
        /\ s = "return" => At(r, "hsts") \/ IsDev
  BY <1>1, AddingFacts, IsDevAssumption DEF WriteSlot, Advance, Goto
<1>3. HeadersTyped'
  <2>1. slots' \in [Requests -> [Slots -> Added \cup {"blank"}]]
    BY <1>1, AddingFacts
  <2>2. add' \in [Requests -> [step : {"read", "find", "take", "count", "write"},
                              policy : Requests \cup {None}, slot : 0 .. Capacity]]
    BY <1>1, <1>2, AddingFacts, CapacityAssumption DEF NoAdd
  <2> QED
    BY <1>1, <1>2, <2>1, <2>2, AddingFacts DEF HeadersInv, HeadersTyped, HeadersTypeOK, Stages, At, Adding, NoAdd
<1>4. OwnPolicy'
  BY <1>1, <1>2, AddingFacts DEF HeadersInv, OwnPolicy, Adding, NoAdd
<1>5. \A q \in Requests : /\ q # r => add'[q] = add[q] /\ (Filling(q)' <=> Filling(q))
                          /\ q = r => ~Filling(q)'
  BY <1>1, <1>2, AddingFacts DEF Filling, Adding, NoAdd
<1>6. \A o \in Requests : \A i \in Slots :
        InSlot(o, i)' = IF o = p /\ i = n THEN stage[r] ELSE InSlot(o, i)
  BY <1>1 DEF InSlot
<1>7. p \notin raced => InSlot(p, n) = "blank" /\ n = count[p]
  BY <1>1 DEF HeadersInv, Unraced, OneAtATime
<1>8. ASSUME NEW o \in Requests, o \notin raced' PROVE OneAtATime(o)'
  <2>1. OneAtATime(o)
    BY <1>1, <1>8 DEF HeadersInv, Unraced
  <2>2. \A q \in Requests : Filling(q) /\ add[q].policy = p /\ o = p => q = r
    BY <1>1, <2>1 DEF OneAtATime
  <2>3. \A i \in Slots : count'[o] < i => InSlot(o, i)' = "blank"
    BY <1>1, <1>6, <1>7, <1>8, <2>1 DEF OneAtATime, Slots
  <2>4. \A q \in Requests : Filling(q)' /\ add'[q].policy = o =>
          q # r /\ o # p /\ Filling(q) /\ add'[q] = add[q] /\ add[q].slot \in Slots
    BY <1>5, <2>2 DEF HeadersInv, HeadersTyped, Filling
  <2> QED
    BY <1>1, <1>6, <2>1, <2>3, <2>4 DEF OneAtATime
<1>9. Unraced'
  BY <1>8 DEF Unraced
<1>10. r = policy => p = policy
  BY <1>1, AddingFacts DEF HeadersInv, OwnPolicy
<1>11. r = policy /\ policy \notin raced => stage[r] \in HeadersOf(policy)'
  <2> SUFFICES ASSUME p = policy, policy \notin raced PROVE stage[r] \in HeadersOf(policy)'
    BY <1>10
  <2>1. slots'[policy][n] = stage[r]
    BY <1>1
  <2>2. n \in 1 .. count'[policy]
    BY <1>1, <1>7, CapacityAssumption DEF Slots
  <2>3. stage[r] # "blank"
    BY <1>1 DEF Adding
  <2> QED
    BY <1>1, <2>1, <2>2, <2>3 DEF HeadersOf, InSlot
<1>12. policy \notin raced => HeadersOf(policy) \subseteq HeadersOf(policy)'
  <2> SUFFICES ASSUME policy \notin raced, NEW i \in 1 .. count[policy], slots[policy][i] # "blank"
               PROVE  slots'[policy][i] = slots[policy][i]
    BY <1>1 DEF HeadersOf, InSlot
  <2>1. policy \in Requests /\ i \in Slots
    BY AddingFacts, <1>1, CapacityAssumption DEF Slots, HeadersInv, HeadersTyped, HeadersTypeOK
  <2>2. ~(policy = p /\ i = n)
    BY <1>7 DEF InSlot
  <2> QED
    BY <1>1, <2>1, <2>2
<1>13. PolicyIsCompleted'
  BY <1>1, <1>2, <1>10, <1>11, <1>12, AddingFacts, IsDevAssumption
     DEF HeadersInv, PolicyIsCompleted, At, Adding
<1> QED
  BY <1>3, <1>4, <1>9, <1>13 DEF HeadersInv

-----------------------------------------------------------------------------
(* Theorems *)

(* The invariant holds in every state of every behaviour.                  *)
THEOREM HeadersInvariance == HeadersSpec => []HeadersInv
<1>1. HeadersInv /\ [HeadersNext]_headersVars => HeadersInv'
  <2> SUFFICES ASSUME HeadersInv, [HeadersNext]_headersVars PROVE HeadersInv'
    OBVIOUS
  <2>1. CASE UNCHANGED headersVars
    BY <2>1 DEF headersVars, policyVars, HeadersInv, HeadersTyped, HeadersTypeOK, Stages, OwnPolicy,
       Unraced, OneAtATime, Filling, PolicyIsCompleted, HeadersOf, InSlot, At, Adding
  <2> QED
    BY <2>1, EnterPreserves, CreatePreserves, ReadFieldPreserves, FindPreserves, TakeSlotPreserves,
       CountSlotPreserves, WriteSlotPreserves, AnswerPreserves DEF HeadersNext, Request, AddHeader
<1> QED
  BY <1>1, HeadersInitHolds, PTL DEF HeadersSpec

(* A policy has headers of the environment only, and a request that is     *)
(* past the test for null finds one in the field.                          *)
THEOREM HeadersTyping == HeadersSpec => []HeadersTypeOK
<1>1. HeadersInv => HeadersTypeOK
  BY DEF HeadersInv, HeadersTyped
<1> QED
  BY <1>1, HeadersInvariance, PTL

(* However many requests find no policy and whatever they add to whose: a  *)
(* policy in the field into which no two inserted at a time lacks a header *)
(* only while its creator is still to add that header.                     *)
THEOREM HeadersCompletion == HeadersSpec => []PolicyIsCompleted
<1>1. HeadersInv => PolicyIsCompleted
  BY DEF HeadersInv
<1> QED
  BY <1>1, HeadersInvariance, PTL
=============================================================================
