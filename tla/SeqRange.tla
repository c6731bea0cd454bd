------------------------------ MODULE SeqRange ------------------------------
(***************************************************************************)
(* The lists and queues of the kernel, as sequences: what they hold        *)
(* (Range), that they hold it once (IsInjective), and where, when an       *)
(* element is taken from the front or put at the front or the back.        *)
(***************************************************************************)
EXTENDS Functions, FiniteSetTheorems, SequenceTheorems, TLAPS

(* A list holds elements of its type.                                      *)
LEMMA SeqTypes == ASSUME NEW S, NEW q \in Seq(S) PROVE Range(q) \subseteq S
BY DEF Range

(* INIT_LIST_HEAD: an empty list holds nothing.                            *)
LEMMA EmptyRange == Range(<<>>) = {} /\ IsInjective(<<>>)
BY DEF Range, IsInjective

(* The indices of a list whose first element is removed.                   *)
LEMMA TailIndex ==
    ASSUME NEW S, NEW q \in Seq(S), q # <<>>
    PROVE  /\ Head(q) \in S /\ Tail(q) \in Seq(S)
           /\ 1 \in DOMAIN q /\ Head(q) = q[1]
           /\ DOMAIN q \subseteq Nat \ {0} /\ DOMAIN Tail(q) \subseteq Nat \ {0}
           /\ \A k \in DOMAIN Tail(q) : k + 1 \in DOMAIN q /\ Tail(q)[k] = q[k + 1]
           /\ \A k \in DOMAIN q :
                 k = 1 \/ (k - 1 \in DOMAIN Tail(q) /\ q[k] = Tail(q)[k - 1])
<1>1. Head(q) \in S /\ Tail(q) \in Seq(S) /\ Len(Tail(q)) = Len(q) - 1
  OBVIOUS
<1>2. \A k \in DOMAIN Tail(q) : k + 1 \in DOMAIN q /\ Tail(q)[k] = q[k + 1]
  OBVIOUS
<1>3. 1 \in DOMAIN q /\ Head(q) = q[1] /\ DOMAIN q \subseteq Nat \ {0}
  OBVIOUS
<1>4. DOMAIN Tail(q) \subseteq Nat \ {0}
  BY <1>1
<1> QED
  BY <1>1, <1>2, <1>3, <1>4

(* list_del of the first element: it is no longer in the list, which holds *)
(* what it held besides.                                                   *)
LEMMA TailRange ==
    ASSUME NEW S, NEW q \in Seq(S), q # <<>>
    PROVE  /\ Head(q) \in S /\ Head(q) \in Range(q) /\ Tail(q) \in Seq(S)
           /\ Range(q) = Range(Tail(q)) \cup {Head(q)}
           /\ IsInjective(q) =>
                 IsInjective(Tail(q)) /\ Head(q) \notin Range(Tail(q))
<1>1. Range(q) \subseteq Range(Tail(q)) \cup {Head(q)}
  <2>1. \A k \in DOMAIN q :
            q[k] = Head(q) \/ (k - 1 \in DOMAIN Tail(q) /\ q[k] = Tail(q)[k - 1])
    BY TailIndex
  <2> QED
    BY <2>1 DEF Range
<1>2. Range(Tail(q)) \cup {Head(q)} \subseteq Range(q)
  BY TailIndex DEF Range
<1>3. ASSUME IsInjective(q)
      PROVE  IsInjective(Tail(q)) /\ Head(q) \notin Range(Tail(q))
  BY <1>3, TailIndex DEF IsInjective, Range
<1> QED
  BY <1>1, <1>2, <1>3, TailIndex

(* The indices of a list that an element is added to at the back.          *)
LEMMA AppendIndex ==
    ASSUME NEW S, NEW q \in Seq(S), NEW x \in S
    PROVE  /\ Append(q, x) \in Seq(S)
           /\ \A k \in DOMAIN q : /\ k \in DOMAIN Append(q, x) /\ k <= Len(q)
                                  /\ Append(q, x)[k] = q[k]
           /\ Len(q) + 1 \in DOMAIN Append(q, x)
           /\ Append(q, x)[Len(q) + 1] = x
           /\ \A k \in DOMAIN Append(q, x) : k \in DOMAIN q \/ k = Len(q) + 1
           /\ Len(q) \in Nat /\ DOMAIN q \subseteq Nat
<1>1. Append(q, x) \in Seq(S) /\ Len(Append(q, x)) = Len(q) + 1
  OBVIOUS
<1>2. \A k \in DOMAIN q : /\ k \in DOMAIN Append(q, x) /\ k <= Len(q)
                          /\ Append(q, x)[k] = q[k]
  OBVIOUS
<1>3. Len(q) + 1 \in DOMAIN Append(q, x) /\ Append(q, x)[Len(q) + 1] = x
  OBVIOUS
<1>4. \A k \in DOMAIN Append(q, x) : k \in DOMAIN q \/ k = Len(q) + 1
  BY <1>1
<1> QED
  BY <1>1, <1>2, <1>3, <1>4

(* list_add_tail: the list holds one element more.                         *)
LEMMA AppendRange ==
    ASSUME NEW S, NEW q \in Seq(S), NEW x \in S
    PROVE  /\ Append(q, x) \in Seq(S)
           /\ Range(Append(q, x)) = Range(q) \cup {x}
           /\ IsInjective(q) /\ x \notin Range(q) => IsInjective(Append(q, x))
BY AppendIndex DEF Range, IsInjective

(* list_add: the same, at the front.                                       *)
LEMMA PushRange ==
    ASSUME NEW S, NEW q \in Seq(S), NEW x \in S
    PROVE  /\ <<x>> \o q \in Seq(S)
           /\ Range(<<x>> \o q) = Range(q) \cup {x}
           /\ IsInjective(q) /\ x \notin Range(q) => IsInjective(<<x>> \o q)
<1> DEFINE p == <<x>> \o q
<1>1. p \in Seq(S) /\ Len(p) = Len(q) + 1
  OBVIOUS
<1>2. \A k \in DOMAIN q : k + 1 \in DOMAIN p /\ p[k + 1] = q[k]
  OBVIOUS
<1>3. 1 \in DOMAIN p /\ p[1] = x
  OBVIOUS
<1>4. \A k \in DOMAIN p : k = 1 \/ (k - 1 \in DOMAIN q /\ p[k] = q[k - 1])
  OBVIOUS
<1>5. DOMAIN p \subseteq Nat \ {0} /\ DOMAIN q \subseteq Nat
  BY <1>1
<1> HIDE DEF p
<1>6. Range(p) = Range(q) \cup {x}
  BY <1>2, <1>3, <1>4 DEF Range
<1>7. ASSUME IsInjective(q), x \notin Range(q) PROVE IsInjective(p)
  BY <1>7, <1>3, <1>4, <1>5 DEF IsInjective, Range
<1> QED
  BY <1>1, <1>6, <1>7 DEF p

(* list_add puts the element before what the list held.                    *)
LEMMA PushParts ==
    ASSUME NEW S, NEW q \in Seq(S), NEW x \in S
    PROVE  /\ <<x>> \o q # <<>> /\ Head(<<x>> \o q) = x
           /\ Tail(<<x>> \o q) = q
OBVIOUS

(* An element put at the back does not see one put at the front.           *)
LEMMA PushAppend ==
    ASSUME NEW S, NEW q \in Seq(S), NEW x \in S, NEW y \in S
    PROVE  <<x>> \o Append(q, y) = Append(<<x>> \o q, y)
OBVIOUS

(* A list is its first element and the rest.                               *)
LEMMA PushHead ==
    ASSUME NEW S, NEW q \in Seq(S), q # <<>>
    PROVE  <<Head(q)>> \o Tail(q) = q
OBVIOUS

(* A list that holds every element once has as many as its length.         *)
LEMMA RangeCardinality ==
    ASSUME NEW S, NEW q \in Seq(S), IsInjective(q)
    PROVE  Cardinality(Range(q)) = Len(q)
<1>1. q \in Bijection(1 .. Len(q), Range(q))
  BY DEF Range, IsInjective, Bijection, Injection, Surjection
<1>2. ExistsBijection(1 .. Len(q), Range(q))
  BY <1>1 DEF ExistsBijection
<1> QED
  BY <1>2, FS_CountingElements, LenProperties

(* A set whose elements are all equal has one element, or none.            *)
LEMMA AtMostOne ==
    ASSUME NEW S, \A x, y \in S : x = y
    PROVE  Cardinality(S) = IF S = {} THEN 0 ELSE 1
<1>1. CASE S = {}
  BY <1>1, FS_EmptySet
<1>2. CASE S # {}
  <2>1. PICK x \in S : S = {x}
    BY <1>2
  <2> QED
    BY <2>1, FS_Singleton
<1> QED
  BY <1>1, <1>2
=============================================================================
