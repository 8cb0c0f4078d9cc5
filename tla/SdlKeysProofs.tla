---------------------------- MODULE SdlKeysProofs ----------------------------
(***************************************************************************)
(* Theorems about SdlKeys, for any sets of ids.                            *)
(*                                                                         *)
(* Everything about sequences is in the lemmas on keys: a key tells its    *)
(* family and its type, and with them the instance if no id continues      *)
(* another after a dot.                                                    *)
(***************************************************************************)
EXTENDS SdlKeys, SequenceTheorems, TLAPS

Text == Seq(Chars \cup Families)

NoDot(s) == \A k \in 1..Len(s) : s[k] # "."

\* No instance of the type was ever stored whose id and i are the same up to
\* a dot.
Apart(t, i) == \A j \in Instances : Dotted(i, j) => <<t, j>> \notin used

\* A key belongs to a type or an instance that is stored, or, for metadata
\* and statuses, that was stored once: a status can be written after its
\* instance was removed.
Owned(k) ==
  \/ \E t \in types : k = TypeKey(t)
  \/ \E t \in PolicyTypes, i \in Instances :
       /\ <<t, i>> \in stored
       /\ k = InstanceKey(t, i)
  \/ \E t \in PolicyTypes, i \in Instances :
       /\ <<t, i>> \in used
       /\ k = MetadataKey(t, i) \/ \E h \in Handlers : k = HandlerKey(t, i, h)

OwnedInv ==
  /\ types \subseteq PolicyTypes
  /\ stored \subseteq PolicyTypes \X Instances
  /\ stored \subseteq used
  /\ \A k \in db : Owned(k)

\* What is stored is in SDL.
KeptInv ==
  /\ \A t \in types : TypeKey(t) \in db
  /\ \A t \in PolicyTypes, i \in Instances :
       <<t, i>> \in stored => InstanceKey(t, i) \in db

ReportInv ==
  \A t \in PolicyTypes, i \in Instances, h \in Handlers :
    Apart(t, i) => (HandlerKey(t, i, h) \in db <=> <<t, i, h>> \in reported)

\* The instance that p works on was stored, unless p is a PUT about to create
\* it, and the keys that p has left to delete are found by its prefix.
WorkInv(p) ==
  \A t \in PolicyTypes, i \in Instances :
    at[p] = <<t, i>> =>
      /\ (p = "web" /\ pc[p] = "write" /\ keys[p] = {}) \/ <<t, i>> \in used
      /\ \A k \in keys[p] : k \in Text /\ IsPrefix(HandlerPrefix(t, i), k)

Calls == {"idle", "find", "write", "metadata", "mark", "launch", "check"}

ControlInv ==
  /\ pc \in [Procs -> Calls]
  /\ at \in [Procs -> {<<>>} \cup PolicyTypes \X Instances]
  /\ keys \in [Procs -> SUBSET Text]
  /\ \A p \in Procs : pc[p] # "write" => keys[p] = {}
  /\ \A p \in Procs : WorkInv(p)
  /\ \A r \in hand : <<r[1], r[2]>> \in used

DataInv == OwnedInv /\ KeptInv /\ ReportInv

KeysInv == DataInv /\ ControlInv

-----------------------------------------------------------------------------
(***************************************************************************)
(* Sequences of characters.                                                *)
(***************************************************************************)

LEMMA PrefixIs ==
  ASSUME NEW p \in Text, NEW s \in Text
  PROVE  IsPrefix(p, s) <=> Len(p) <= Len(s) /\ \A k \in 1..Len(p) : p[k] = s[k]
<1>1. ASSUME Len(p) <= Len(s)
      PROVE  SubSeq(p, 1, Len(p)) = SubSeq(s, 1, Len(p)) <=> \A k \in 1..Len(p) : p[k] = s[k]
  <2> DEFINE a == SubSeq(p, 1, Len(p))
             b == SubSeq(s, 1, Len(p))
  <2>1. Len(p) \in Nat /\ a \in Text /\ b \in Text /\ Len(a) = Len(p) /\ Len(b) = Len(p)
    BY <1>1 DEF Text
  <2>2. \A k \in 1..Len(p) : a[k] = p[k] /\ b[k] = s[k]
    BY <1>1 DEF Text
  <2> HIDE DEF a, b
  <2>3. a = b <=> \A k \in 1..Len(p) : a[k] = b[k]
    BY <2>1, SeqEqual DEF Text
  <2>4. a = b <=> \A k \in 1..Len(p) : p[k] = s[k]
    BY <2>2, <2>3
  <2> QED
    BY <2>4 DEF a, b
<1> QED
  BY <1>1 DEF IsPrefix

LEMMA ConcatIs ==
  ASSUME NEW a \in Text, NEW b \in Text
  PROVE  /\ a \o b \in Text /\ Len(a) \in Nat /\ Len(b) \in Nat
         /\ Len(a \o b) = Len(a) + Len(b)
         /\ \A k \in 1..Len(a) : (a \o b)[k] = a[k]
         /\ \A k \in 1..Len(b) : (a \o b)[Len(a) + k] = b[k]
BY DEF Text

LEMMA Assoc == \A a, b, c \in Text : (a \o b) \o c = a \o (b \o c)
BY ConcatAssociative DEF Text

LEMMA DotText == Dot \in Text /\ Len(Dot) = 1 /\ Dot[1] = "."
<1>1. "." \in Chars \cup Families
  BY CharsAssumption
<1>2. \A S : \A c \in S : <<c>> \in Seq(S) /\ Len(<<c>>) = 1 /\ <<c>>[1] = c
  OBVIOUS
<1> QED
  BY <1>1, <1>2 DEF Dot, Text

LEMMA ThenDot ==
  ASSUME NEW a \in Text
  PROVE  /\ a \o Dot \in Text /\ Len(a) \in Nat /\ Len(a \o Dot) = Len(a) + 1
         /\ \A k \in 1..Len(a) : (a \o Dot)[k] = a[k]
         /\ (a \o Dot)[Len(a) + 1] = "."
<1>1. Dot \in Text /\ Len(Dot) = 1 /\ Dot[1] = "." /\ 1 \in 1..1
  BY DotText
<1>2. /\ a \o Dot \in Text /\ Len(a) \in Nat /\ Len(a \o Dot) = Len(a) + Len(Dot)
      /\ \A k \in 1..Len(a) : (a \o Dot)[k] = a[k]
      /\ \A k \in 1..Len(Dot) : (a \o Dot)[Len(a) + k] = Dot[k]
  BY <1>1, ConcatIs
<1> QED
  BY <1>1, <1>2

LEMMA PrefixConcat ==
  ASSUME NEW a \in Text, NEW b \in Text
  PROVE  IsPrefix(a, a \o b)
<1>1. /\ a \o b \in Text /\ Len(a) <= Len(a \o b)
      /\ \A k \in 1..Len(a) : (a \o b)[k] = a[k]
  BY ConcatIs
<1> QED
  BY <1>1, PrefixIs

LEMMA CancelPrefix ==
  ASSUME NEW a \in Text, NEW b \in Text, NEW c \in Text, IsPrefix(a \o b, a \o c)
  PROVE  IsPrefix(b, c)
<1> DEFINE p == a \o b
           q == a \o c
<1>1. /\ p \in Text /\ q \in Text /\ Len(a) \in Nat /\ Len(b) \in Nat /\ Len(c) \in Nat
      /\ Len(p) = Len(a) + Len(b) /\ Len(q) = Len(a) + Len(c)
      /\ \A k \in 1..Len(b) : p[Len(a) + k] = b[k]
      /\ \A k \in 1..Len(c) : q[Len(a) + k] = c[k]
  BY ConcatIs
<1>2. Len(p) <= Len(q) /\ \A k \in 1..Len(p) : p[k] = q[k]
  BY <1>1, PrefixIs
<1> HIDE DEF p, q
<1>3. Len(b) <= Len(c)
  BY <1>1, <1>2
<1>4. ASSUME NEW k \in 1..Len(b)
      PROVE  b[k] = c[k]
  <2>1. Len(a) + k \in 1..Len(p) /\ k \in 1..Len(c)
    BY <1>1, <1>3
  <2> QED
    BY <1>1, <1>2, <2>1
<1> QED
  BY <1>3, <1>4, PrefixIs

LEMMA PrefixItself ==
  ASSUME NEW s \in Text
  PROVE  IsPrefix(s, s)
BY PrefixIs DEF Text

LEMMA PrefixSame ==
  ASSUME NEW s \in Text, NEW p \in Text, IsPrefix(s, p), IsPrefix(p, s)
  PROVE  s = p
<1>1. Len(s) \in Nat /\ Len(p) \in Nat
  BY DEF Text
<1>2. Len(s) = Len(p) /\ \A k \in 1..Len(s) : s[k] = p[k]
  BY <1>1, PrefixIs
<1> QED
  BY <1>2, SeqEqual DEF Text

LEMMA Cancel ==
  ASSUME NEW a \in Text, NEW b \in Text, NEW c \in Text, a \o b = a \o c
  PROVE  b = c
<1>1. IsPrefix(a \o b, a \o c) /\ IsPrefix(a \o c, a \o b)
  BY ConcatIs, PrefixItself
<1> QED
  BY <1>1, CancelPrefix, PrefixSame

\* Two texts without a dot, with one after them: the first dots are at the
\* same place.
LEMMA FirstDot ==
  ASSUME NEW a \in Text, NEW b \in Text, NoDot(a), NoDot(b),
         NEW p \in Text, NEW q \in Text,
         IsPrefix(a \o Dot \o p, b \o Dot \o q)
  PROVE  a = b /\ IsPrefix(p, q)
<1> DEFINE u == a \o Dot
           v == b \o Dot
           s == u \o p
           t == v \o q
<1>1. /\ u \in Text /\ v \in Text /\ Len(a) \in Nat /\ Len(b) \in Nat
      /\ Len(u) = Len(a) + 1 /\ Len(v) = Len(b) + 1
      /\ \A k \in 1..Len(a) : u[k] = a[k]
      /\ \A k \in 1..Len(b) : v[k] = b[k]
  BY ThenDot
<1>2. u[Len(a) + 1] = "." /\ v[Len(b) + 1] = "."
  BY ThenDot
<1> HIDE DEF u, v
<1>3. /\ s \in Text /\ t \in Text /\ Len(p) \in Nat
      /\ Len(s) = Len(u) + Len(p)
      /\ \A k \in 1..Len(u) : s[k] = u[k]
      /\ \A k \in 1..Len(v) : t[k] = v[k]
  BY <1>1, ConcatIs
<1>4. Len(s) <= Len(t) /\ \A k \in 1..Len(s) : s[k] = t[k]
  BY <1>3, PrefixIs DEF u, v
<1> HIDE DEF s, t
<1>5. ~(Len(a) < Len(b))
  <2> SUFFICES ASSUME Len(a) < Len(b)
               PROVE  FALSE
    OBVIOUS
  <2> DEFINE n == Len(a) + 1
  <2>1. n \in 1..Len(b) /\ n \in 1..Len(u) /\ n \in 1..Len(v) /\ n \in 1..Len(s)
    BY <1>1, <1>3
  <2> QED
    BY <1>1, <1>2, <1>3, <1>4, <2>1 DEF NoDot
<1>6. ~(Len(b) < Len(a))
  <2> SUFFICES ASSUME Len(b) < Len(a)
               PROVE  FALSE
    OBVIOUS
  <2> DEFINE n == Len(b) + 1
  <2>1. n \in 1..Len(a) /\ n \in 1..Len(u) /\ n \in 1..Len(v) /\ n \in 1..Len(s)
    BY <1>1, <1>3
  <2> QED
    BY <1>1, <1>2, <1>3, <1>4, <2>1 DEF NoDot
<1>7. Len(a) = Len(b)
  BY <1>1, <1>5, <1>6
<1>8. ASSUME NEW k \in 1..Len(a)
      PROVE  a[k] = b[k]
  <2>1. k \in 1..Len(b) /\ k \in 1..Len(u) /\ k \in 1..Len(v) /\ k \in 1..Len(s)
    BY <1>1, <1>3, <1>7
  <2> QED
    BY <1>1, <1>3, <1>4, <2>1
<1>9. a = b
  BY <1>7, <1>8, SeqEqual DEF Text
<1>10. IsPrefix(u \o p, u \o q)
  BY <1>9 DEF u, v
<1> QED
  BY <1>1, <1>9, <1>10, CancelPrefix

\* A text and a dot, at the beginning of another text, a dot and a third.
LEMMA LaterDot ==
  ASSUME NEW i \in Text, NEW j \in Text, NEW h \in Text,
         IsPrefix(i \o Dot, j \o Dot \o h)
  PROVE  i = j \/ Dotted(i, j)
<1> DEFINE u == i \o Dot
           v == j \o Dot
           t == v \o h
<1>1. /\ u \in Text /\ v \in Text /\ Len(i) \in Nat /\ Len(j) \in Nat
      /\ Len(u) = Len(i) + 1 /\ Len(v) = Len(j) + 1
      /\ \A k \in 1..Len(i) : u[k] = i[k]
      /\ \A k \in 1..Len(j) : v[k] = j[k]
  BY ThenDot
<1>2. v[Len(j) + 1] = "."
  BY ThenDot
<1> HIDE DEF u, v
<1>3. t \in Text /\ \A k \in 1..Len(v) : t[k] = v[k]
  BY <1>1, ConcatIs
<1>4. Len(u) <= Len(t) /\ \A k \in 1..Len(u) : u[k] = t[k]
  BY <1>1, <1>3, PrefixIs DEF u, v
<1> HIDE DEF t
<1>5. CASE Len(i) = Len(j)
  <2>1. ASSUME NEW k \in 1..Len(i)
        PROVE  i[k] = j[k]
    <3>1. k \in 1..Len(j) /\ k \in 1..Len(u) /\ k \in 1..Len(v)
      BY <1>1, <1>5
    <3> QED
      BY <1>1, <1>3, <1>4, <3>1
  <2>2. i = j
    BY <1>5, <2>1, SeqEqual DEF Text
  <2> QED
    BY <2>2
<1>6. CASE Len(i) < Len(j)
  <2>1. ASSUME NEW k \in 1..Len(u)
        PROVE  u[k] = j[k]
    <3>1. k \in 1..Len(j) /\ k \in 1..Len(v)
      BY <1>1, <1>6
    <3> QED
      BY <1>1, <1>3, <1>4, <3>1
  <2>2. Len(u) <= Len(j)
    BY <1>1, <1>6
  <2>3. IsPrefix(u, j)
    BY <1>1, <2>1, <2>2, PrefixIs
  <2> QED
    BY <2>3 DEF Dotted, u
<1>7. CASE Len(j) < Len(i)
  <2>1. ASSUME NEW k \in 1..Len(v)
        PROVE  v[k] = i[k]
    <3>1. k \in 1..Len(i) /\ k \in 1..Len(u)
      BY <1>1, <1>7
    <3> QED
      BY <1>1, <1>3, <1>4, <3>1
  <2>2. Len(v) <= Len(i)
    BY <1>1, <1>7
  <2>3. IsPrefix(v, i)
    BY <1>1, <2>1, <2>2, PrefixIs
  <2> QED
    BY <2>3 DEF Dotted, v
<1> QED
  BY <1>1, <1>5, <1>6, <1>7

\* k.split(prefix)[1] gives back what was put after the prefix.
LEMMA SplitConcat ==
  ASSUME NEW a \in Text, NEW b \in Text
  PROVE  Split(a, a \o b) = b
<1> DEFINE s == a \o b
           c == SubSeq(s, Len(a) + 1, Len(s))
<1>1. /\ s \in Text /\ Len(a) \in Nat /\ Len(b) \in Nat /\ Len(s) = Len(a) + Len(b)
      /\ \A k \in 1..Len(b) : s[Len(a) + k] = b[k]
  BY ConcatIs
<1> HIDE DEF s
<1>2. /\ c \in Text /\ Len(c) = Len(b)
      /\ \A k \in 1..Len(b) : c[k] = s[Len(a) + k]
  BY <1>1 DEF Text
<1> HIDE DEF c
<1>3. c = b
  BY <1>1, <1>2, SeqEqual DEF Text
<1> QED
  BY <1>3 DEF c, s, Split

-----------------------------------------------------------------------------
(***************************************************************************)
(* Keys.                                                                   *)
(***************************************************************************)

LEMMA IdsText ==
  /\ \A t \in PolicyTypes : t \in Text /\ NoDot(t)
  /\ \A i \in Instances \cup Handlers : i \in Text
<1>1. ASSUME NEW t \in PolicyTypes
      PROVE  t \in Text /\ NoDot(t)
  <2>1. t \in Seq(Chars \ {"."})
    BY IdsAssumption
  <2> QED
    BY <2>1 DEF Text, NoDot
<1>2. ASSUME NEW i \in Instances \cup Handlers
      PROVE  i \in Text
  <2>1. i \in Seq(Chars)
    BY IdsAssumption
  <2> QED
    BY <2>1 DEF Text
<1> QED
  BY <1>1, <1>2

\* The family, as a text.
LEMMA FamilyText ==
  ASSUME NEW f \in Families
  PROVE  <<f>> \in Text /\ Len(<<f>>) = 1 /\ <<f>>[1] = f
<1>1. \A S : \A c \in S : <<c>> \in Seq(S) /\ Len(<<c>>) = 1 /\ <<c>>[1] = c
  OBVIOUS
<1>2. f \in Chars \cup Families
  OBVIOUS
<1> QED
  BY <1>1, <1>2 DEF Text

LEMMA TypeText ==
  ASSUME NEW f \in Families, NEW t \in PolicyTypes
  PROVE  <<f>> \o t \in Text /\ NoDot(<<f>> \o t)
<1> DEFINE F == <<f>>
<1>1. F \in Text /\ Len(F) = 1 /\ F[1] = f /\ f # "."
  BY FamilyText DEF Families
<1>2. t \in Text /\ NoDot(t)
  BY IdsText
<1> HIDE DEF F
<1> DEFINE s == F \o t
<1>c. /\ s \in Text /\ Len(t) \in Nat /\ Len(s) = Len(F) + Len(t)
      /\ \A k \in 1..Len(F) : s[k] = F[k]
      /\ \A k \in 1..Len(t) : s[Len(F) + k] = t[k]
  BY <1>1, <1>2, ConcatIs
<1>3. /\ s \in Text /\ Len(t) \in Nat /\ Len(s) = 1 + Len(t)
      /\ \A k \in 1..1 : s[k] = F[k]
      /\ \A k \in 1..Len(t) : s[1 + k] = t[k]
  BY <1>1, <1>c
<1> HIDE DEF s
<1>4. NoDot(s)
  <2> SUFFICES ASSUME NEW k \in 1..Len(s)
               PROVE  s[k] # "."
    BY DEF NoDot
  <2>1. CASE k = 1
    BY <1>1, <1>3, <2>1
  <2>2. CASE k # 1
    <3>1. k - 1 \in 1..Len(t) /\ 1 + (k - 1) = k
      BY <1>3, <2>2
    <3> QED
      BY <1>2, <1>3, <3>1 DEF NoDot
  <2> QED
    BY <2>1, <2>2
<1> QED
  BY <1>3, <1>4 DEF s, F

\* A key and a prefix of keys have the family at the beginning.
LEMMA FamilyFirst ==
  ASSUME NEW f \in Families, NEW x \in Text
  PROVE  <<f>> \o x \in Text /\ (<<f>> \o x)[1] = f /\ Len(<<f>> \o x) >= 1
<1> DEFINE F == <<f>>
<1>1. F \in Text /\ Len(F) = 1 /\ F[1] = f /\ 1 \in 1..1
  BY FamilyText
<1> HIDE DEF F
<1>2. /\ F \o x \in Text /\ Len(x) \in Nat /\ Len(F \o x) = Len(F) + Len(x)
      /\ \A k \in 1..Len(F) : (F \o x)[k] = F[k]
  BY <1>1, ConcatIs
<1> QED
  BY <1>1, <1>2 DEF F

LEMMA FirstOfPrefix ==
  ASSUME NEW p \in Text, NEW k \in Text, IsPrefix(p, k), Len(p) >= 1
  PROVE  p[1] = k[1]
<1>1. Len(p) \in Nat
  BY DEF Text
<1>2. 1 \in 1..Len(p)
  BY <1>1
<1> QED
  BY <1>2, PrefixIs

\* Keys of one family, up to the type and beyond.
LEMMA SameType ==
  ASSUME NEW f \in Families, NEW t \in PolicyTypes, NEW u \in PolicyTypes,
         NEW p \in Text, NEW q \in Text,
         IsPrefix(<<f>> \o t \o Dot \o p, <<f>> \o u \o Dot \o q)
  PROVE  t = u /\ IsPrefix(p, q)
<1>1. <<f>> \o t = <<f>> \o u /\ IsPrefix(p, q)
  BY TypeText, FirstDot
<1>2. t \in Text /\ u \in Text /\ <<f>> \in Text
  BY IdsText, FamilyText
<1>3. t = u
  BY <1>1, <1>2, Cancel
<1> QED
  BY <1>1, <1>3

\* A key of a family, its type and what follows.
LEMMA FamilyKey ==
  ASSUME NEW f \in Families, NEW t \in PolicyTypes, NEW x \in Text
  PROVE  LET k == <<f>> \o t \o Dot \o x IN k \in Text /\ k[1] = f /\ Len(k) >= 1
<1>1. <<f>> \in Text /\ t \in Text /\ Dot \in Text
  BY FamilyText, IdsText, DotText
<1>2. t \o Dot \in Text
  BY <1>1, ConcatIs
<1>3. (t \o Dot) \o x \in Text
  BY <1>2, ConcatIs
<1>4. (<<f>> \o t) \o Dot = <<f>> \o (t \o Dot)
  BY <1>1, Assoc
<1>5. (<<f>> \o (t \o Dot)) \o x = <<f>> \o ((t \o Dot) \o x)
  <2>1. <<f>> \in Text /\ t \o Dot \in Text /\ x \in Text
    BY <1>1, <1>2
  <2> QED
    BY <2>1, Assoc
<1>6. <<f>> \o t \o Dot \o x = <<f>> \o ((t \o Dot) \o x)
  BY <1>4, <1>5
<1> QED
  BY <1>3, <1>6, FamilyFirst

LEMMA TypeKeys ==
  /\ \A t \in PolicyTypes : TypeKey(t) \in Text /\ TypeKey(t)[1] = "type."
  /\ \A t, u \in PolicyTypes : TypeKey(t) = TypeKey(u) => t = u
<1>1. "type." \in Families
  BY DEF Families
<1>2. <<"type.">> \in Text /\ \A t \in PolicyTypes : t \in Text
  BY <1>1, FamilyText, IdsText
<1>3. ASSUME NEW t \in PolicyTypes
      PROVE  TypeKey(t) \in Text /\ TypeKey(t)[1] = "type."
  BY <1>1, <1>2, FamilyFirst DEF TypeKey, TYPE_PREFIX
<1>4. ASSUME NEW t \in PolicyTypes, NEW u \in PolicyTypes, TypeKey(t) = TypeKey(u)
      PROVE  t = u
  BY <1>2, <1>4, Cancel DEF TypeKey, TYPE_PREFIX
<1> QED
  BY <1>3, <1>4

LEMMA InstanceKeys ==
  /\ \A t \in PolicyTypes, i \in Instances :
       InstanceKey(t, i) \in Text /\ InstanceKey(t, i)[1] = "instance."
  /\ \A t, u \in PolicyTypes, i, j \in Instances :
       InstanceKey(t, i) = InstanceKey(u, j) => t = u /\ i = j
<1>1. "instance." \in Families
  BY DEF Families
<1>2. \A i \in Instances : i \in Text
  BY IdsText
<1>3. ASSUME NEW t \in PolicyTypes, NEW i \in Instances
      PROVE  InstanceKey(t, i) \in Text /\ InstanceKey(t, i)[1] = "instance."
  BY <1>1, <1>2, FamilyKey DEF InstanceKey, INSTANCE_PREFIX
<1>4. ASSUME NEW t \in PolicyTypes, NEW u \in PolicyTypes, NEW i \in Instances,
             NEW j \in Instances, InstanceKey(t, i) = InstanceKey(u, j)
      PROVE  t = u /\ i = j
  <2>1. IsPrefix(InstanceKey(t, i), InstanceKey(u, j))
        /\ IsPrefix(InstanceKey(u, j), InstanceKey(t, i))
    BY <1>3, <1>4, PrefixItself
  <2>2. t = u /\ IsPrefix(i, j)
    BY <1>1, <1>2, <2>1, SameType DEF InstanceKey, INSTANCE_PREFIX
  <2>3. IsPrefix(j, i)
    BY <1>1, <1>2, <2>1, SameType DEF InstanceKey, INSTANCE_PREFIX
  <2> QED
    BY <1>2, <2>2, <2>3, PrefixSame
<1> QED
  BY <1>3, <1>4

LEMMA MetadataKeys ==
  \A t \in PolicyTypes, i \in Instances :
    MetadataKey(t, i) \in Text /\ MetadataKey(t, i)[1] = "metadata."
<1>1. "metadata." \in Families
  BY DEF Families
<1>2. \A i \in Instances : i \in Text
  BY IdsText
<1> QED
  BY <1>1, <1>2, FamilyKey DEF MetadataKey, METADATA_PREFIX

\* The prefix of a type finds the instances of that type.
LEMMA InstancePrefixes ==
  ASSUME NEW t \in PolicyTypes
  PROVE  LET p == INSTANCE_PREFIX \o t \o Dot IN
         /\ p \in Text /\ Len(p) >= 1 /\ p[1] = "instance."
         /\ \A u \in PolicyTypes, i \in Instances : IsPrefix(p, InstanceKey(u, i)) <=> t = u
         /\ \A i \in Instances : Split(p, InstanceKey(t, i)) = i
<1> DEFINE p == INSTANCE_PREFIX \o t \o Dot
<1>1. "instance." \in Families /\ <<>> \in Text
  BY DEF Families, Text
<1>2. \A i \in Instances : i \in Text
  BY IdsText
<1>3. p \in Text
  <2>1. INSTANCE_PREFIX \in Text /\ t \in Text /\ Dot \in Text
    BY <1>1, FamilyText, IdsText, DotText DEF INSTANCE_PREFIX
  <2> QED
    BY <2>1, ConcatIs
<1>4. p = p \o <<>>
  BY <1>3 DEF Text
<1>5. Len(p) >= 1 /\ p[1] = "instance."
  BY <1>1, <1>4, FamilyKey DEF INSTANCE_PREFIX
<1>6. ASSUME NEW u \in PolicyTypes, NEW i \in Instances, IsPrefix(p, InstanceKey(u, i))
      PROVE  t = u
  <2>1. IsPrefix(p \o <<>>, InstanceKey(u, i))
    BY <1>4, <1>6
  <2> QED
    BY <1>1, <1>2, <2>1, SameType DEF InstanceKey, INSTANCE_PREFIX
<1>7. ASSUME NEW i \in Instances
      PROVE  IsPrefix(p, InstanceKey(t, i)) /\ Split(p, InstanceKey(t, i)) = i
  BY <1>2, <1>3, PrefixConcat, SplitConcat DEF InstanceKey
<1> QED
  BY <1>3, <1>5, <1>6, <1>7

LEMMA HandlerShapes ==
  ASSUME NEW t \in PolicyTypes, NEW i \in Instances
  PROVE  /\ HandlerPrefix(t, i) = <<"handler.">> \o t \o Dot \o (i \o Dot)
         /\ \A h \in Handlers :
              HandlerKey(t, i, h) = <<"handler.">> \o t \o Dot \o (i \o Dot \o h)
         /\ i \o Dot \in Text
         /\ \A h \in Handlers : i \o Dot \o h \in Text
<1> DEFINE a == <<"handler.">> \o t \o Dot
<1>1. "handler." \in Families
  BY DEF Families
<1>2. /\ <<"handler.">> \in Text /\ t \in Text /\ Dot \in Text /\ i \in Text
      /\ \A h \in Handlers : h \in Text
  BY <1>1, FamilyText, IdsText, DotText
<1>3. a \in Text /\ i \o Dot \in Text
  BY <1>2, ConcatIs
<1>h. HandlerPrefix(t, i) = (a \o i) \o Dot
  BY DEF HandlerPrefix, HANDLER_PREFIX
<1> HIDE DEF a
<1>4. (a \o i) \o Dot = a \o (i \o Dot)
  <2>1. a \in Text /\ i \in Text /\ Dot \in Text
    BY <1>2, <1>3
  <2> QED
    BY <2>1, Assoc
<1>5. ASSUME NEW h \in Handlers
      PROVE  (a \o (i \o Dot)) \o h = a \o (i \o Dot \o h) /\ i \o Dot \o h \in Text
  <2>1. h \in Text
    BY <1>2
  <2>2. i \o Dot \o h \in Text
    BY <1>3, <2>1, ConcatIs
  <2> DEFINE d == i \o Dot
  <2>d. d \in Text
    BY <1>3
  <2> HIDE DEF d
  <2>3. (a \o d) \o h = a \o (d \o h)
    <3>1. a \in Text /\ d \in Text /\ h \in Text
      BY <1>3, <2>1, <2>d
    <3> QED
      BY <3>1, Assoc
  <2> QED
    BY <2>2, <2>3 DEF d
<1> QED
  BY <1>3, <1>h, <1>4, <1>5 DEF HandlerKey, a

\* The prefix of an instance finds its statuses, and those of an instance of
\* the same type whose id is the same up to a dot.
LEMMA HandlerPrefixes ==
  ASSUME NEW t \in PolicyTypes, NEW i \in Instances
  PROVE  /\ HandlerPrefix(t, i) \in Text /\ Len(HandlerPrefix(t, i)) >= 1
         /\ HandlerPrefix(t, i)[1] = "handler."
         /\ \A h \in Handlers : IsPrefix(HandlerPrefix(t, i), HandlerKey(t, i, h))
         /\ \A u \in PolicyTypes, j \in Instances, h \in Handlers :
              IsPrefix(HandlerPrefix(t, i), HandlerKey(u, j, h)) =>
                t = u /\ (i = j \/ Dotted(i, j))
<1>1. "handler." \in Families
  BY DEF Families
<1>2. i \o Dot \in Text
  BY HandlerShapes
<1>3. /\ HandlerPrefix(t, i) \in Text /\ Len(HandlerPrefix(t, i)) >= 1
      /\ HandlerPrefix(t, i)[1] = "handler."
  <2>1. HandlerPrefix(t, i) = <<"handler.">> \o t \o Dot \o (i \o Dot)
    BY HandlerShapes
  <2> DEFINE x == i \o Dot
             k == <<"handler.">> \o t \o Dot \o x
  <2>2. x \in Text
    BY <1>2
  <2> HIDE DEF x
  <2>3. k \in Text /\ k[1] = "handler." /\ Len(k) >= 1
    BY <1>1, <2>2, FamilyKey
  <2> QED
    BY <2>1, <2>3 DEF x
<1>4. ASSUME NEW h \in Handlers
      PROVE  IsPrefix(HandlerPrefix(t, i), HandlerKey(t, i, h))
  BY <1>3, IdsText, PrefixConcat DEF HandlerKey
<1>5. ASSUME NEW u \in PolicyTypes, NEW j \in Instances, NEW h \in Handlers,
             IsPrefix(HandlerPrefix(t, i), HandlerKey(u, j, h))
      PROVE  t = u /\ (i = j \/ Dotted(i, j))
  <2>1. j \o Dot \o h \in Text
    BY HandlerShapes
  <2>2. IsPrefix(<<"handler.">> \o t \o Dot \o (i \o Dot),
                 <<"handler.">> \o u \o Dot \o (j \o Dot \o h))
    BY <1>5, HandlerShapes
  <2>3. t = u /\ IsPrefix(i \o Dot, j \o Dot \o h)
    BY <1>1, <1>2, <2>1, <2>2, SameType
  <2> QED
    BY <2>3, IdsText, LaterDot
<1> QED
  BY <1>3, <1>4, <1>5

LEMMA HandlerKeys ==
  ASSUME NEW t \in PolicyTypes, NEW i \in Instances, NEW h \in Handlers
  PROVE  /\ HandlerKey(t, i, h) \in Text /\ HandlerKey(t, i, h)[1] = "handler."
         /\ \A g \in Handlers : HandlerKey(t, i, h) = HandlerKey(t, i, g) => h = g
<1>1. "handler." \in Families /\ i \o Dot \o h \in Text
  BY HandlerShapes DEF Families
<1>2. HandlerKey(t, i, h) \in Text /\ HandlerKey(t, i, h)[1] = "handler."
  <2>1. HandlerKey(t, i, h) = <<"handler.">> \o t \o Dot \o (i \o Dot \o h)
    BY HandlerShapes
  <2> DEFINE x == i \o Dot \o h
             k == <<"handler.">> \o t \o Dot \o x
  <2>2. x \in Text
    BY <1>1
  <2> HIDE DEF x
  <2>3. k \in Text /\ k[1] = "handler."
    BY <1>1, <2>2, FamilyKey
  <2> QED
    BY <2>1, <2>3 DEF x
<1>3. ASSUME NEW g \in Handlers, HandlerKey(t, i, h) = HandlerKey(t, i, g)
      PROVE  h = g
  <2>1. HandlerPrefix(t, i) \in Text /\ h \in Text /\ g \in Text
    BY HandlerPrefixes, IdsText
  <2> QED
    BY <1>3, <2>1, Cancel DEF HandlerKey
<1> QED
  BY <1>2, <1>3

-----------------------------------------------------------------------------
(***************************************************************************)
(* What is in SDL.                                                         *)
(***************************************************************************)

LEMMA OwnedText ==
  ASSUME OwnedInv, NEW k, Owned(k)
  PROVE  /\ k \in Text
         /\ k[1] = "type." => \E t \in types : k = TypeKey(t)
         /\ k[1] = "instance." =>
              \E t \in PolicyTypes, i \in Instances :
                <<t, i>> \in stored /\ k = InstanceKey(t, i)
         /\ k[1] = "handler." =>
              \E t \in PolicyTypes, i \in Instances, h \in Handlers :
                <<t, i>> \in used /\ k = HandlerKey(t, i, h)
<1>1. CASE \E t \in types : k = TypeKey(t)
  <2>1. k \in Text /\ k[1] = "type."
    BY <1>1, TypeKeys DEF OwnedInv
  <2> QED
    BY <1>1, <2>1
<1>2. ASSUME NEW t \in PolicyTypes, NEW i \in Instances, <<t, i>> \in stored,
             k = InstanceKey(t, i)
      PROVE  k \in Text /\ k[1] = "instance."
  BY <1>2, InstanceKeys
<1>3. ASSUME NEW t \in PolicyTypes, NEW i \in Instances, k = MetadataKey(t, i)
      PROVE  k \in Text /\ k[1] = "metadata."
  BY <1>3, MetadataKeys
<1>4. ASSUME NEW t \in PolicyTypes, NEW i \in Instances, NEW h \in Handlers,
             k = HandlerKey(t, i, h)
      PROVE  k \in Text /\ k[1] = "handler."
  BY <1>4, HandlerKeys
<1> QED
  BY <1>1, <1>2, <1>3, <1>4 DEF Owned

\* A lookup of a key finds it exactly if the type or instance is stored.
LEMMA Lookups ==
  ASSUME OwnedInv, KeptInv
  PROVE  /\ \A t \in PolicyTypes : TypeKey(t) \in db <=> t \in types
         /\ \A t \in PolicyTypes, i \in Instances :
              InstanceKey(t, i) \in db <=> <<t, i>> \in stored
<1>1. ASSUME NEW t \in PolicyTypes, TypeKey(t) \in db
      PROVE  t \in types
  <2>1. Owned(TypeKey(t)) /\ TypeKey(t)[1] = "type."
    BY <1>1, TypeKeys DEF OwnedInv
  <2>2. PICK u \in types : TypeKey(t) = TypeKey(u)
    BY <2>1, OwnedText
  <2> QED
    BY <2>2, TypeKeys DEF OwnedInv
<1>2. ASSUME NEW t \in PolicyTypes, NEW i \in Instances, InstanceKey(t, i) \in db
      PROVE  <<t, i>> \in stored
  <2>1. Owned(InstanceKey(t, i)) /\ InstanceKey(t, i)[1] = "instance."
    BY <1>2, InstanceKeys DEF OwnedInv
  <2>2. PICK u \in PolicyTypes, j \in Instances :
          <<u, j>> \in stored /\ InstanceKey(t, i) = InstanceKey(u, j)
    BY <2>1, OwnedText
  <2>3. t = u /\ i = j
    BY <2>2, InstanceKeys
  <2> QED
    BY <2>2, <2>3
<1> QED
  BY <1>1, <1>2 DEF KeptInv

\* What the prefix of an instance finds: statuses, and those of another
\* instance only if its id is the same up to a dot.
LEMMA Cleared ==
  ASSUME NEW t \in PolicyTypes, NEW i \in Instances, NEW k \in Text,
         IsPrefix(HandlerPrefix(t, i), k)
  PROVE  /\ k[1] = "handler."
         /\ \A u \in PolicyTypes, j \in Instances, h \in Handlers :
              k = HandlerKey(u, j, h) => t = u /\ (i = j \/ Dotted(i, j))
<1>1. k[1] = "handler."
  BY HandlerPrefixes, FirstOfPrefix
<1> QED
  BY <1>1, HandlerPrefixes

LEMMA DottedBoth == \A i, j : Dotted(i, j) <=> Dotted(j, i)
BY DEF Dotted

LEMMA KeysDiffer ==
  ASSUME NEW t \in PolicyTypes, NEW i \in Instances, NEW u \in PolicyTypes, NEW j \in Instances
  PROVE  /\ TypeKey(u) \notin {InstanceKey(t, i), MetadataKey(t, i)}
         /\ InstanceKey(u, j) # MetadataKey(t, i)
         /\ \A h \in Handlers :
              HandlerKey(u, j, h) \notin {TypeKey(t), InstanceKey(t, i), MetadataKey(t, i)}
<1>1. /\ TypeKey(t)[1] = "type." /\ TypeKey(u)[1] = "type."
      /\ InstanceKey(t, i)[1] = "instance." /\ InstanceKey(u, j)[1] = "instance."
      /\ MetadataKey(t, i)[1] = "metadata."
      /\ \A h \in Handlers : HandlerKey(u, j, h)[1] = "handler."
  BY TypeKeys, InstanceKeys, MetadataKeys, HandlerKeys
<1> QED
  BY <1>1

-----------------------------------------------------------------------------
(***************************************************************************)
(* The steps.                                                              *)
(***************************************************************************)

LEMMA StoreTypeData ==
  ASSUME DataInv, NEW u \in PolicyTypes, StoreType(u)
  PROVE  DataInv'
<1>0. OwnedInv /\ KeptInv /\ ReportInv
  BY DEF DataInv
<1>1. /\ db' = db \cup {TypeKey(u)} /\ types' = types \cup {u}
      /\ UNCHANGED <<stored, reported, used>>
  BY DEF StoreType
<1>2. \A k \in db' : Owned(k)'
  BY <1>0, <1>1 DEF OwnedInv, Owned
<1>3. OwnedInv' /\ KeptInv'
  BY <1>0, <1>1, <1>2 DEF OwnedInv, KeptInv
<1>4. \A t \in PolicyTypes, i \in Instances, h \in Handlers :
        HandlerKey(t, i, h) \in db' <=> HandlerKey(t, i, h) \in db
  BY <1>1, KeysDiffer
<1>5. ReportInv'
  BY <1>0, <1>1, <1>4, Zenon DEF ReportInv, Apart
<1> QED
  BY <1>3, <1>5 DEF DataInv

LEMMA DeleteTypeData ==
  ASSUME DataInv, NEW u \in PolicyTypes, DeleteType(u)
  PROVE  DataInv'
<1>0. OwnedInv /\ KeptInv /\ ReportInv
  BY DEF DataInv
<1>1. /\ db' = db \ {TypeKey(u)} /\ types' = types \ {u}
      /\ UNCHANGED <<stored, reported, used>>
  BY DEF DeleteType
<1>2. \A k \in db' : Owned(k)'
  BY <1>0, <1>1 DEF OwnedInv, Owned
<1>3. OwnedInv'
  BY <1>0, <1>1, <1>2 DEF OwnedInv
<1>4. KeptInv'
  <2>1. \A t \in types' : TypeKey(t) \in db'
    BY <1>0, <1>1, TypeKeys DEF KeptInv, OwnedInv
  <2>2. \A t \in PolicyTypes, i \in Instances : InstanceKey(t, i) # TypeKey(u)
    BY KeysDiffer
  <2> QED
    BY <1>0, <1>1, <2>1, <2>2 DEF KeptInv
<1>5. \A t \in PolicyTypes, i \in Instances, h \in Handlers :
        HandlerKey(t, i, h) \in db' <=> HandlerKey(t, i, h) \in db
  BY <1>1, KeysDiffer
<1>6. ReportInv'
  BY <1>0, <1>1, <1>5, Zenon DEF ReportInv, Apart
<1> QED
  BY <1>3, <1>4, <1>6 DEF DataInv

\* A write or a removal of metadata: SetMetadata, MarkDeleted, RemoveMetadata.
LEMMA MetadataData ==
  ASSUME DataInv, NEW u \in PolicyTypes, NEW j \in Instances,
         \/ db' = db \ {MetadataKey(u, j)}
         \/ <<u, j>> \in used /\ db' = db \cup {MetadataKey(u, j)},
         UNCHANGED <<types, stored, reported, used>>
  PROVE  DataInv'
<1>0. OwnedInv /\ KeptInv /\ ReportInv
  BY DEF DataInv
<1>2. ASSUME NEW k \in db'
      PROVE  Owned(k)'
  <2>1. CASE k \in db
    BY <1>0, <2>1 DEF OwnedInv, Owned
  <2>2. CASE k = MetadataKey(u, j) /\ <<u, j>> \in used
    BY <2>2 DEF Owned
  <2> QED
    BY <2>1, <2>2
<1>3. OwnedInv'
  BY <1>0, <1>2 DEF OwnedInv
<1>4. KeptInv'
  <2>1. \A t \in PolicyTypes : TypeKey(t) # MetadataKey(u, j)
    BY KeysDiffer
  <2>2. \A t \in PolicyTypes, i \in Instances : InstanceKey(t, i) # MetadataKey(u, j)
    BY KeysDiffer
  <2> QED
    BY <1>0, <2>1, <2>2 DEF KeptInv, OwnedInv
<1>5. \A t \in PolicyTypes, i \in Instances, h \in Handlers :
        HandlerKey(t, i, h) \in db' <=> HandlerKey(t, i, h) \in db
  BY KeysDiffer
<1>6. ReportInv'
  BY <1>0, <1>5, Zenon DEF ReportInv, Apart
<1> QED
  BY <1>3, <1>4, <1>6 DEF DataInv

LEMMA SetInstanceData ==
  ASSUME DataInv, NEW u \in PolicyTypes, NEW j \in Instances, SetInstance(u, j)
  PROVE  DataInv'
<1>0. OwnedInv /\ KeptInv /\ ReportInv
  BY DEF DataInv
<1>1. /\ db' = db \cup {InstanceKey(u, j)}
      /\ stored' = stored \cup {<<u, j>>} /\ used' = used \cup {<<u, j>>}
      /\ UNCHANGED <<types, reported>>
  BY DEF SetInstance
<1>2. ASSUME NEW k \in db'
      PROVE  Owned(k)'
  <2>1. CASE k \in db
    BY <1>0, <1>1, <2>1 DEF OwnedInv, Owned
  <2>2. CASE k = InstanceKey(u, j)
    BY <1>1, <2>2 DEF Owned
  <2> QED
    BY <1>1, <2>1, <2>2
<1>3. OwnedInv'
  BY <1>0, <1>1, <1>2 DEF OwnedInv
<1>4. KeptInv'
  BY <1>0, <1>1 DEF KeptInv
<1>5. \A t \in PolicyTypes, i \in Instances, h \in Handlers :
        HandlerKey(t, i, h) \in db' <=> HandlerKey(t, i, h) \in db
  BY <1>1, KeysDiffer
<1>6. \A t \in PolicyTypes, i \in Instances : Apart(t, i)' => Apart(t, i)
  BY <1>1 DEF Apart
<1>7. ReportInv'
  BY <1>0, <1>1, <1>5, <1>6 DEF ReportInv
<1> QED
  BY <1>3, <1>4, <1>7 DEF DataInv

LEMMA RemoveInstanceData ==
  ASSUME DataInv, NEW p, NEW u \in PolicyTypes, NEW j \in Instances, RemoveInstance(p, u, j)
  PROVE  DataInv'
<1>0. OwnedInv /\ KeptInv /\ ReportInv
  BY DEF DataInv
<1>1. /\ db' = db \ {InstanceKey(u, j)} /\ stored' = stored \ {<<u, j>>}
      /\ UNCHANGED <<types, reported, used>>
  BY DEF RemoveInstance
<1>2. ASSUME NEW k \in db'
      PROVE  Owned(k)'
  <2>1. Owned(k) /\ k # InstanceKey(u, j)
    BY <1>0, <1>1 DEF OwnedInv
  <2>2. ASSUME NEW t \in PolicyTypes, NEW i \in Instances, <<t, i>> \in stored,
               k = InstanceKey(t, i)
        PROVE  <<t, i>> \in stored'
    BY <1>1, <2>1, <2>2
  <2> QED
    BY <1>1, <2>1, <2>2 DEF Owned
<1>3. OwnedInv'
  BY <1>0, <1>1, <1>2 DEF OwnedInv
<1>4. KeptInv'
  <2>1. \A t \in PolicyTypes : TypeKey(t) # InstanceKey(u, j)
    BY KeysDiffer
  <2>2. \A t \in PolicyTypes, i \in Instances :
          InstanceKey(t, i) = InstanceKey(u, j) => <<t, i>> = <<u, j>>
    BY InstanceKeys
  <2> QED
    BY <1>0, <1>1, <2>1, <2>2 DEF KeptInv, OwnedInv
<1>5. \A t \in PolicyTypes, i \in Instances, h \in Handlers :
        HandlerKey(t, i, h) \in db' <=> HandlerKey(t, i, h) \in db
  BY <1>1, KeysDiffer
<1>6. ReportInv'
  BY <1>0, <1>1, <1>5, Zenon DEF ReportInv, Apart
<1> QED
  BY <1>3, <1>4, <1>6 DEF DataInv

\* The key that is deleted is a status of the instance that is cleared, or
\* of one whose id is the same up to a dot.
LEMMA ClearHandlerData ==
  ASSUME DataInv, ControlInv, NEW p \in Procs, NEW u \in PolicyTypes, NEW j \in Instances,
         ClearHandler(p, u, j)
  PROVE  DataInv'
<1>0. OwnedInv /\ KeptInv /\ ReportInv /\ WorkInv(p)
  BY DEF DataInv, ControlInv
<1>1. PICK k \in keys[p] :
        /\ db' = db \ {k}
        /\ reported' = {r \in reported :
             ~(r[1] = u /\ r[2] = j /\ HandlerKey(u, j, r[3]) = k)}
  BY DEF ClearHandler
<1>2. at[p] = <<u, j>> /\ UNCHANGED <<types, stored, used>>
  BY DEF ClearHandler
<1>3. <<u, j>> \in used /\ k \in Text /\ IsPrefix(HandlerPrefix(u, j), k)
  BY <1>0, <1>2 DEF WorkInv
<1>4. /\ k[1] = "handler."
      /\ \A t \in PolicyTypes, i \in Instances, h \in Handlers :
           k = HandlerKey(t, i, h) => u = t /\ (j = i \/ Dotted(j, i))
  BY <1>3, Cleared
<1>5. OwnedInv'
  <2>1. \A x \in db' : Owned(x)'
    BY <1>0, <1>1, <1>2 DEF OwnedInv, Owned
  <2> QED
    BY <1>0, <1>2, <2>1 DEF OwnedInv
<1>6. KeptInv'
  <2>1. \A t \in PolicyTypes : TypeKey(t) # k
    BY <1>4, TypeKeys
  <2>2. \A t \in PolicyTypes, i \in Instances : InstanceKey(t, i) # k
    BY <1>4, InstanceKeys
  <2> QED
    BY <1>0, <1>1, <1>2, <2>1, <2>2 DEF KeptInv, OwnedInv
<1>7. ASSUME NEW t \in PolicyTypes, NEW i \in Instances, NEW h \in Handlers, Apart(t, i)'
      PROVE  HandlerKey(t, i, h) \in db' <=> <<t, i, h>> \in reported'
  <2>1. Apart(t, i)
    BY <1>2, <1>7 DEF Apart
  <2>2. HandlerKey(t, i, h) = k => t = u /\ i = j
    BY <1>3, <1>4, <2>1, DottedBoth DEF Apart
  <2>3. <<t, i, h>> \in reported' <=>
          <<t, i, h>> \in reported /\ ~(t = u /\ i = j /\ HandlerKey(u, j, h) = k)
    BY <1>1
  <2> QED
    BY <1>0, <1>1, <2>1, <2>2, <2>3 DEF ReportInv
<1> QED
  BY <1>5, <1>6, <1>7 DEF DataInv, ReportInv

LEMMA SetStatusData ==
  ASSUME DataInv, ControlInv, NEW u \in PolicyTypes, NEW j \in Instances, NEW g \in Handlers,
         SetPolicyInstanceStatus(u, j, g)
  PROVE  DataInv'
<1>0. OwnedInv /\ KeptInv /\ ReportInv
  BY DEF DataInv
<1>1. /\ db' = db \cup {HandlerKey(u, j, g)} /\ reported' = reported \cup {<<u, j, g>>}
      /\ UNCHANGED <<types, stored, used>>
  BY DEF SetPolicyInstanceStatus
<1>2. <<u, j>> \in used
  <2>1. <<u, j, g>> \in hand /\ <<u, j, g>>[1] = u /\ <<u, j, g>>[2] = j
    BY DEF SetPolicyInstanceStatus
  <2> QED
    BY <2>1 DEF ControlInv
<1>3. OwnedInv'
  <2>1. \A k \in db' : Owned(k)'
    BY <1>0, <1>1, <1>2 DEF OwnedInv, Owned
  <2> QED
    BY <1>0, <1>1, <2>1 DEF OwnedInv
<1>4. KeptInv'
  BY <1>0, <1>1 DEF KeptInv
<1>5. ASSUME NEW t \in PolicyTypes, NEW i \in Instances, NEW h \in Handlers, Apart(t, i)'
      PROVE  HandlerKey(t, i, h) \in db' <=> <<t, i, h>> \in reported'
  <2>1. Apart(t, i)
    BY <1>1, <1>5 DEF Apart
  <2>2. HandlerKey(t, i, h) = HandlerKey(u, j, g) <=> <<t, i, h>> = <<u, j, g>>
    <3>1. ASSUME HandlerKey(t, i, h) = HandlerKey(u, j, g)
          PROVE  t = u /\ i = j /\ h = g
      <4>1. IsPrefix(HandlerPrefix(t, i), HandlerKey(u, j, g))
        BY <3>1, HandlerPrefixes
      <4>2. t = u /\ (i = j \/ Dotted(i, j))
        BY <4>1, HandlerPrefixes
      <4>3. i = j
        BY <1>2, <2>1, <4>2 DEF Apart
      <4> QED
        BY <3>1, <4>2, <4>3, HandlerKeys
    <3> QED
      BY <3>1
  <2> QED
    BY <1>0, <1>1, <2>1, <2>2 DEF ReportInv
<1> QED
  BY <1>3, <1>4, <1>5 DEF DataInv, ReportInv

\* WorkInv after a step that gives p the call c, the instance a and keys K.
WillWork(p, c, a, K) ==
  \A t \in PolicyTypes, i \in Instances :
    a = <<t, i>> =>
      /\ (p = "web" /\ c = "write" /\ K = {}) \/ <<t, i>> \in used'
      /\ \A k \in K : IsPrefix(HandlerPrefix(t, i), k)

\* One of the processes goes on.
LEMMA ProcControl ==
  ASSUME ControlInv, NEW p \in Procs, NEW c \in Calls,
         NEW a \in {<<>>} \cup PolicyTypes \X Instances, NEW K \in SUBSET Text,
         pc' = [pc EXCEPT ![p] = c], at' = [at EXCEPT ![p] = a],
         keys' = [keys EXCEPT ![p] = K], hand' = hand, used \subseteq used',
         c # "write" => K = {}, WillWork(p, c, a, K)
  PROVE  ControlInv'
<1>1. /\ pc \in [Procs -> Calls] /\ keys \in [Procs -> SUBSET Text]
      /\ at \in [Procs -> {<<>>} \cup PolicyTypes \X Instances]
      /\ \A q \in Procs : pc[q] # "write" => keys[q] = {}
      /\ \A q \in Procs : WorkInv(q)
      /\ \A r \in hand : <<r[1], r[2]>> \in used
  BY DEF ControlInv
<1>2. /\ pc' \in [Procs -> Calls] /\ keys' \in [Procs -> SUBSET Text]
      /\ at' \in [Procs -> {<<>>} \cup PolicyTypes \X Instances]
  BY <1>1
<1>3. /\ pc'[p] = c /\ at'[p] = a /\ keys'[p] = K
      /\ \A q \in Procs \ {p} : pc'[q] = pc[q] /\ at'[q] = at[q] /\ keys'[q] = keys[q]
  BY <1>1
<1>4. ASSUME NEW q \in Procs
      PROVE  (pc'[q] # "write" => keys'[q] = {}) /\ WorkInv(q)'
  <2>1. CASE q = p
    BY <1>3, <2>1 DEF WorkInv, WillWork
  <2>2. CASE q # p
    BY <1>1, <1>3, <2>2 DEF WorkInv
  <2> QED
    BY <2>1, <2>2
<1>5. \A r \in hand' : <<r[1], r[2]>> \in used'
  BY <1>1
<1> QED
  BY <1>2, <1>4, <1>5 DEF ControlInv

LEMMA GoControl ==
  ASSUME ControlInv, NEW p \in Procs, NEW c \in Calls,
         NEW t \in PolicyTypes, NEW i \in Instances, Go(p, c, t, i),
         keys[p] = {}, UNCHANGED <<keys, hand>>, used \subseteq used',
         (p = "web" /\ c = "write") \/ <<t, i>> \in used'
  PROVE  ControlInv'
<1> DEFINE a == <<t, i>>
<1>1. a \in {<<>>} \cup PolicyTypes \X Instances /\ {} \in SUBSET Text
  OBVIOUS
<1>2. keys' = [keys EXCEPT ![p] = {}]
  BY DEF ControlInv
<1>3. pc' = [pc EXCEPT ![p] = c] /\ at' = [at EXCEPT ![p] = a]
  BY DEF Go
<1>4. ASSUME NEW u \in PolicyTypes, NEW j \in Instances, a = <<u, j>>
      PROVE  (p = "web" /\ c = "write") \/ <<u, j>> \in used'
  BY <1>4
<1> HIDE DEF a
<1>5. WillWork(p, c, a, {})
  BY <1>4 DEF WillWork
<1> QED
  BY <1>1, <1>2, <1>3, <1>5, ProcControl

LEMMA FinishControl ==
  ASSUME ControlInv, NEW p \in Procs, Finish(p), keys[p] = {}, UNCHANGED <<keys, hand, used>>
  PROVE  ControlInv'
<1> DEFINE a == <<>>
<1>1. a \in {<<>>} \cup PolicyTypes \X Instances /\ {} \in SUBSET Text /\ "idle" \in Calls
  BY DEF Calls
<1>2. keys' = [keys EXCEPT ![p] = {}]
  BY DEF ControlInv
<1>3. pc' = [pc EXCEPT ![p] = "idle"] /\ at' = [at EXCEPT ![p] = a]
  BY DEF Finish
<1>4. \A u \in PolicyTypes, j \in Instances : a # <<u, j>>
  OBVIOUS
<1> HIDE DEF a
<1>5. WillWork(p, "idle", a, {}) /\ used \subseteq used'
  BY <1>4 DEF WillWork
<1> QED
  BY <1>1, <1>2, <1>3, <1>5, ProcControl

LEMMA FindControl ==
  ASSUME ControlInv, OwnedInv, NEW p \in Procs, NEW t \in PolicyTypes, NEW i \in Instances,
         FindHandlers(p, t, i)
  PROVE  ControlInv'
<1> DEFINE a == <<t, i>>
           K == HandlersOf(t, i)
<1>1. /\ pc[p] = "find" /\ at[p] = a /\ UNCHANGED <<hand, used>>
      /\ keys' = [keys EXCEPT ![p] = K]
      /\ pc' = [pc EXCEPT ![p] = "write"] /\ at' = [at EXCEPT ![p] = a]
  BY DEF FindHandlers, Go
<1>2. \A k \in K : k \in Text /\ IsPrefix(HandlerPrefix(t, i), k)
  BY OwnedText DEF HandlersOf, Find, OwnedInv
<1>3. a \in used
  BY <1>1 DEF ControlInv, WorkInv
<1>4. a \in {<<>>} \cup PolicyTypes \X Instances /\ K \in SUBSET Text /\ "write" \in Calls
  BY <1>2 DEF Calls
<1>5. ASSUME NEW u \in PolicyTypes, NEW j \in Instances, a = <<u, j>>
      PROVE  <<u, j>> \in used' /\ \A k \in K : IsPrefix(HandlerPrefix(u, j), k)
  BY <1>1, <1>2, <1>3, <1>5
<1> HIDE DEF a, K
<1>6. WillWork(p, "write", a, K) /\ used \subseteq used' /\ hand' = hand
  BY <1>1, <1>5 DEF WillWork
<1>7. /\ keys' = [keys EXCEPT ![p] = K]
      /\ pc' = [pc EXCEPT ![p] = "write"] /\ at' = [at EXCEPT ![p] = a]
  BY <1>1
<1> QED
  BY <1>4, <1>6, <1>7, ProcControl

LEMMA ClearControl ==
  ASSUME ControlInv, NEW p \in Procs, NEW t \in PolicyTypes, NEW i \in Instances,
         ClearHandler(p, t, i)
  PROVE  ControlInv'
<1> DEFINE a == <<t, i>>
<1>1. pc[p] = "write" /\ at[p] = a /\ UNCHANGED <<pc, at, hand, used>>
  BY DEF ClearHandler
<1>2. PICK k \in keys[p] : keys' = [keys EXCEPT ![p] = keys[p] \ {k}]
  BY DEF ClearHandler
<1> DEFINE K == keys[p] \ {k}
<1>3. pc' = [pc EXCEPT ![p] = "write"] /\ at' = [at EXCEPT ![p] = a]
  BY <1>1 DEF ControlInv
<1>4. a \in used /\ \A x \in keys[p] : x \in Text /\ IsPrefix(HandlerPrefix(t, i), x)
  BY <1>1, <1>2 DEF ControlInv, WorkInv
<1>5. /\ a \in {<<>>} \cup PolicyTypes \X Instances /\ K \in SUBSET Text /\ "write" \in Calls
      /\ keys' = [keys EXCEPT ![p] = K]
  BY <1>2, <1>4 DEF Calls
<1>6. ASSUME NEW u \in PolicyTypes, NEW j \in Instances, a = <<u, j>>
      PROVE  <<u, j>> \in used' /\ \A x \in K : IsPrefix(HandlerPrefix(u, j), x)
  BY <1>1, <1>4, <1>6
<1> HIDE DEF a, K
<1>7. WillWork(p, "write", a, K) /\ used \subseteq used' /\ hand' = hand
  BY <1>1, <1>6 DEF WillWork
<1> QED
  BY <1>3, <1>5, <1>7, ProcControl

LEMMA StartControl ==
  ASSUME ControlInv, NEW p \in Threads, NEW t \in PolicyTypes, NEW i \in Instances,
         StartThread(p, t, i)
  PROVE  ControlInv'
<1>1. /\ pc \in [Procs -> Calls] /\ keys \in [Procs -> SUBSET Text]
      /\ at \in [Procs -> {<<>>} \cup PolicyTypes \X Instances]
      /\ \A q \in Procs : pc[q] # "write" => keys[q] = {}
      /\ \A q \in Procs : WorkInv(q)
      /\ \A r \in hand : <<r[1], r[2]>> \in used
  BY DEF ControlInv
<1>2. /\ pc["web"] = "launch" /\ at["web"] = <<t, i>> /\ pc[p] = "idle"
      /\ pc' = [pc EXCEPT !["web"] = "idle", ![p] = "check"]
      /\ at' = [at EXCEPT !["web"] = <<>>, ![p] = <<t, i>>]
      /\ UNCHANGED <<keys, hand, used>>
  BY DEF StartThread
<1>3. "web" \in Procs /\ p \in Procs /\ p # "web"
  BY ThreadsAssumption DEF Procs
<1>4. /\ pc' \in [Procs -> Calls] /\ at' \in [Procs -> {<<>>} \cup PolicyTypes \X Instances]
      /\ pc'["web"] = "idle" /\ at'["web"] = <<>> /\ pc'[p] = "check" /\ at'[p] = <<t, i>>
      /\ \A q \in Procs \ {"web", p} : pc'[q] = pc[q] /\ at'[q] = at[q]
  BY <1>1, <1>2, <1>3 DEF Calls
<1>5. <<t, i>> \in used /\ keys["web"] = {} /\ keys[p] = {}
  BY <1>1, <1>2, <1>3 DEF WorkInv
<1>6. ASSUME NEW q \in Procs
      PROVE  (pc'[q] # "write" => keys'[q] = {}) /\ WorkInv(q)'
  <2>1. CASE q = "web"
    <3>1. \A u \in PolicyTypes, j \in Instances : <<>> # <<u, j>>
      OBVIOUS
    <3> QED
      BY <1>2, <1>4, <1>5, <2>1, <3>1 DEF WorkInv
  <2>2. CASE q = p
    BY <1>2, <1>4, <1>5, <2>2 DEF WorkInv
  <2>3. CASE q \notin {"web", p}
    BY <1>1, <1>2, <1>4, <2>3 DEF WorkInv
  <2> QED
    BY <2>1, <2>2, <2>3
<1> QED
  BY <1>1, <1>2, <1>4, <1>6 DEF ControlInv

LEMMA HandControl ==
  ASSUME ControlInv, UNCHANGED <<pc, at, keys, used>>,
         \A r \in hand' : <<r[1], r[2]>> \in used
  PROVE  ControlInv'
BY DEF ControlInv, WorkInv

\* A step that changes no data.
LEMMA SameData ==
  ASSUME DataInv, UNCHANGED <<db, types, stored, reported, used>>
  PROVE  DataInv'
BY DEF DataInv, OwnedInv, Owned, KeptInv, ReportInv, Apart

LEMMA InstanceStep ==
  ASSUME KeysInv, NEW t \in PolicyTypes, NEW i \in Instances,
         \/ StoreInstance(t, i) \/ SetInstance(t, i) \/ SetMetadata(t, i)
         \/ DeletePolicyInstance(t, i) \/ MarkDeleted(t, i) \/ NoThread(t, i)
  PROVE  KeysInv'
<1>0. DataInv /\ ControlInv /\ "web" \in Procs
  BY DEF KeysInv, Procs
<1>1. InstanceKey(t, i) \in db => <<t, i>> \in used
  BY <1>0, Lookups DEF DataInv, OwnedInv
<1>2. /\ pc["web"] # "write" => keys["web"] = {}
      /\ at["web"] = <<t, i>> /\ pc["web"] # "write" => <<t, i>> \in used
  BY <1>0 DEF ControlInv, WorkInv
<1>3. CASE StoreInstance(t, i)
  <2>1. DataInv'
    BY <1>0, <1>3, SameData DEF StoreInstance
  <2> DEFINE c == IF InstanceKey(t, i) \in db THEN "find" ELSE "write"
  <2>2. /\ pc["web"] = "idle" /\ Go("web", c, t, i) /\ UNCHANGED <<keys, hand, used>>
        /\ c \in Calls /\ (c = "write" \/ <<t, i>> \in used')
    BY <1>1, <1>3 DEF StoreInstance, Calls
  <2> HIDE DEF c
  <2>3. ControlInv'
    BY <1>0, <1>2, <2>2, GoControl
  <2> QED
    BY <2>1, <2>3 DEF KeysInv
<1>4. CASE SetInstance(t, i)
  <2>1. DataInv'
    BY <1>0, <1>4, SetInstanceData
  <2>2. /\ keys["web"] = {} /\ Go("web", "metadata", t, i) /\ UNCHANGED <<keys, hand>>
        /\ used \subseteq used' /\ <<t, i>> \in used' /\ "metadata" \in Calls
    BY <1>4 DEF SetInstance, Calls
  <2>3. ControlInv'
    BY <1>0, <2>2, GoControl
  <2> QED
    BY <2>1, <2>3 DEF KeysInv
<1>5. CASE SetMetadata(t, i)
  <2>1. /\ <<t, i>> \in used /\ keys["web"] = {} /\ Finish("web")
        /\ db' = db \cup {MetadataKey(t, i)}
        /\ UNCHANGED <<keys, hand, types, stored, reported, used>>
    BY <1>2, <1>5 DEF SetMetadata
  <2>2. DataInv'
    BY <1>0, <2>1, MetadataData
  <2>3. ControlInv'
    BY <1>0, <2>1, FinishControl
  <2> QED
    BY <2>2, <2>3 DEF KeysInv
<1>6. CASE DeletePolicyInstance(t, i)
  <2>1. DataInv'
    BY <1>0, <1>6, SameData DEF DeletePolicyInstance
  <2>2. /\ <<t, i>> \in used' /\ used \subseteq used' /\ keys["web"] = {} /\ Go("web", "mark", t, i)
        /\ UNCHANGED <<keys, hand>> /\ "mark" \in Calls
    BY <1>1, <1>2, <1>6 DEF DeletePolicyInstance, Calls
  <2>3. ControlInv'
    BY <1>0, <2>2, GoControl
  <2> QED
    BY <2>1, <2>3 DEF KeysInv
<1>7. CASE MarkDeleted(t, i)
  <2>1. /\ <<t, i>> \in used /\ used \subseteq used' /\ keys["web"] = {}
        /\ Go("web", "launch", t, i) /\ "launch" \in Calls
        /\ db' = db \cup {MetadataKey(t, i)}
        /\ UNCHANGED <<keys, hand, types, stored, reported, used>>
    BY <1>2, <1>7 DEF MarkDeleted, Calls
  <2>2. DataInv'
    BY <1>0, <2>1, MetadataData
  <2>3. ControlInv'
    BY <1>0, <2>1, GoControl
  <2> QED
    BY <2>2, <2>3 DEF KeysInv
<1>8. CASE NoThread(t, i)
  <2>1. DataInv'
    BY <1>0, <1>8, SameData DEF NoThread
  <2>2. keys["web"] = {} /\ Finish("web") /\ UNCHANGED <<keys, hand, used>>
    BY <1>2, <1>8 DEF NoThread
  <2>3. ControlInv'
    BY <1>0, <2>2, FinishControl
  <2> QED
    BY <2>1, <2>3 DEF KeysInv
<1> QED
  BY <1>3, <1>4, <1>5, <1>6, <1>7, <1>8

LEMMA ThreadStep ==
  ASSUME KeysInv, NEW p \in Threads, NEW t \in PolicyTypes, NEW i \in Instances,
         \/ StartThread(p, t, i) \/ DeleteAfter(p, t, i)
         \/ RemoveInstance(p, t, i) \/ RemoveMetadata(p, t, i)
  PROVE  KeysInv'
<1>0. DataInv /\ ControlInv /\ p \in Procs /\ p # "web"
  BY ThreadsAssumption DEF KeysInv, Procs
<1>1. /\ pc[p] # "write" => keys[p] = {}
      /\ at[p] = <<t, i>> => <<t, i>> \in used
  BY <1>0 DEF ControlInv, WorkInv
<1>2. CASE StartThread(p, t, i)
  <2>1. DataInv'
    BY <1>0, <1>2, SameData DEF StartThread
  <2> QED
    BY <1>0, <1>2, <2>1, StartControl DEF KeysInv
<1>3. CASE DeleteAfter(p, t, i)
  <2>1. DataInv'
    BY <1>0, <1>3, SameData DEF DeleteAfter
  <2>2. /\ keys[p] = {} /\ UNCHANGED <<keys, hand, used>> /\ "find" \in Calls
        /\ <<t, i>> \in used' /\ used \subseteq used'
        /\ Go(p, "find", t, i) \/ Finish(p)
    BY <1>1, <1>3 DEF DeleteAfter, Calls
  <2>3. ControlInv'
    BY <1>0, <2>2, GoControl, FinishControl
  <2> QED
    BY <2>1, <2>3 DEF KeysInv
<1>4. CASE RemoveInstance(p, t, i)
  <2>1. DataInv'
    BY <1>0, <1>4, RemoveInstanceData
  <2>2. /\ keys[p] = {} /\ Go(p, "metadata", t, i) /\ UNCHANGED <<keys, hand>>
        /\ used \subseteq used' /\ <<t, i>> \in used' /\ "metadata" \in Calls
    BY <1>1, <1>4 DEF RemoveInstance, Calls
  <2>3. ControlInv'
    BY <1>0, <2>2, GoControl
  <2> QED
    BY <2>1, <2>3 DEF KeysInv
<1>5. CASE RemoveMetadata(p, t, i)
  <2>1. /\ keys[p] = {} /\ Finish(p) /\ db' = db \ {MetadataKey(t, i)}
        /\ UNCHANGED <<keys, hand, types, stored, reported, used>>
    BY <1>1, <1>5 DEF RemoveMetadata
  <2>2. DataInv'
    BY <1>0, <2>1, MetadataData
  <2>3. ControlInv'
    BY <1>0, <2>1, FinishControl
  <2> QED
    BY <2>2, <2>3 DEF KeysInv
<1> QED
  BY <1>2, <1>3, <1>4, <1>5

LEMMA ClearingStep ==
  ASSUME KeysInv, NEW p \in Procs, NEW t \in PolicyTypes, NEW i \in Instances,
         FindHandlers(p, t, i) \/ ClearHandler(p, t, i)
  PROVE  KeysInv'
<1>0. DataInv /\ ControlInv /\ OwnedInv
  BY DEF KeysInv, DataInv
<1>1. CASE FindHandlers(p, t, i)
  BY <1>0, <1>1, SameData, FindControl DEF FindHandlers, KeysInv
<1>2. CASE ClearHandler(p, t, i)
  BY <1>0, <1>2, ClearHandlerData, ClearControl DEF KeysInv
<1> QED
  BY <1>1, <1>2

LEMMA StatusStep ==
  ASSUME KeysInv, NEW t \in PolicyTypes, NEW i \in Instances, NEW h \in Handlers,
         CheckStatus(t, i, h) \/ SetPolicyInstanceStatus(t, i, h)
  PROVE  KeysInv'
<1>0. DataInv /\ ControlInv
  BY DEF KeysInv
<1>1. CASE CheckStatus(t, i, h)
  <2>1. DataInv'
    BY <1>0, <1>1, SameData DEF CheckStatus
  <2>2. <<t, i>> \in used
    BY <1>0, <1>1, Lookups DEF CheckStatus, DataInv, OwnedInv
  <2>3. \A r \in hand' : <<r[1], r[2]>> \in used
    BY <1>1, <2>2 DEF CheckStatus
  <2>4. ControlInv'
    BY <1>0, <1>1, <2>3, HandControl DEF CheckStatus
  <2> QED
    BY <2>1, <2>4 DEF KeysInv
<1>2. CASE SetPolicyInstanceStatus(t, i, h)
  <2>1. DataInv'
    BY <1>0, <1>2, SetStatusData
  <2>2. ControlInv'
    BY <1>0, <1>2, HandControl DEF SetPolicyInstanceStatus
  <2> QED
    BY <2>1, <2>2 DEF KeysInv
<1> QED
  BY <1>1, <1>2

LEMMA TypeStep ==
  ASSUME KeysInv, NEW t \in PolicyTypes, StoreType(t) \/ DeleteType(t)
  PROVE  KeysInv'
<1>1. DataInv'
  BY StoreTypeData, DeleteTypeData DEF KeysInv
<1>2. UNCHANGED <<pc, at, keys, hand, used>>
  BY DEF StoreType, DeleteType, control
<1>3. ControlInv'
  BY <1>2 DEF KeysInv, ControlInv, WorkInv
<1> QED
  BY <1>1, <1>3 DEF KeysInv

LEMMA KeysInvariant == Spec => []KeysInv
<1>1. Init => KeysInv
  <2> SUFFICES ASSUME Init
               PROVE  KeysInv
    OBVIOUS
  <2>1. DataInv
    BY DEF Init, DataInv, OwnedInv, KeptInv, ReportInv
  <2>2. \A u \in PolicyTypes, j \in Instances : <<>> # <<u, j>>
    OBVIOUS
  <2>3. ControlInv
    BY <2>2 DEF Init, ControlInv, WorkInv, Calls
  <2> QED
    BY <2>1, <2>3 DEF KeysInv
<1>2. KeysInv /\ [Next]_vars => KeysInv'
  <2> SUFFICES ASSUME KeysInv, [Next]_vars
               PROVE  KeysInv'
    OBVIOUS
  <2>1. CASE Next
    BY <2>1, TypeStep, InstanceStep, ClearingStep, ThreadStep, StatusStep DEF Next
  <2>2. CASE UNCHANGED vars
    <3>1. DataInv'
      BY <2>2, SameData DEF vars, KeysInv
    <3>2. ControlInv'
      BY <2>2 DEF vars, control, KeysInv, ControlInv, WorkInv
    <3> QED
      BY <3>1, <3>2 DEF KeysInv
  <2> QED
    BY <2>1, <2>2
<1> QED
  BY <1>1, <1>2, PTL DEF Spec

-----------------------------------------------------------------------------
\* A search by prefix finds exactly the types that are stored, and for a type
\* exactly its instances, whatever ids are like (data.py 109-116, 157-163).
THEOREM ListsAreExact == Spec => []ListsExact
<1>1. KeysInv => ListsExact
  <2> SUFFICES ASSUME OwnedInv, KeptInv
               PROVE  ListsExact
    BY DEF KeysInv, DataInv
  <2>1. GetTypeList = types
    <3>1. TYPE_PREFIX \in Text /\ Len(TYPE_PREFIX) = 1 /\ TYPE_PREFIX[1] = "type."
      BY FamilyText DEF TYPE_PREFIX, Families
    <3>2. ASSUME NEW k \in Find(TYPE_PREFIX)
          PROVE  \E t \in types : k = TypeKey(t)
      <4>1. Owned(k) /\ IsPrefix(TYPE_PREFIX, k)
        BY <3>2 DEF Find, OwnedInv
      <4>2. k[1] = "type."
        BY <3>1, <4>1, OwnedText, FirstOfPrefix
      <4> QED
        BY <4>1, <4>2, OwnedText
    <3>3. ASSUME NEW t \in types
          PROVE  TypeKey(t) \in Find(TYPE_PREFIX) /\ Split(TYPE_PREFIX, TypeKey(t)) = t
      <4>1. t \in Text
        BY IdsText DEF OwnedInv
      <4> QED
        BY <3>1, <4>1, PrefixConcat, SplitConcat DEF TypeKey, KeptInv, Find
    <3> QED
      BY <3>2, <3>3 DEF GetTypeList
  <2>2. ASSUME NEW t \in PolicyTypes
        PROVE  GetInstanceList(t) = {i \in Instances : <<t, i>> \in stored}
    <3> DEFINE p == INSTANCE_PREFIX \o t \o Dot
    <3>1. /\ p \in Text /\ Len(p) >= 1 /\ p[1] = "instance."
          /\ \A u \in PolicyTypes, i \in Instances : IsPrefix(p, InstanceKey(u, i)) <=> t = u
          /\ \A i \in Instances : Split(p, InstanceKey(t, i)) = i
      BY InstancePrefixes
    <3>p. GetInstanceList(t) = {Split(p, k) : k \in Find(p)}
      BY DEF GetInstanceList
    <3> HIDE DEF p
    <3>2. ASSUME NEW k \in Find(p)
          PROVE  \E i \in Instances : <<t, i>> \in stored /\ k = InstanceKey(t, i)
      <4>1. Owned(k) /\ IsPrefix(p, k)
        BY <3>2 DEF Find, OwnedInv
      <4>2. k[1] = "instance."
        BY <3>1, <4>1, OwnedText, FirstOfPrefix
      <4>3. PICK u \in PolicyTypes, i \in Instances : <<u, i>> \in stored /\ k = InstanceKey(u, i)
        BY <4>1, <4>2, OwnedText
      <4>4. t = u
        BY <3>1, <4>1, <4>3
      <4> QED
        BY <4>3, <4>4
    <3>3. ASSUME NEW i \in Instances, <<t, i>> \in stored
          PROVE  InstanceKey(t, i) \in Find(p)
      BY <3>1, <3>3 DEF Find, KeptInv
    <3> QED
      BY <3>1, <3>p, <3>2, <3>3
  <2> QED
    BY <2>1, <2>2 DEF ListsExact
<1> QED
  BY <1>1, KeysInvariant, PTL

\* The statuses found for an instance are those written for it that no
\* clearing of it has deleted since, however PUTs, delete threads and the rmr
\* loop interleave, unless the id of another instance of the type is the same
\* up to a dot (data.py 100-106, 119-126, 138-151, 200-219, 270-277).
THEOREM StatusesAreExact == Spec => []StatusesExact
<1>1. KeysInv => StatusesExact
  <2> SUFFICES ASSUME OwnedInv, ReportInv, NEW t \in PolicyTypes, NEW i \in Instances,
                      Apart(t, i)
               PROVE  GetStatuses(t, i) =
                        {HandlerKey(t, i, h) : h \in {x \in Handlers : <<t, i, x>> \in reported}}
    BY DEF KeysInv, DataInv, StatusesExact, Apart
  <2>1. GetStatuses(t, i) = {k \in db : IsPrefix(HandlerPrefix(t, i), k)}
    BY DEF GetStatuses, Find, HandlerPrefix
  <2>2. ASSUME NEW k \in GetStatuses(t, i)
        PROVE  \E h \in Handlers : k = HandlerKey(t, i, h)
    <3>1. Owned(k) /\ IsPrefix(HandlerPrefix(t, i), k)
      BY <2>1, <2>2 DEF OwnedInv
    <3>2. k[1] = "handler."
      BY <3>1, OwnedText, FirstOfPrefix, HandlerPrefixes
    <3>3. PICK u \in PolicyTypes, j \in Instances, h \in Handlers :
            <<u, j>> \in used /\ k = HandlerKey(u, j, h)
      BY <3>1, <3>2, OwnedText
    <3>4. t = u /\ (i = j \/ Dotted(i, j))
      BY <3>1, <3>3, HandlerPrefixes
    <3>5. i = j
      BY <3>3, <3>4 DEF Apart
    <3> QED
      BY <3>3, <3>4, <3>5
  <2>3. \A h \in Handlers : HandlerKey(t, i, h) \in GetStatuses(t, i) <=> <<t, i, h>> \in reported
    BY <2>1, HandlerPrefixes DEF ReportInv
  <2> QED
    BY <2>2, <2>3
<1> QED
  BY <1>1, KeysInvariant, PTL
=============================================================================
