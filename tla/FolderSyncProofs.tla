-------------------------- MODULE FolderSyncProofs --------------------------
(***************************************************************************)
(* Proofs about FolderSync, for any folders, any tree at the beginning and *)
(* any numbers of commands, runs and troubles.                             *)
(*                                                                         *)
(* Paths come first: what Below, Under, Dirname and Rebased do to them,    *)
(* element by element, and when two of them are apart.  XDoes says what    *)
(* action X changes.  Known and Working are what commands and jobs under   *)
(* way may rely on.                                                        *)
(* TreeOf is said of any rows, since it is kept by three ways to change    *)
(* rows: a folder is added (TreeGrows), one without children is taken out  *)
(* (TreeShrinks), and one goes elsewhere with all that is below it         *)
(* (TreeMoves).                                                            *)
(* Sync says where the directory and the storage row of every folder are   *)
(* while jobs are under way; XSync says that X keeps it.                   *)
(***************************************************************************)
EXTENDS FolderSync, SequenceTheorems, WellFoundedInduction, TLAPS

-----------------------------------------------------------------------------
(* Paths.                                                                  *)

\* What paths are made of.  In TLC a character is a string of length one.
Letters == STRING \cup {Slash, ".trash"} \cup {ToString(i) : i \in Calls}
Paths == Seq(Letters)

\* s is p, a slash and n, element by element.
Joins(s, p, n) ==
  /\ s \in Paths /\ p \in Paths /\ Len(p) \in Nat /\ Len(n) \in Nat
  /\ Len(s) = Len(p) + 1 + Len(n)
  /\ \A k \in 1 .. Len(p) : s[k] = p[k]
  /\ s[Len(p) + 1] = Slash
  /\ \A k \in 1 .. Len(n) : s[Len(p) + 1 + k] = n[k]
  /\ \A k \in Len(p) + 2 .. Len(s) : s[k] # Slash

\* A slash is a path.
LEMMA OneSlash == <<Slash>> \in Paths /\ Len(<<Slash>>) = 1 /\ <<Slash>>[1] = Slash
<1>1. Slash \in Letters
  BY DEF Letters
<1>2. ASSUME NEW S, NEW x \in S PROVE <<x>> \in Seq(S) /\ Len(<<x>>) = 1 /\ <<x>>[1] = x
  OBVIOUS
<1> QED BY <1>1, <1>2 DEF Paths

\* Below, element by element: a name adds one slash and no other.
LEMMA BelowJoins ==
  ASSUME NEW p \in Paths, NEW n, IsName(n)
  PROVE  Joins(Below(p, n), p, n)
<1>1. n \in Paths /\ Len(p) \in Nat /\ Len(n) \in Nat
  <2>1. STRING \subseteq Letters
    BY DEF Letters
  <2> QED BY <2>1, SeqMonotonic, LenProperties DEF IsName, Paths
<1>2. (p \o <<Slash>>) \in Paths /\ Len(p \o <<Slash>>) = Len(p) + 1
  BY OneSlash, ConcatProperties DEF Paths
<1> DEFINE s == (p \o <<Slash>>) \o n
<1>3. Below(p, n) = s
  BY <1>1, OneSlash, ConcatAssociative DEF Below, Paths
<1>4. s \in Paths /\ Len(s) = Len(p) + 1 + Len(n)
  BY <1>1, <1>2, ConcatProperties DEF Paths
<1>5. \A k \in 1 .. Len(p) + 1 : s[k] = (p \o <<Slash>>)[k]
  BY <1>1, <1>2, ConcatProperties DEF Paths
<1>6. \A k \in 1 .. Len(p) : s[k] = p[k]
  BY <1>1, <1>5, OneSlash, ConcatProperties DEF Paths
<1>7. s[Len(p) + 1] = Slash
  BY <1>1, <1>5, OneSlash, ConcatProperties DEF Paths
<1>8. \A k \in 1 .. Len(n) : s[Len(p) + 1 + k] = n[k]
  BY <1>1, <1>2, ConcatProperties DEF Paths
<1>9. \A k \in Len(p) + 2 .. Len(s) : s[k] # Slash
  <2> TAKE k \in Len(p) + 2 .. Len(s)
  <2>1. k - Len(p) - 1 \in 1 .. Len(n) /\ Len(p) + 1 + (k - Len(p) - 1) = k
    BY <1>1, <1>4
  <2>2. s[k] = n[k - Len(p) - 1]
    BY <1>8, <2>1
  <2> QED BY <2>1, <2>2 DEF IsName
<1> QED BY <1>1, <1>3, <1>4, <1>6, <1>7, <1>8, <1>9 DEF Joins

\* A path has one last name: path.posix.join can be undone.
LEMMA BelowSplits ==
  ASSUME NEW p \in Paths, NEW q \in Paths, NEW n, NEW m, IsName(n), IsName(m),
         Below(p, n) = Below(q, m)
  PROVE  p = q /\ n = m
<1> DEFINE s == Below(p, n)
<1>1. Joins(s, p, n) /\ Joins(s, q, m)
  BY BelowJoins
<1> HIDE DEF s
<1>2. Len(p) = Len(q)
  <2>1. ~(Len(p) < Len(q))
    BY <1>1 DEF Joins
  <2>2. ~(Len(q) < Len(p))
    BY <1>1 DEF Joins
  <2> QED BY <1>1, <2>1, <2>2 DEF Joins
<1>3. Len(n) = Len(m)
  BY <1>1, <1>2 DEF Joins
<1>4. \A k \in 1 .. Len(p) : p[k] = q[k]
  BY <1>1, <1>2 DEF Joins
<1>5. \A k \in 1 .. Len(n) : n[k] = m[k]
  BY <1>1, <1>2, <1>3 DEF Joins
<1> QED
  BY <1>2, <1>3, <1>4, <1>5, SeqEqual DEF Paths, IsName

\* dirname finds the parent.
LEMMA DirnameOfBelow ==
  ASSUME NEW p \in Paths, NEW n, IsName(n)
  PROVE  Dirname(Below(p, n)) = p
<1> DEFINE s == Below(p, n)
           IsLast(k) == s[k] = Slash /\ \A m \in k + 1 .. Len(s) : s[m] # Slash
<1>1. Joins(s, p, n)
  BY BelowJoins
<1>2. Dirname(s) = SubSeq(s, 1, (CHOOSE k \in 1 .. Len(s) : IsLast(k)) - 1)
  BY DEF Dirname
<1> HIDE DEF s
<1>3. Len(p) + 1 \in 1 .. Len(s) /\ IsLast(Len(p) + 1)
  BY <1>1 DEF Joins
<1>4. \A k \in 1 .. Len(s) : IsLast(k) => k = Len(p) + 1
  BY <1>1 DEF Joins
<1>5. (CHOOSE k \in 1 .. Len(s) : IsLast(k)) = Len(p) + 1
  <2> HIDE DEF IsLast
  <2> QED BY <1>3, <1>4
<1>6. SubSeq(s, 1, Len(p)) = p
  <2>1. /\ SubSeq(s, 1, Len(p)) \in Paths /\ Len(SubSeq(s, 1, Len(p))) = Len(p)
        /\ \A k \in 1 .. Len(p) : SubSeq(s, 1, Len(p))[k] = s[k]
    BY <1>1, SubSeqProperties DEF Paths, Joins
  <2> QED
    BY <1>1, <2>1, SeqEqual DEF Paths, Joins
<1>7. (Len(p) + 1) - 1 = Len(p)
  BY <1>1 DEF Joins
<1> QED
  BY <1>2, <1>5, <1>6, <1>7 DEF s

\* p is a directory that q is in, however deep.
Leads(p, q) ==
  /\ Len(p) \in Nat /\ Len(q) \in Nat /\ Len(p) + 1 <= Len(q) /\ q[Len(p) + 1] = Slash
  /\ \A k \in 1 .. Len(p) : q[k] = p[k]

\* LIKE 'p/%', element by element.
LEMMA UnderLeads ==
  ASSUME NEW p \in Paths, NEW q \in Paths
  PROVE  Under(p, q) <=> Leads(p, q)
<1> DEFINE s == p \o <<Slash>>
<1>1. s \in Paths /\ Len(s) = Len(p) + 1 /\ s[Len(p) + 1] = Slash /\ \A k \in 1 .. Len(p) : s[k] = p[k]
  BY OneSlash, ConcatProperties DEF Paths
<1>2. Under(p, q) <=> Len(s) <= Len(q) /\ SubSeq(s, 1, Len(s)) = SubSeq(q, 1, Len(s))
  BY DEF Under, IsPrefix
<1> HIDE DEF s
<1>3. Len(p) \in Nat /\ Len(q) \in Nat
  BY LenProperties DEF Paths
<1>4. ASSUME Len(s) <= Len(q)
      PROVE SubSeq(s, 1, Len(s)) = SubSeq(q, 1, Len(s)) <=> \A k \in 1 .. Len(s) : s[k] = q[k]
  BY <1>1, <1>3, <1>4 DEF Paths
<1> QED BY <1>1, <1>2, <1>3, <1>4 DEF Leads

\* What is under p is in p or under it.
LEMMA UnderBelow ==
  ASSUME NEW p \in Paths, NEW q \in Paths, NEW n, IsName(n)
  PROVE  Under(p, Below(q, n)) <=> p = q \/ Under(p, q)
<1> DEFINE s == Below(q, n)
<1>1. Joins(s, q, n) /\ Len(p) \in Nat
  BY BelowJoins, LenProperties DEF Paths
<1> HIDE DEF s
<1>2. s \in Paths
  BY <1>1 DEF Joins
<1>3. ASSUME Leads(p, s), Len(p) = Len(q) PROVE p = q
  BY <1>1, <1>3, SeqEqual DEF Paths, Leads, Joins
<1>4. ASSUME Leads(p, s), Len(p) # Len(q) PROVE Leads(p, q)
  BY <1>1, <1>4 DEF Leads, Joins
<1>5. Leads(q, s)
  BY <1>1 DEF Leads, Joins
<1>6. ASSUME Leads(p, q) PROVE Leads(p, s)
  BY <1>1, <1>6 DEF Leads, Joins
<1> QED BY <1>2, <1>3, <1>4, <1>5, <1>6, UnderLeads DEF s

\* A path is never under itself.
LEMMA UnderPrefix ==
  ASSUME NEW p \in Paths, NEW q \in Paths, Under(p, q)
  PROVE  IsPrefix(p, q) /\ Len(p) < Len(q) /\ p # q
<1>1. Leads(p, q)
  BY UnderLeads
<1>2. SubSeq(p, 1, Len(p)) = p
  BY SubSeqFull DEF Paths
<1>3. /\ SubSeq(q, 1, Len(p)) \in Paths /\ Len(SubSeq(q, 1, Len(p))) = Len(p)
      /\ \A k \in 1 .. Len(p) : SubSeq(q, 1, Len(p))[k] = q[k]
  BY <1>1, SubSeqProperties DEF Paths, Leads
<1>4. SubSeq(q, 1, Len(p)) = p
  BY <1>1, <1>3, SeqEqual DEF Paths, Leads
<1> QED BY <1>1, <1>2, <1>4 DEF IsPrefix, Leads

\* s is p with new in the place of old.
Shifts(s, p, old, new) ==
  /\ s \in Paths /\ Len(s) = Len(new) + (Len(p) - Len(old)) /\ Len(new) \in Nat
  /\ \A k \in 1 .. Len(new) : s[k] = new[k]
  /\ \A k \in 1 .. Len(p) - Len(old) : s[Len(new) + k] = p[Len(old) + k]

\* Replacing the prefix, element by element.
LEMMA RebasedShifts ==
  ASSUME NEW p \in Paths, NEW old \in Paths, NEW new \in Paths, Under(old, p)
  PROVE  Shifts(Rebased(p, old, new), p, old, new)
<1> DEFINE rest == SubSeq(p, Len(old) + 1, Len(p))
           s == new \o rest
<1>1. Leads(old, p) /\ IsPrefix(old, p) /\ Len(new) \in Nat
  BY UnderLeads, UnderPrefix, LenProperties DEF Paths
<1>2. Rebased(p, old, new) = s
  BY <1>1 DEF Rebased
<1>3. /\ rest \in Paths /\ Len(rest) = Len(p) - Len(old)
      /\ \A k \in 1 .. Len(p) - Len(old) : rest[k] = p[Len(old) + k]
  BY <1>1, SubSeqProperties DEF Paths, Leads
<1> HIDE DEF rest
<1>4. s \in Paths /\ Len(s) = Len(new) + Len(rest)
  BY <1>3, ConcatProperties DEF Paths
<1>5. \A k \in 1 .. Len(new) : s[k] = new[k]
  BY <1>1, <1>3, ConcatProperties DEF Paths, Leads
<1>6. \A k \in 1 .. Len(rest) : s[Len(new) + k] = rest[k]
  BY <1>1, <1>3, ConcatProperties DEF Paths, Leads
<1> QED BY <1>1, <1>2, <1>3, <1>4, <1>5, <1>6 DEF Shifts

\* What was under the old path is under the new one.
LEMMA RebasedUnder ==
  ASSUME NEW p \in Paths, NEW old \in Paths, NEW new \in Paths, Under(old, p)
  PROVE  Rebased(p, old, new) \in Paths /\ Under(new, Rebased(p, old, new))
<1> DEFINE s == Rebased(p, old, new)
<1>1. Shifts(s, p, old, new) /\ Leads(old, p)
  BY RebasedShifts, UnderLeads
<1> HIDE DEF s
<1>2. s \in Paths /\ Leads(new, s)
  BY <1>1, LenProperties DEF Shifts, Leads, Paths
<1> QED BY <1>2, UnderLeads DEF s

\* Moving a directory keeps paths apart.
LEMMA RebasedInjective ==
  ASSUME NEW p \in Paths, NEW q \in Paths, NEW old \in Paths, NEW new \in Paths,
         Under(old, p), Under(old, q), Rebased(p, old, new) = Rebased(q, old, new)
  PROVE  p = q
<1> DEFINE s == Rebased(p, old, new)
<1>1. Shifts(s, p, old, new) /\ Shifts(s, q, old, new) /\ Leads(old, p) /\ Leads(old, q)
  BY RebasedShifts, UnderLeads
<1> HIDE DEF s
<1>2. Len(p) = Len(q)
  BY <1>1 DEF Shifts, Leads
<1>3. ASSUME NEW k \in 1 .. Len(p) PROVE p[k] = q[k]
  <2>1. CASE k <= Len(old)
    BY <1>1, <2>1 DEF Leads
  <2>2. CASE k > Len(old)
    <3>1. k - Len(old) \in 1 .. Len(p) - Len(old) /\ Len(old) + (k - Len(old)) = k
      BY <1>1, <2>2 DEF Leads
    <3>2. p[Len(old) + (k - Len(old))] = q[Len(old) + (k - Len(old))]
      BY <1>1, <1>2, <3>1 DEF Shifts
    <3> QED BY <3>1, <3>2
  <2> QED BY <1>1, <2>1, <2>2 DEF Leads
<1> QED BY <1>2, <1>3, SeqEqual DEF Paths

\* Moving a directory and going down in it commute.
LEMMA RebasedBelow ==
  ASSUME NEW q \in Paths, NEW old \in Paths, NEW new \in Paths, NEW n, IsName(n),
         q = old \/ Under(old, q), NEW b \in Paths,
         Under(old, q) => b = Rebased(q, old, new), q = old => b = new
  PROVE  Rebased(Below(q, n), old, new) = Below(b, n)
<1> DEFINE t == Below(q, n)
           l == Rebased(t, old, new)
           r == Below(b, n)
<1>1. Joins(t, q, n) /\ Joins(r, b, n)
  BY BelowJoins
<1>2. Under(old, t)
  BY UnderBelow
<1> HIDE DEF t, r
<1>3. t \in Paths /\ r \in Paths
  BY <1>1 DEF Joins
<1>4. Shifts(l, t, old, new) /\ Leads(old, t)
  BY <1>2, <1>3, RebasedShifts, UnderLeads
<1> HIDE DEF l
<1>5. /\ Len(b) = Len(new) + (Len(q) - Len(old)) /\ Len(old) <= Len(q)
      /\ \A k \in 1 .. Len(new) : b[k] = new[k]
      /\ \A k \in 1 .. Len(q) - Len(old) : b[Len(new) + k] = q[Len(old) + k]
  <2>1. CASE q = old
    BY <1>4, <2>1 DEF Leads, Shifts
  <2>2. CASE Under(old, q)
    <3>1. Shifts(b, q, old, new) /\ Leads(old, q)
      BY <2>2, RebasedShifts, UnderLeads
    <3> QED BY <3>1 DEF Leads, Shifts
  <2> QED BY <2>1, <2>2
<1>6. Len(l) = Len(b) + 1 + Len(n) /\ Len(r) = Len(b) + 1 + Len(n)
  BY <1>1, <1>4, <1>5 DEF Joins, Shifts, Leads
<1>7. ASSUME NEW k \in 1 .. Len(l) PROVE l[k] = r[k]
  <2> DEFINE lq == Len(q)
             ln == Len(n)
             lold == Len(old)
             lnew == Len(new)
             lb == Len(b)
  <2>3. /\ lq \in Nat /\ ln \in Nat /\ lold \in Nat /\ lnew \in Nat /\ lb \in Nat
        /\ Len(t) = lq + 1 + ln /\ lold <= lq /\ lb = lnew + (lq - lold)
        /\ k \in 1 .. lb + 1 + ln
    BY <1>1, <1>4, <1>5, <1>6 DEF Joins, Shifts, Leads
  <2>1. CASE k <= Len(new)
    BY <1>1, <1>4, <1>5, <1>6, <2>1 DEF Joins, Shifts, Leads
  <2>2. CASE k > Len(new)
    <3> DEFINE m == k - Len(new)
    <3>1. m \in 1 .. Len(t) - Len(old) /\ Len(new) + m = k
      BY <2>2, <2>3
    <3>2. l[k] = t[Len(old) + m]
      BY <1>4, <3>1 DEF Shifts
    <3> HIDE DEF m
    <3>3. CASE k <= Len(b)
      <4>1. m \in 1 .. Len(q) - Len(old) /\ Len(old) + m \in 1 .. Len(q) /\ k \in 1 .. Len(b)
        <5> HIDE DEF lq, ln, lold, lnew, lb
        <5>1. m \in 1 .. lq - lold /\ lold + m \in 1 .. lq /\ k \in 1 .. lb
          <6>1. m \in Int /\ lnew + m = k /\ 1 <= m
            BY <3>1 DEF lnew
          <6> QED BY <2>3, <3>3, <6>1 DEF lb
        <5> QED BY <5>1 DEF lq, lold, lb
      <4>2. b[k] = q[Len(old) + m]
        BY <1>5, <3>1, <4>1
      <4>3. t[Len(old) + m] = q[Len(old) + m] /\ r[k] = b[k]
        BY <1>1, <4>1 DEF Joins
      <4> QED BY <3>2, <4>2, <4>3
    <3>4. CASE k = Len(b) + 1
      <4>1. Len(old) + m = Len(q) + 1
        <5> HIDE DEF lq, ln, lold, lnew, lb
        <5>1. m \in Int /\ lnew + m = k /\ k = lb + 1
          BY <3>1, <3>4 DEF lnew, lb
        <5>2. lold + m = lq + 1
          BY <2>3, <5>1
        <5> QED BY <5>2 DEF lq, lold
      <4> QED BY <1>1, <3>2, <3>4, <4>1 DEF Joins
    <3>5. CASE k > Len(b) + 1
      <4> DEFINE i == k - Len(b) - 1
      <4>1. /\ i \in 1 .. Len(n) /\ Len(b) + 1 + i = k /\ Len(q) + 1 + i = Len(old) + m
        <5>1. /\ Len(q) \in Nat /\ Len(b) \in Nat /\ Len(n) \in Nat /\ Len(old) \in Nat
              /\ Len(new) \in Nat /\ Len(t) \in Nat
          BY <1>1, <1>4 DEF Joins, Leads, Shifts
        <5>2. k \in Nat /\ m \in Nat /\ k <= Len(l)
          BY <1>6, <3>1, <5>1
        <5>3. Len(b) = Len(new) + (Len(q) - Len(old)) /\ Len(old) <= Len(q)
          BY <1>5
        <5>4. i \in 1 .. Len(n) /\ Len(b) + 1 + i = k
          BY <1>6, <3>5, <5>1, <5>2
        <5>5. Len(q) + 1 + i = Len(old) + m
          BY <3>1, <5>1, <5>2, <5>3
        <5> QED BY <5>4, <5>5
      <4> HIDE DEF i
      <4>2. t[Len(q) + 1 + i] = n[i] /\ r[Len(b) + 1 + i] = n[i]
        BY <1>1, <4>1 DEF Joins
      <4> QED BY <3>2, <4>1, <4>2
    <3> QED BY <1>1, <1>6, <3>3, <3>4, <3>5 DEF Joins
  <2> QED BY <1>4, <1>6, <2>1, <2>2 DEF Shifts
<1>8. l \in Paths /\ r \in Paths /\ Len(l) = Len(r)
  BY <1>1, <1>4, <1>6 DEF Joins, Shifts
<1> QED BY <1>7, <1>8, SeqEqual DEF Paths, l, r, t

\* A set of lengths has a least one.
LEMMA LeastLength ==
  ASSUME NEW T, T \subseteq Nat, T # {}
  PROVE  \E n \in T : \A m \in T : n <= m
<1> DEFINE R == OpToRel(<, Nat)
<1>1. IsWellFoundedOn(R, Nat)
  BY NatLessThanWellFounded
<1>2. PICK n \in T : \A m \in T : ~(<<m, n>> \in R)
  <2> HIDE DEF R
  <2> QED BY <1>1, WFMin
<1>3. \A m \in T : ~(m < n)
  <2> SUFFICES ASSUME NEW m \in T, m < n PROVE FALSE
    OBVIOUS
  <2>1. <<m, n>> \in R
    BY DEF OpToRel
  <2> QED BY <1>2, <2>1
<1> QED BY <1>3

\* q is the directory p or is in it, and neither is in the other.
In(p, q) == p = q \/ Under(p, q)
Apart(p, q) == ~In(p, q) /\ ~In(q, p)

\* In, element by element.
LEMMA InLeads ==
  ASSUME NEW p \in Paths, NEW q \in Paths, In(p, q)
  PROVE  /\ Len(p) \in Nat /\ Len(q) \in Nat /\ Len(p) <= Len(q) /\ IsPrefix(p, q)
         /\ \A k \in 1 .. Len(p) : q[k] = p[k]
         /\ Len(p) < Len(q) => q[Len(p) + 1] = Slash
<1>1. CASE p = q
  <2>1. Len(p) \in Nat /\ SubSeq(p, 1, Len(p)) = SubSeq(q, 1, Len(p))
    BY <1>1, LenProperties DEF Paths
  <2> QED BY <1>1, <2>1 DEF IsPrefix
<1>2. CASE Under(p, q)
  BY <1>2, UnderLeads, UnderPrefix DEF Leads
<1> QED BY <1>1, <1>2 DEF In

\* Two directories that a path is in are not apart.
LEMMA ApartFacts ==
  ASSUME NEW p \in Paths, NEW q \in Paths, NEW s \in Paths, Apart(p, q)
  PROVE  ~(In(p, s) /\ In(q, s))
<1>1. ASSUME NEW a \in Paths, NEW b \in Paths, In(a, s), In(b, s), Len(a) < Len(b) PROVE In(a, b)
  <2>1. /\ Len(a) \in Nat /\ Len(b) \in Nat /\ Len(s) \in Nat /\ Len(b) <= Len(s)
        /\ (\A k \in 1 .. Len(a) : s[k] = a[k]) /\ (\A k \in 1 .. Len(b) : s[k] = b[k])
        /\ s[Len(a) + 1] = Slash
    BY <1>1, InLeads
  <2>2. Leads(a, b)
    BY <1>1, <2>1 DEF Leads
  <2> QED BY <2>2, UnderLeads DEF In
<1>2. ASSUME In(p, s), In(q, s), Len(p) = Len(q) PROVE p = q
  <2>1. /\ Len(p) \in Nat /\ Len(q) \in Nat
        /\ (\A k \in 1 .. Len(p) : s[k] = p[k]) /\ (\A k \in 1 .. Len(q) : s[k] = q[k])
    BY <1>2, InLeads
  <2> QED BY <1>2, <2>1, SeqEqual DEF Paths
<1>3. Len(p) \in Nat /\ Len(q) \in Nat
  BY LenProperties DEF Paths
<1> QED BY <1>1, <1>2, <1>3 DEF Apart, In

\* Paths that no prefix relates are apart.
LEMMA UnrelatedApart ==
  ASSUME NEW p \in Paths, NEW q \in Paths, ~Related(p, q)
  PROVE  Apart(p, q)
BY InLeads DEF Apart, Related

\* A directory that is moved and moved back.
LEMMA RebasedBack ==
  ASSUME NEW p \in Paths, NEW old \in Paths, NEW new \in Paths, Under(old, p)
  PROVE  Rebased(Rebased(p, old, new), new, old) = p
<1> DEFINE s == Rebased(p, old, new)
           t == Rebased(s, new, old)
<1>1. Shifts(s, p, old, new) /\ Leads(old, p) /\ s \in Paths /\ Under(new, s)
  BY RebasedShifts, RebasedUnder, UnderLeads
<1> HIDE DEF s
<1>2. Shifts(t, s, new, old) /\ Leads(new, s)
  BY <1>1, RebasedShifts, UnderLeads
<1> HIDE DEF t
<1>3. Len(t) = Len(p) /\ t \in Paths
  BY <1>1, <1>2 DEF Shifts, Leads
<1>4. ASSUME NEW k \in 1 .. Len(p) PROVE t[k] = p[k]
  <2>1. CASE k <= Len(old)
    BY <1>1, <1>2, <2>1 DEF Shifts, Leads
  <2>2. CASE k > Len(old)
    <3> DEFINE m == k - Len(old)
    <3>1. m \in 1 .. Len(p) - Len(old) /\ Len(old) + m = k /\ Len(s) - Len(new) = Len(p) - Len(old)
      BY <1>1, <2>2 DEF Leads, Shifts
    <3> HIDE DEF m
    <3>2. s[Len(new) + m] = p[Len(old) + m]
      BY <1>1, <3>1 DEF Shifts
    <3>3. t[Len(old) + m] = s[Len(new) + m]
      BY <1>2, <3>1 DEF Shifts
    <3> QED BY <3>1, <3>2, <3>3
  <2> QED BY <1>1, <2>1, <2>2 DEF Leads
<1>5. t = p
  BY <1>3, <1>4, SeqEqual DEF Paths
<1> QED BY <1>5 DEF s, t

\* The directory itself, and a directory that stays.
LEMMA RebasedSelf ==
  ASSUME NEW old \in Paths, NEW new \in Paths
  PROVE  /\ Rebased(old, old, new) = new
         /\ \A p \in Paths : Under(old, p) => Rebased(p, old, old) = p
<1>1. IsPrefix(old, old) /\ Len(old) \in Nat
  BY InLeads, LenProperties DEF In, Paths
<1>2. SubSeq(old, Len(old) + 1, Len(old)) = <<>>
  BY <1>1, SubSeqEmpty DEF Paths
<1>3. new \o <<>> = new
  BY ConcatEmptySeq DEF Paths
<1>4. Rebased(old, old, new) = new
  BY <1>1, <1>2, <1>3 DEF Rebased
<1>5. ASSUME NEW p \in Paths, Under(old, p) PROVE Rebased(p, old, old) = p
  <2> DEFINE s == Rebased(p, old, old)
  <2>1. Shifts(s, p, old, old) /\ Leads(old, p)
    BY <1>5, RebasedShifts, UnderLeads
  <2> HIDE DEF s
  <2>2. Len(s) = Len(p) /\ s \in Paths
    BY <2>1 DEF Shifts, Leads
  <2>3. ASSUME NEW k \in 1 .. Len(p) PROVE s[k] = p[k]
    <3>1. CASE k <= Len(old)
      BY <2>1, <3>1 DEF Shifts, Leads
    <3>2. CASE k > Len(old)
      <4>1. k - Len(old) \in 1 .. Len(p) - Len(old) /\ Len(old) + (k - Len(old)) = k
        BY <2>1, <3>2 DEF Leads
      <4> QED BY <2>1, <4>1 DEF Shifts
    <3> QED BY <2>1, <3>1, <3>2 DEF Leads
  <2>4. s = p
    BY <2>2, <2>3, SeqEqual DEF Paths
  <2> QED BY <2>4 DEF s
<1> QED BY <1>4, <1>5

\* mkdir -p makes directories that the path is in.
LEMMA ParentsFacts ==
  ASSUME NEW p \in Paths, NEW d \in Parents(p)
  PROVE  d \in Paths /\ Under(d, p)
<1>1. PICK k \in 1 .. Len(p) : p[k] = Slash /\ d = SubSeq(p, 1, k - 1)
  BY DEF Parents
<1>2. Len(p) \in Nat
  BY LenProperties DEF Paths
<1>3. d \in Paths /\ Len(d) = k - 1 /\ \A m \in 1 .. k - 1 : d[m] = p[m]
  BY <1>1, <1>2, SubSeqProperties DEF Paths
<1>4. Leads(d, p)
  BY <1>1, <1>2, <1>3 DEF Leads
<1> QED BY <1>3, <1>4, UnderLeads

-----------------------------------------------------------------------------
(* Types.                                                                  *)
KeyType(k) ==
  k.status \in {"none", "SYNCING", "AVAILABLE"} /\ DOMAIN k = {"status", "path"}
  /\ k = [status |-> k.status, path |-> k.path]

CallSteps == {"idle", "make", "store", "event", "lock", "update", "commit", "end"}
CallType(c) ==
  /\ c.step \in CallSteps /\ c.action \in Actions /\ c.folder \in Ids /\ c.to \in Ids
  /\ RowType(c.seen) /\ c.hit \subseteq Folders
  /\ DOMAIN c = {"step", "action", "folder", "to", "name", "seen", "hit", "keyed"}
  /\ c.step \notin {"idle", "end"} => c.folder \in Folders

RunSteps == {"nas", "revert", "status", "save", "keys"}
JobType(j) ==
  /\ j.step \in {"none", "waiting", "done", "failed"} \cup RunSteps
  /\ j.action \in Actions /\ j.folder \in Ids /\ j.from \in Ids /\ j.to \in Ids
  /\ j.runs \in 0 .. MaxAttempts
  /\ j.step \notin {"none", "done"} => j.folder \in Folders
  /\ DOMAIN j = {"step", "action", "folder", "old", "new", "from", "to", "runs", "seen"}
  /\ j.step = "waiting" => j.runs < MaxAttempts
  /\ j.step \in RunSteps => j.runs > 0

RowsTyped == DOMAIN row = Folders /\ \A f \in Folders : RowType(row[f])
KeysTyped == DOMAIN key = Folders /\ \A f \in Folders : KeyType(key[f])
CallsTyped == DOMAIN call = Calls /\ \A i \in Calls : CallType(call[i])
JobsTyped == DOMAIN job = Calls /\ \A i \in Calls : JobType(job[i])
FlagsTyped == torn \in BOOLEAN /\ crossed \in BOOLEAN /\ mangled \in BOOLEAN

TypeInv == RowsTyped /\ KeysTyped /\ CallsTyped /\ JobsTyped /\ FlagsTyped /\ troubles \in 0 .. MaxTroubles

\* TypeInv says also which fields there are, and which steps have a folder and runs left.
LEMMA TypeInvOK == TypeInv => TypeOK
<1> SUFFICES ASSUME TypeInv PROVE TypeOK
  OBVIOUS
<1>1. \A f \in Folders : RowType(row[f]) /\ key[f].status \in {"none", "SYNCING", "AVAILABLE"}
  BY DEF TypeInv, RowsTyped, KeysTyped, KeyType
<1>2. \A i \in Calls :
       /\ call[i].step \in {"idle", "make", "store", "event", "lock", "update",
                           "commit", "end"}
       /\ call[i].action \in Actions /\ call[i].folder \in Ids /\ call[i].to \in Ids
       /\ RowType(call[i].seen) /\ call[i].hit \subseteq Folders
  BY DEF TypeInv, CallsTyped, CallType, CallSteps
<1>3. \A i \in Calls :
       /\ job[i].step \in {"none", "waiting", "nas", "revert", "status", "save",
                           "keys", "done", "failed"}
       /\ job[i].action \in Actions
       /\ job[i].folder \in Ids /\ job[i].from \in Ids /\ job[i].to \in Ids
       /\ job[i].runs \in 0 .. MaxAttempts
       /\ job[i].step \notin {"none", "done"} => job[i].folder \in Folders
  BY DEF TypeInv, JobsTyped, JobType, RunSteps
<1>4. {torn, crossed, mangled} \subseteq BOOLEAN
  BY Zenon DEF TypeInv, FlagsTyped
<1>5. troubles \in 0 .. MaxTroubles
  BY DEF TypeInv
<1> QED BY ONLY <1>1, <1>2, <1>3, <1>4, <1>5, Zenon DEF TypeOK

\* The root has a row that never changes.
LEMMA RowOfFacts ==
  /\ RowOf(Root).state = "ACTIVE" /\ RowOf(Root).parent = Root /\ RowOf(Root).path = <<>>
  /\ RowOf(Root).name = <<>>
  /\ \A f \in Folders : RowOf(f) = row[f]
  /\ RowOf(Root)' = RowOf(Root) /\ \A f \in Folders : RowOf(f)' = row'[f]
  /\ Root \notin Folders
BY FolderAssumption DEF RowOf, RootRow, NoRow

\* Every row that may be read is typed.
LEMMA RowOfType == ASSUME TypeInv, NEW f \in Ids PROVE RowType(RowOf(f))
BY FolderAssumption DEF TypeInv, RowsTyped, RowType, Ids, RowOf, RootRow, NoRow

\* The empty records are typed.
LEMMA PlainTypes ==
  /\ RowType(NoRow) /\ KeyType(NoKey) /\ CallType(Idle) /\ CallType(Ended) /\ Idle.step = "idle"
  /\ Ended.step = "end" /\ JobType(NoJob) /\ JobType(Done) /\ NoJob.step = "none" /\ Done.step = "done"
<1>1. RowType(NoRow) /\ KeyType(NoKey)
  BY DEF RowType, NoRow, KeyType, NoKey, Ids
<1>2. CallType(Idle)
  BY <1>1 DEF CallType, Idle, Ids, CallSteps, Actions
<1>3. CallType(Ended) /\ Ended.step = "end" /\ Idle.step = "idle"
  BY <1>1 DEF CallType, Idle, Ended, Ids, CallSteps, Actions
<1>4. JobType(NoJob) /\ NoJob.step = "none" /\ JobType(Done) /\ Done.step = "done"
  BY FolderAssumption DEF JobType, NoJob, Done, Ids, Actions, RunSteps
<1> QED BY <1>1, <1>2, <1>3, <1>4

LEMMA InitTypes == Init => TypeInv
<1> SUFFICES ASSUME Init PROVE TypeInv
  OBVIOUS
<1>1. RowsTyped
  <2>1. ASSUME NEW f \in Folders, Home[f] # NoKey PROVE Home[f].parent \in Ids
    BY <2>1, TreeAssumption DEF Ids
  <2>2. ASSUME NEW f \in Folders PROVE RowType(row[f])
    BY <2>1, PlainTypes DEF Init, RowType
  <2> QED BY <2>2 DEF Init, RowsTyped
<1>2. KeysTyped
  <2>1. ASSUME NEW f \in Folders PROVE KeyType(key[f])
    BY PlainTypes DEF Init, KeyType
  <2> QED BY <2>1 DEF Init, KeysTyped
<1>3. CallsTyped /\ JobsTyped
  BY PlainTypes DEF Init, CallsTyped, JobsTyped
<1>4. FlagsTyped
  BY Zenon DEF Init, FlagsTyped
<1>5. troubles \in 0 .. MaxTroubles
  BY FolderAssumption DEF Init
<1> QED BY <1>1, <1>2, <1>3, <1>4, <1>5 DEF TypeInv

-----------------------------------------------------------------------------
(* What the steps change.                                                  *)

SameCalls(i) == \A j \in Calls \ {i} : call'[j] = call[j]
SameJobs(i) == \A j \in Calls \ {i} : job'[j] = job[j]
SameRows(f) == \A g \in Folders \ {f} : row'[g] = row[g]
SameKeys(f) == \A g \in Folders \ {f} : key'[g] = key[g]

\* The call of i ends.
Ends(i) == SameCalls(i) /\ call'[i] = Ended /\ CallsTyped'
\* Only the step of the job of i changes.
Steps(i, step) ==
  /\ SameJobs(i) /\ JobsTyped'
  /\ job'[i].step = step /\ job'[i].action = job[i].action /\ job'[i].folder = job[i].folder
  /\ job'[i].old = job[i].old /\ job'[i].new = job[i].new /\ job'[i].from = job[i].from
  /\ job'[i].to = job[i].to
JobEnds(i) == SameJobs(i) /\ job'[i] = Done /\ JobsTyped'

\* What End, JobDone, Goto, Throw, Event and Begin do to the calls and the jobs.
LEMMA EndDoes ==
  ASSUME TypeInv, NEW i \in Calls, End(i)
  PROVE  Ends(i)
BY PlainTypes DEF End, Ends, SameCalls, TypeInv, CallsTyped

LEMMA JobDoneDoes ==
  ASSUME TypeInv, NEW i \in Calls, JobDone(i)
  PROVE  JobEnds(i)
BY PlainTypes DEF JobDone, JobEnds, SameJobs, TypeInv, JobsTyped

LEMMA GotoDoes ==
  ASSUME TypeInv, NEW i \in Calls, NEW step, Goto(i, step),
         step \in {"waiting", "failed"} \cup RunSteps,
         job[i].step \in {"waiting", "failed"} \cup RunSteps,
         step = "waiting" => job[i].runs < MaxAttempts, step \in RunSteps => job[i].runs > 0
  PROVE  Steps(i, step) /\ job'[i].runs = job[i].runs
<1>1. JobType(job[i])
  BY DEF TypeInv, JobsTyped
<1>2. /\ DOMAIN job' = Calls /\ \A j \in Calls \ {i} : job'[j] = job[j]
      /\ job'[i] = [job[i] EXCEPT !.step = step]
  BY DEF Goto, TypeInv, JobsTyped
<1>3. /\ job'[i].step = step /\ job'[i].action = job[i].action /\ job'[i].folder = job[i].folder
      /\ job'[i].old = job[i].old /\ job'[i].new = job[i].new /\ job'[i].from = job[i].from
      /\ job'[i].to = job[i].to /\ job'[i].runs = job[i].runs /\ DOMAIN job'[i] = DOMAIN job[i]
  BY <1>1, <1>2 DEF JobType
<1>4. JobType(job'[i])
  BY <1>1, <1>3 DEF JobType, RunSteps
<1>5. JobsTyped'
  BY <1>2, <1>4 DEF JobsTyped, TypeInv
<1> QED BY <1>2, <1>3, <1>5 DEF Steps, SameJobs

LEMMA ThrowDoes ==
  ASSUME TypeInv, NEW i \in Calls, Throw(i), Running(i)
  PROVE  Steps(i, "waiting") \/ Steps(i, "failed")
<1>1. JobType(job[i]) /\ job[i].step \in RunSteps
  BY DEF TypeInv, JobsTyped, Running, RunSteps
<1>2. CASE job[i].runs < MaxAttempts
  <2>1. Goto(i, "waiting")
    BY <1>2 DEF Throw
  <2> QED BY <1>1, <1>2, <2>1, GotoDoes DEF RunSteps
<1>3. CASE ~(job[i].runs < MaxAttempts)
  <2>1. Goto(i, "failed")
    BY <1>3 DEF Throw
  <2> QED BY <1>1, <2>1, GotoDoes DEF RunSteps
<1> QED BY <1>2, <1>3

\* The job that the event of call i leads to.
HasJob(i, f, old, new) ==
  /\ job'[i].step = "waiting" /\ job'[i].action = call[i].action /\ job'[i].folder = f
  /\ job'[i].old = old /\ job'[i].new = new /\ job'[i].to = call[i].to

LEMMA EventJobDoes ==
  ASSUME TypeInv, NEW i \in Calls, call[i].folder \in Folders, NEW old, NEW new,
         job'[i] = EventJob(i, old, new)
  PROVE  HasJob(i, call[i].folder, old, new) /\ JobType(job'[i])
<1> DEFINE f == call[i].folder
<1>1. job'[i] = [step |-> "waiting", action |-> call[i].action, folder |-> f, old |-> old, new |-> new,
        from |-> RowOf(f).parent, to |-> call[i].to, runs |-> 0, seen |-> <<>>]
  BY DEF EventJob
<1>2. CallType(call[i]) /\ RowOf(f).parent \in Ids
  BY RowOfType DEF TypeInv, CallsTyped, RowType, Ids
<1>3. JobType(job'[i])
  BY <1>1, <1>2, FolderAssumption DEF JobType, CallType, Ids, RunSteps
<1> QED BY <1>1, <1>3 DEF HasJob

\* The event and the job of call i.
Registers(i, f, old, new) ==
  /\ SameJobs(i) /\ JobsTyped' /\ HasJob(i, f, old, new)
  /\ crossed' = (crossed \/ Crosses(i, old, new))

LEMMA EventDoes ==
  ASSUME TypeInv, NEW i \in Calls, call[i].folder \in Folders, NEW old, NEW new, Event(i, old, new)
  PROVE  Registers(i, call[i].folder, old, new)
<1>1. /\ DOMAIN job' = Calls /\ \A j \in Calls \ {i} : job'[j] = job[j]
      /\ job'[i] = EventJob(i, old, new)
  BY DEF Event, TypeInv, JobsTyped
<1>2. HasJob(i, call[i].folder, old, new) /\ JobType(job'[i])
  BY <1>1, EventJobDoes
<1>3. JobsTyped'
  BY <1>1, <1>2 DEF TypeInv, JobsTyped
<1> QED BY <1>1, <1>2, <1>3 DEF Registers, SameJobs, Event

Starts(i, step, action, f, to, name) ==
  /\ SameCalls(i) /\ CallsTyped' /\ call[i].step = "idle"
  /\ call'[i].step = step /\ call'[i].action = action /\ call'[i].folder = f
  /\ call'[i].to = to /\ call'[i].name = name /\ call'[i].seen = RowOf(to)
  /\ UNCHANGED <<row, key, dirs, mangled, job, torn, crossed, troubles>>

LEMMA BeginDoes ==
  ASSUME TypeInv, NEW i \in Calls, NEW step, NEW action, NEW f \in Folders, NEW to \in Ids, NEW name,
         Begin(i, step, action, f, to, name), step \in CallSteps, action \in Actions
  PROVE  Starts(i, step, action, f, to, name)
<1>1. /\ DOMAIN call' = Calls /\ \A j \in Calls \ {i} : call'[j] = call[j]
      /\ call'[i] = [step |-> step, action |-> action, folder |-> f,
                     to |-> to, name |-> name, seen |-> RowOf(to),
                     hit |-> {}, keyed |-> FALSE]
  BY DEF Begin, TypeInv, CallsTyped
<1>2. CallType(call'[i])
  BY <1>1, RowOfType DEF CallType, Ids
<1>3. CallsTyped'
  BY <1>1, <1>2 DEF TypeInv, CallsTyped
<1> QED BY <1>1, <1>3 DEF Begin, SameCalls, Begins, tree, history, Starts

\* A command that begins has read what it needs.
LEMMA CommandDoes ==
  ASSUME TypeInv, NEW i \in Calls, Command(i)
  PROVE  \E f \in Folders, to \in Ids : \E name :
           \/ /\ Starts(i, "lock", "move", f, to, <<>>) /\ name = <<>>
              /\ row[f].state # "none" /\ Active(to)
           \/ /\ Starts(i, "make", "mkdir", f, to, name) /\ name \in NewNames
              /\ row[f].state = "none" /\ (\A j \in Calls : call[j].folder # f) /\ Active(to)
           \/ /\ Starts(i, "update", "rename", f, to, name) /\ name \in NewNames
              /\ Active(f) /\ ~Locked(f) /\ to = row[f].parent
           \/ /\ Starts(i, "update", "trash", f, to, name) /\ name = row[f].name
              /\ Active(f) /\ ~Locked(f) /\ to = row[f].parent
<1> USE DEF CallSteps, Actions
<1>1. \A f \in Folders : row[f].parent \in Ids
  BY DEF TypeInv, RowsTyped, RowType, Ids
<1>2. ASSUME NEW f \in Folders, NEW to \in Ids, BeginMove(i, f, to)
      PROVE  Starts(i, "lock", "move", f, to, <<>>) /\ row[f].state # "none" /\ Active(to)
  BY <1>2, BeginDoes DEF BeginMove
<1>3. ASSUME NEW f \in Folders, NEW to \in Ids, NEW name \in NewNames, BeginCreate(i, f, to, name)
      PROVE  /\ Starts(i, "make", "mkdir", f, to, name)
             /\ row[f].state = "none" /\ (\A j \in Calls : call[j].folder # f) /\ Active(to)
  BY <1>3, BeginDoes DEF BeginCreate
<1>4. ASSUME NEW f \in Folders, NEW name \in NewNames, BeginRename(i, f, name)
      PROVE  Starts(i, "update", "rename", f, row[f].parent, name) /\ Active(f) /\ ~Locked(f)
  BY <1>1, <1>4, BeginDoes DEF BeginRename, Open
<1>5. ASSUME NEW f \in Folders, BeginTrash(i, f)
      PROVE  Starts(i, "update", "trash", f, row[f].parent, row[f].name) /\ Active(f) /\ ~Locked(f)
  BY <1>1, <1>5, BeginDoes DEF BeginTrash, Open
<1> QED BY <1>1, <1>2, <1>3, <1>4, <1>5 DEF Command

\* What each action changes, in terms of single folders, calls and jobs.
LEMMA LockMoveDoes ==
  ASSUME TypeInv, NEW i \in Calls, LockMove(i)
  PROVE  LET c == call[i]  f == call[i].folder IN
         /\ c.step = "lock" /\ ~Locked(f)
         /\ \/ Ends(i)
            \/ /\ Active(f) /\ c.to # f /\ ~Under(row[f].path, c.seen.path)
               /\ SameCalls(i) /\ CallsTyped'
               /\ call'[i].step = "update" /\ call'[i].action = c.action /\ call'[i].folder = f
               /\ call'[i].to = c.to /\ call'[i].name = row[f].name /\ call'[i].seen = c.seen
         /\ UNCHANGED <<row, key, dirs, mangled, job, torn, crossed, troubles>>
<1> DEFINE c == call[i]
           f == c.folder
<1>1. c.step = "lock" /\ ~Locked(f) /\ UNCHANGED <<row, key, dirs, mangled, job, torn, crossed, troubles>>
  BY DEF LockMove, tree, history
<1>2. CASE End(i)
  BY <1>1, <1>2, EndDoes
<1>3. CASE ~End(i)
  <2>1. /\ Active(f) /\ c.to # f /\ ~Under(row[f].path, c.seen.path)
        /\ call' = [call EXCEPT ![i].step = "update", ![i].name = row[f].name]
    BY <1>3 DEF LockMove, Open
  <2>2. CallType(c)
    BY DEF TypeInv, CallsTyped
  <2>3. /\ DOMAIN call' = Calls /\ \A j \in Calls \ {i} : call'[j] = call[j]
        /\ call'[i] = [[c EXCEPT !.step = "update"] EXCEPT !.name = row[f].name]
    BY <2>1 DEF TypeInv, CallsTyped
  <2>4. /\ call'[i].step = "update" /\ call'[i].action = c.action /\ call'[i].folder = f
        /\ call'[i].to = c.to /\ call'[i].name = row[f].name /\ call'[i].seen = c.seen
        /\ call'[i].hit = c.hit /\ DOMAIN call'[i] = DOMAIN c
    BY <2>2, <2>3 DEF CallType
  <2>5. CallType(call'[i])
    BY <1>1, <2>2, <2>4 DEF CallType, CallSteps
  <2>6. CallsTyped'
    BY <2>3, <2>5 DEF TypeInv, CallsTyped
  <2> QED BY <1>1, <2>1, <2>3, <2>4, <2>6 DEF SameCalls
<1> QED BY <1>2, <1>3

LEMMA CreateRowDoes ==
  ASSUME TypeInv, NEW i \in Calls, CreateRow(i)
  PROVE  LET c == call[i]  f == call[i].folder IN
         /\ c.step = "make" /\ f \in Folders
         /\ SameRows(f) /\ RowsTyped'
         /\ row'[f].state = "ACTIVE" /\ row'[f].parent = c.to /\ row'[f].name = c.name
         /\ row'[f].path = Below(c.seen.path, c.name)
         /\ SameCalls(i) /\ CallsTyped'
         /\ call'[i].step = "store" /\ call'[i].action = c.action /\ call'[i].folder = f
         /\ call'[i].to = c.to /\ call'[i].name = c.name /\ call'[i].seen = row'[f]
         /\ torn' = (torn \/ Stale(i))
         /\ UNCHANGED <<key, dirs, mangled, job, crossed, troubles>>
<1> DEFINE c == call[i]
           f == c.folder
<1>1. CallType(c) /\ c.step = "make" /\ f \in Folders
  BY DEF TypeInv, CallsTyped, CallType, CreateRow
<1>2. /\ DOMAIN row' = Folders /\ \A g \in Folders \ {f} : row'[g] = row[g]
      /\ row'[f] = [state |-> "ACTIVE", parent |-> c.to, name |-> c.name, path |-> Below(c.seen.path, c.name)]
  BY <1>1 DEF CreateRow, TypeInv, RowsTyped
<1>3. RowType(row'[f])
  BY <1>1, <1>2 DEF RowType, CallType
<1>4. RowsTyped'
  BY <1>2, <1>3 DEF TypeInv, RowsTyped
<1>5. /\ DOMAIN call' = Calls /\ \A j \in Calls \ {i} : call'[j] = call[j]
      /\ call'[i] = [[c EXCEPT !.step = "store"] EXCEPT !.seen = row'[f]]
  BY DEF CreateRow, TypeInv, CallsTyped
<1>6. /\ call'[i].step = "store" /\ call'[i].action = c.action /\ call'[i].folder = f
      /\ call'[i].to = c.to /\ call'[i].name = c.name /\ call'[i].seen = row'[f]
      /\ call'[i].hit = c.hit /\ DOMAIN call'[i] = DOMAIN c
  BY <1>1, <1>5 DEF CallType
<1>7. CallType(call'[i])
  BY <1>1, <1>3, <1>6 DEF CallType, CallSteps
<1>8. CallsTyped'
  BY <1>5, <1>7 DEF TypeInv, CallsTyped
<1> QED BY <1>1, <1>2, <1>4, <1>5, <1>6, <1>8 DEF CreateRow, SameRows, SameCalls

LEMMA CreateKeyDoes ==
  ASSUME TypeInv, NEW i \in Calls, CreateKey(i)
  PROVE  LET c == call[i]  f == call[i].folder IN
         /\ c.step = "store" /\ f \in Folders
         /\ SameKeys(f) /\ KeysTyped' /\ key'[f] = [status |-> "SYNCING", path |-> c.seen.path]
         /\ SameCalls(i) /\ CallsTyped'
         /\ call'[i].step = "event" /\ call'[i].action = c.action /\ call'[i].folder = f
         /\ call'[i].to = c.to /\ call'[i].name = c.name /\ call'[i].seen = c.seen
         /\ torn' = (torn \/ row[f].path # c.seen.path)
         /\ UNCHANGED <<row, dirs, mangled, job, crossed, troubles>>
<1> DEFINE c == call[i]
           f == c.folder
<1>1. CallType(c) /\ c.step = "store" /\ f \in Folders
  BY DEF TypeInv, CallsTyped, CallType, CreateKey
<1>2. /\ DOMAIN key' = Folders /\ \A g \in Folders \ {f} : key'[g] = key[g]
      /\ key'[f] = [status |-> "SYNCING", path |-> c.seen.path]
  BY <1>1 DEF CreateKey, TypeInv, KeysTyped
<1>3. KeyType(key'[f])
  BY <1>2 DEF KeyType
<1>4. KeysTyped'
  BY <1>2, <1>3 DEF TypeInv, KeysTyped
<1>5. /\ DOMAIN call' = Calls /\ \A j \in Calls \ {i} : call'[j] = call[j]
      /\ call'[i] = [c EXCEPT !.step = "event"]
  BY DEF CreateKey, TypeInv, CallsTyped
<1>6. /\ call'[i].step = "event" /\ call'[i].action = c.action /\ call'[i].folder = f
      /\ call'[i].to = c.to /\ call'[i].name = c.name /\ call'[i].seen = c.seen
      /\ call'[i].hit = c.hit /\ DOMAIN call'[i] = DOMAIN c
  BY <1>1, <1>5 DEF CallType
<1>7. CallType(call'[i])
  BY <1>1, <1>6 DEF CallType, CallSteps
<1>8. CallsTyped'
  BY <1>5, <1>7 DEF TypeInv, CallsTyped
<1> QED BY <1>1, <1>2, <1>4, <1>5, <1>6, <1>8 DEF CreateKey, SameKeys, SameCalls

LEMMA CreateEventDoes ==
  ASSUME TypeInv, NEW i \in Calls, CreateEvent(i)
  PROVE  LET c == call[i]  f == call[i].folder IN
         /\ c.step = "event" /\ f \in Folders
         /\ Registers(i, f, c.seen.path, c.seen.path) /\ Ends(i)
         /\ torn' = (torn \/ row[f].path # c.seen.path)
         /\ UNCHANGED <<row, key, dirs, mangled, troubles>>
<1>1. call[i].folder \in Folders
  BY DEF TypeInv, CallsTyped, CallType, CreateEvent
<1> QED BY <1>1, EventDoes, EndDoes DEF CreateEvent, tree

LEMMA UpdateDoes ==
  ASSUME TypeInv, NEW i \in Calls, Update(i)
  PROVE  LET c == call[i]  f == call[i].folder IN
         /\ c.step = "update" /\ f \in Folders
         /\ SameCalls(i) /\ CallsTyped'
         /\ call'[i].step = "commit" /\ call'[i].action = c.action /\ call'[i].folder = f
         /\ call'[i].to = c.to /\ call'[i].name = c.name /\ call'[i].seen = c.seen
         /\ \A g \in call'[i].hit : g # f /\ ~Locked(g)
         /\ call'[i].keyed = (key[f] # NoKey)
         /\ crossed' = (crossed \/ key[f] = NoKey)
         /\ UNCHANGED <<row, key, dirs, mangled, job, torn, troubles>>
<1> DEFINE c == call[i]
           f == c.folder
           hit == {g \in Folders \ {f} : c.action # "trash" /\ Like(row[f].path, row[g].path)}
<1>1. CallType(c) /\ c.step = "update" /\ f \in Folders
  BY DEF TypeInv, CallsTyped, CallType, Update
<1>2. /\ \A g \in hit : ~Locked(g)
      /\ call' = [call EXCEPT ![i].step = "commit", ![i].hit = hit,
                              ![i].keyed = key[f] # NoKey]
      /\ crossed' = (crossed \/ key[f] = NoKey)
      /\ UNCHANGED <<row, key, dirs, mangled, job, torn, troubles>>
  BY DEF Update, tree
<1>3. \A g \in hit : g \in Folders /\ g # f
  OBVIOUS
<1> HIDE DEF hit
<1>4. /\ DOMAIN call' = Calls /\ \A j \in Calls \ {i} : call'[j] = call[j]
      /\ call'[i] = [[[c EXCEPT !.step = "commit"] EXCEPT !.hit = hit]
                        EXCEPT !.keyed = key[f] # NoKey]
  BY <1>2 DEF TypeInv, CallsTyped
<1>5. /\ call'[i].step = "commit" /\ call'[i].action = c.action /\ call'[i].folder = f
      /\ call'[i].to = c.to /\ call'[i].name = c.name /\ call'[i].seen = c.seen
      /\ call'[i].hit = hit /\ call'[i].keyed = (key[f] # NoKey)
      /\ DOMAIN call'[i] = DOMAIN c
  BY <1>1, <1>4 DEF CallType
<1>6. CallType(call'[i])
  BY <1>1, <1>3, <1>5 DEF CallType, CallSteps
<1>7. CallsTyped'
  BY <1>4, <1>6 DEF TypeInv, CallsTyped
<1> QED BY <1>1, <1>2, <1>3, <1>4, <1>5, <1>7 DEF SameCalls

\* The rows below the folder, unless REPLACE has hit something else or one of them came
\* there after the statement.
LEMMA CommitDoes ==
  ASSUME TypeInv, NEW i \in Calls, Commit(i)
  PROVE  LET c == call[i]  f == call[i].folder  old == row[call[i].folder].path  new == Target(i) IN
         /\ c.step = "commit" /\ c.action \in {"rename", "move"} /\ f \in Folders
         /\ RowsTyped' /\ KeysTyped' /\ mangled' \in BOOLEAN
         /\ row'[f].state = row[f].state /\ row'[f].parent = c.to /\ row'[f].name = c.name
         /\ ~mangled' => row'[f].path = new
         /\ \A g \in Folders \ {f} :
              /\ row'[g].state = row[g].state /\ row'[g].parent = row[g].parent
              /\ row'[g].name = row[g].name
              /\ g \notin c.hit => row'[g] = row[g]
              /\ ~Under(old, row[g].path) /\ ~mangled' => row'[g].path = row[g].path
              /\ Under(old, row[g].path) /\ ~mangled' /\ ~torn' =>
                   row'[g].path = Rebased(row[g].path, old, new)
         /\ mangled => mangled'
         /\ SameKeys(f)
         /\ key'[f] = (IF c.keyed THEN [status |-> "SYNCING", path |-> new] ELSE key[f])
         /\ Registers(i, f, old, new) /\ Ends(i)
         /\ (torn => torn') /\ (Stale(i) => torn') /\ torn' \in BOOLEAN
         /\ UNCHANGED <<dirs, troubles>>
<1> DEFINE c == call[i]
           f == c.folder
           old == row[f].path
           new == Target(i)
           changed == [row[f] EXCEPT !.parent = c.to, !.name = c.name, !.path = new]
           Path(p) == IF Like(old, p) THEN Replace(p, old, new) ELSE p
           Meant(p) == IF Under(old, p) THEN Rebased(p, old, new) ELSE p
           Missed == {g \in Folders \ {f} : Under(old, row[g].path)} \ c.hit
<1>1. CallType(c) /\ f \in Folders /\ RowType(row[f]) /\ c.step = "commit" /\ c.action \in {"rename", "move"}
  BY DEF TypeInv, CallsTyped, CallType, RowsTyped, Commit
<1>2. /\ Relocate(f, changed, c.hit, old, new)
      /\ key' = [key EXCEPT ![f] = IF c.keyed THEN [status |-> "SYNCING", path |-> new] ELSE @]
      /\ Event(i, old, new) /\ torn' = (torn \/ Stale(i) \/ Missed # {}) /\ End(i)
      /\ UNCHANGED <<dirs, troubles>>
  BY DEF Commit
<1>3. Registers(i, f, old, new) /\ Ends(i)
  BY <1>1, <1>2, EventDoes, EndDoes
<1> HIDE DEF new
<1>4. /\ row' = [g \in Folders |->
           IF g = f THEN [changed EXCEPT !.path = Path(@)]
           ELSE IF g \in c.hit THEN [row[g] EXCEPT !.path = Path(@)]
           ELSE row[g]]
      /\ mangled' = (mangled \/ row'[f].path # changed.path
                             \/ \E g \in c.hit \ {f} : row'[g].path # Meant(row[g].path))
  BY <1>2 DEF Relocate
<1> HIDE DEF Path, Meant, Missed
<1>5. /\ row'[f].state = row[f].state /\ row'[f].parent = c.to /\ row'[f].name = c.name
      /\ changed.path = new /\ DOMAIN row'[f] = DOMAIN row[f]
  BY <1>1, <1>4 DEF RowType
<1> HIDE DEF changed
<1>6. ASSUME NEW g \in Folders \ {f}
      PROVE /\ row'[g].state = row[g].state /\ row'[g].parent = row[g].parent
            /\ row'[g].name = row[g].name /\ DOMAIN row'[g] = DOMAIN row[g]
            /\ g \notin c.hit => row'[g] = row[g]
  <2>1. RowType(row[g])
    BY DEF TypeInv, RowsTyped
  <2>2. row'[g] = (IF g \in c.hit THEN [row[g] EXCEPT !.path = Path(@)] ELSE row[g])
    BY <1>4
  <2> QED BY <2>1, <2>2 DEF RowType
<1>7. RowsTyped'
  <2>1. RowType(row'[f])
    BY <1>1, <1>5 DEF RowType, CallType
  <2>2. ASSUME NEW g \in Folders \ {f} PROVE RowType(row'[g])
    BY <1>6 DEF TypeInv, RowsTyped, RowType
  <2>3. DOMAIN row' = Folders
    BY <1>4
  <2> QED BY <2>1, <2>2, <2>3 DEF RowsTyped
<1>8. /\ SameKeys(f) /\ KeysTyped'
      /\ key'[f] = (IF c.keyed THEN [status |-> "SYNCING", path |-> new] ELSE key[f])
  <2>1. /\ DOMAIN key' = Folders /\ \A g \in Folders \ {f} : key'[g] = key[g]
        /\ key'[f] = (IF c.keyed THEN [status |-> "SYNCING", path |-> new] ELSE key[f])
    BY <1>1, <1>2 DEF TypeInv, KeysTyped
  <2>2. KeyType(key'[f])
    BY <2>1, <1>1 DEF KeyType, TypeInv, KeysTyped
  <2> QED BY <2>1, <2>2 DEF TypeInv, KeysTyped, SameKeys
<1>9. /\ mangled => mangled'
      /\ ~mangled' => row'[f].path = changed.path
      /\ \A g \in c.hit \ {f} : ~mangled' => row'[g].path = Meant(row[g].path)
  BY <1>4, Zenon
<1>10. mangled' \in BOOLEAN
  BY <1>4, Zenon
<1>11. (torn => torn') /\ (Stale(i) => torn') /\ torn' \in BOOLEAN /\ (Missed # {} => torn')
  BY <1>2, Zenon
<1>12. ASSUME NEW g \in Folders \ {f}, ~Under(old, row[g].path), ~mangled'
       PROVE  row'[g].path = row[g].path
  BY <1>6, <1>9, <1>12 DEF Meant
<1>13. ASSUME NEW g \in Folders \ {f}, Under(old, row[g].path), ~mangled', ~torn'
       PROVE  row'[g].path = Rebased(row[g].path, old, new)
  <2>1. g \in c.hit
    BY <1>11, <1>13 DEF Missed
  <2> QED BY <1>9, <1>13, <2>1 DEF Meant
<1> QED BY <1>1, <1>2, <1>3, <1>5, <1>6, <1>7, <1>8, <1>9, <1>10, <1>11, <1>12, <1>13 DEF new

LEMMA CommitTrashDoes ==
  ASSUME TypeInv, NEW i \in Calls, CommitTrash(i)
  PROVE  LET c == call[i]  f == call[i].folder IN
         /\ c.step = "commit" /\ c.action = "trash" /\ f \in Folders
         /\ RowsTyped' /\ KeysTyped'
         /\ SameRows(f) /\ row'[f].state = "TRASHED" /\ row'[f].parent = row[f].parent
         /\ row'[f].name = row[f].name /\ row'[f].path = row[f].path
         /\ SameKeys(f)
         /\ Registers(i, f, row[f].path, Target(i)) /\ Ends(i)
         /\ torn' = (torn \/ Stale(i))
         /\ UNCHANGED <<dirs, mangled, troubles>>
<1> DEFINE c == call[i]
           f == c.folder
<1>1. CallType(c) /\ f \in Folders /\ RowType(row[f]) /\ KeyType(key[f]) /\ c.step = "commit" /\ c.action = "trash"
  BY DEF TypeInv, CallsTyped, CallType, RowsTyped, KeysTyped, CommitTrash
<1>2. /\ DOMAIN row' = Folders /\ \A g \in Folders \ {f} : row'[g] = row[g]
      /\ row'[f] = [row[f] EXCEPT !.state = "TRASHED"]
  BY <1>1 DEF CommitTrash, TypeInv, RowsTyped
<1>3. /\ row'[f].state = "TRASHED" /\ row'[f].parent = row[f].parent
      /\ row'[f].name = row[f].name /\ row'[f].path = row[f].path /\ DOMAIN row'[f] = DOMAIN row[f]
  BY <1>1, <1>2 DEF RowType
<1>4. RowType(row'[f])
  BY <1>1, <1>3 DEF RowType
<1>5. RowsTyped' /\ SameRows(f)
  BY <1>2, <1>4 DEF TypeInv, RowsTyped, SameRows
<1>6. /\ DOMAIN key' = Folders /\ \A g \in Folders \ {f} : key'[g] = key[g]
      /\ key'[f] = [key[f] EXCEPT !.status = IF c.keyed THEN "SYNCING" ELSE @]
  BY <1>1 DEF CommitTrash, TypeInv, KeysTyped
<1>7. key'[f] = [status |-> IF c.keyed THEN "SYNCING" ELSE key[f].status, path |-> key[f].path]
  BY <1>1, <1>6 DEF KeyType
<1>8. KeyType(key'[f])
  BY <1>1, <1>7 DEF KeyType
<1>9. KeysTyped' /\ SameKeys(f)
  BY <1>6, <1>8 DEF TypeInv, KeysTyped, SameKeys
<1>10. Registers(i, f, row[f].path, Target(i)) /\ Ends(i)
  BY <1>1, EventDoes, EndDoes DEF CommitTrash
<1> QED BY <1>1, <1>3, <1>5, <1>9, <1>10 DEF CommitTrash

\* The job of an event whose transaction is rolled back.
Survives(i) == HasJob(i, call[i].folder, row[call[i].folder].path, Target(i))

LEMMA CommandFailsDoes ==
  ASSUME TypeInv, NEW i \in Calls, CommandFails(i)
  PROVE  /\ UnderWay(i) /\ Ends(i) /\ SameJobs(i) /\ JobsTyped'
         /\ IF call[i].step = "commit" THEN Survives(i) ELSE job'[i] = job[i]
         /\ crossed' = (crossed \/ call[i].step \in {"store", "event", "commit"})
         /\ crossed' \in BOOLEAN /\ troubles' \in 0 .. MaxTroubles
         /\ UNCHANGED <<row, key, dirs, mangled, torn>>
<1>1. /\ UnderWay(i) /\ End(i) /\ UNCHANGED <<row, key, dirs, mangled, torn>>
      /\ crossed' = (crossed \/ call[i].step \in {"store", "event", "commit"})
      /\ troubles < MaxTroubles /\ troubles' = troubles + 1
  BY DEF CommandFails, tree, Trouble
<1>2. call[i].folder \in Folders
  BY <1>1 DEF TypeInv, CallsTyped, CallType, UnderWay
<1>3. troubles' \in 0 .. MaxTroubles
  BY <1>1, FolderAssumption DEF TypeInv
<1>4. ASSUME call[i].step = "commit" PROVE Survives(i) /\ SameJobs(i) /\ JobsTyped'
  <2>1. /\ DOMAIN job' = Calls /\ \A j \in Calls \ {i} : job'[j] = job[j]
        /\ job'[i] = EventJob(i, row[call[i].folder].path, Target(i))
    BY <1>4 DEF CommandFails, TypeInv, JobsTyped
  <2>2. Survives(i) /\ JobType(job'[i])
    BY <1>2, <2>1, EventJobDoes DEF Survives
  <2>3. JobsTyped'
    BY <2>1, <2>2 DEF TypeInv, JobsTyped
  <2> QED BY <2>1, <2>2, <2>3 DEF SameJobs
<1>5. ASSUME call[i].step # "commit" PROVE job'[i] = job[i] /\ SameJobs(i) /\ JobsTyped'
  <2>1. job' = job
    BY <1>5 DEF CommandFails
  <2> QED BY <2>1 DEF SameJobs, TypeInv, JobsTyped
<1>6. crossed' \in BOOLEAN
  BY <1>1, Zenon
<1> QED BY <1>1, <1>3, <1>4, <1>5, <1>6, EndDoes

LEMMA RunDoes ==
  ASSUME TypeInv, NEW i \in Calls, Run(i)
  PROVE  LET j == job[i]  k == key[job[i].folder] IN
         /\ j.step = "waiting" /\ j.folder \in Folders
         /\ \/ /\ k.status = "none" \/ (k.status = "AVAILABLE" /\ (j.action = "mkdir" \/ k.path = j.new))
               /\ JobEnds(i)
            \/ j.action = "move" /\ ~Active(j.to) /\ Steps(i, "revert") /\ job'[i].seen = k.path
            \/ Steps(i, "nas")
         /\ UNCHANGED <<row, key, dirs, mangled, call, torn, crossed, troubles>>
<1> DEFINE j == job[i]
           k == key[j.folder]
<1>1. JobType(j) /\ j.step = "waiting" /\ j.folder \in Folders
  BY DEF TypeInv, JobsTyped, JobType, Run
<1>2. UNCHANGED <<row, key, dirs, mangled, call, torn, crossed, troubles>>
  BY DEF Run, tree, history
<1>3. CASE k.status = "none" \/ (k.status = "AVAILABLE" /\ (j.action = "mkdir" \/ k.path = j.new))
  <2>1. JobEnds(i)
    BY <1>3, JobDoneDoes DEF Run
  <2> QED BY <1>1, <1>2, <1>3, <2>1
<1>4. CASE /\ ~(k.status = "none" \/ (k.status = "AVAILABLE" /\ (j.action = "mkdir" \/ k.path = j.new)))
           /\ j.action = "move" /\ ~Active(j.to)
  <2>1. /\ DOMAIN job' = Calls /\ \A m \in Calls \ {i} : job'[m] = job[m]
        /\ job'[i] = [[[j EXCEPT !.runs = @ + 1] EXCEPT !.step = "revert"] EXCEPT !.seen = k.path]
    BY <1>4 DEF Run, TypeInv, JobsTyped
  <2>2. /\ job'[i].step = "revert" /\ job'[i].action = job[i].action /\ job'[i].folder = job[i].folder
        /\ job'[i].old = job[i].old /\ job'[i].new = job[i].new /\ job'[i].from = job[i].from
        /\ job'[i].to = job[i].to /\ DOMAIN job'[i] = DOMAIN j /\ job'[i].runs = j.runs + 1
        /\ job'[i].seen = k.path
    BY <1>1, <2>1 DEF JobType
  <2>3. JobType(job'[i])
    BY <1>1, <2>2, FolderAssumption DEF JobType, RunSteps
  <2>4. JobsTyped'
    BY <2>1, <2>3 DEF TypeInv, JobsTyped
  <2> QED BY <1>1, <1>2, <1>4, <2>1, <2>2, <2>4 DEF Steps, SameJobs
<1>5. CASE /\ ~(k.status = "none" \/ (k.status = "AVAILABLE" /\ (j.action = "mkdir" \/ k.path = j.new)))
           /\ ~(j.action = "move" /\ ~Active(j.to))
  <2>1. /\ DOMAIN job' = Calls /\ \A m \in Calls \ {i} : job'[m] = job[m]
        /\ job'[i] = [[j EXCEPT !.runs = @ + 1] EXCEPT !.step = "nas"]
    BY <1>5 DEF Run, TypeInv, JobsTyped
  <2>2. /\ job'[i].step = "nas" /\ job'[i].action = job[i].action /\ job'[i].folder = job[i].folder
        /\ job'[i].old = job[i].old /\ job'[i].new = job[i].new /\ job'[i].from = job[i].from
        /\ job'[i].to = job[i].to /\ DOMAIN job'[i] = DOMAIN j /\ job'[i].runs = j.runs + 1
    BY <1>1, <2>1 DEF JobType
  <2>3. JobType(job'[i])
    BY <1>1, <2>2, FolderAssumption DEF JobType, RunSteps
  <2>4. JobsTyped'
    BY <2>1, <2>3 DEF TypeInv, JobsTyped
  <2> QED BY <1>1, <1>2, <2>1, <2>2, <2>4 DEF Steps, SameJobs
<1> QED BY <1>3, <1>4, <1>5

LEMMA RevertDoes ==
  ASSUME TypeInv, NEW i \in Calls, Revert(i)
  PROVE  LET j == job[i]  f == job[i].folder IN
         /\ j.step = "revert" /\ ~Locked(f) /\ f \in Folders
         /\ SameRows(f) /\ RowsTyped' /\ row'[f].state = row[f].state /\ row'[f].name = row[f].name
         /\ row'[f].path = Below(RowOf(j.from).path, row[f].name)
         /\ Steps(i, "status") /\ torn' = (torn \/ row[f].parent # j.to)
         /\ UNCHANGED <<key, dirs, mangled, call, crossed, troubles>>
<1> DEFINE j == job[i]
           f == j.folder
<1>1. JobType(j) /\ j.step = "revert" /\ f \in Folders /\ RowType(row[f]) /\ j.runs > 0
  BY DEF TypeInv, JobsTyped, JobType, RunSteps, Revert, RowsTyped
<1>2. /\ DOMAIN row' = Folders /\ \A g \in Folders \ {f} : row'[g] = row[g]
      /\ row'[f] = [[row[f] EXCEPT !.parent = j.from] EXCEPT !.path = Below(RowOf(j.from).path, row[f].name)]
  BY <1>1 DEF Revert, TypeInv, RowsTyped
<1>3. /\ row'[f].state = row[f].state /\ row'[f].parent = j.from /\ row'[f].name = row[f].name
      /\ row'[f].path = Below(RowOf(j.from).path, row[f].name) /\ DOMAIN row'[f] = DOMAIN row[f]
  BY <1>1, <1>2 DEF RowType
<1>4. RowType(row'[f])
  BY <1>1, <1>3 DEF RowType, JobType
<1>5. RowsTyped' /\ SameRows(f)
  BY <1>2, <1>4 DEF TypeInv, RowsTyped, SameRows
<1>6. Steps(i, "status")
  BY <1>1, GotoDoes DEF Revert, RunSteps
<1> QED BY <1>1, <1>3, <1>5, <1>6 DEF Revert

LEMMA RevertStatusDoes ==
  ASSUME TypeInv, NEW i \in Calls, RevertStatus(i)
  PROVE  LET j == job[i]  f == job[i].folder IN
         /\ j.step = "status" /\ f \in Folders
         /\ SameKeys(f) /\ KeysTyped' /\ JobEnds(i)
         /\ UNCHANGED <<row, dirs, mangled, call, torn, crossed, troubles>>
<1> DEFINE j == job[i]
           f == j.folder
<1>1. JobType(j) /\ j.step = "status" /\ f \in Folders
  BY DEF TypeInv, JobsTyped, JobType, RunSteps, RevertStatus
<1>2. /\ DOMAIN key' = Folders /\ \A g \in Folders \ {f} : key'[g] = key[g]
      /\ key'[f] = [status |-> "AVAILABLE", path |-> j.seen]
  BY <1>1 DEF RevertStatus, TypeInv, KeysTyped
<1>3. KeyType(key'[f])
  BY <1>2 DEF KeyType
<1>4. KeysTyped' /\ SameKeys(f)
  BY <1>2, <1>3 DEF TypeInv, KeysTyped, SameKeys
<1> QED BY <1>1, <1>4, JobDoneDoes DEF RevertStatus, history

Moved(i) ==
  Parents(job[i].new) \cup
  {IF d = job[i].old \/ Under(job[i].old, d) THEN Rebased(d, job[i].old, job[i].new) ELSE d : d \in dirs}

LEMMA NasStepDoes ==
  ASSUME TypeInv, NEW i \in Calls, NasStep(i)
  PROVE  LET j == job[i] IN
         /\ j.step = "nas" /\ j.folder \in Folders
         /\ \/ j.action = "mkdir" /\ dirs' = dirs \cup Parents(j.new) \cup {j.new} /\ Steps(i, "save")
            \/ j.action # "mkdir" /\ j.old \in dirs /\ dirs' = Moved(i) /\ Steps(i, "save")
            \/ dirs' = dirs /\ (Steps(i, "waiting") \/ Steps(i, "failed"))
         /\ UNCHANGED <<row, key, mangled, call, torn, crossed, troubles>>
<1> DEFINE j == job[i]
<1>1. JobType(j) /\ j.step = "nas" /\ j.folder \in Folders /\ j.runs > 0 /\ Running(i)
  BY DEF TypeInv, JobsTyped, JobType, RunSteps, NasStep, Running
<1>2. UNCHANGED <<row, key, mangled, call, torn, crossed, troubles>>
  BY DEF NasStep, history
<1>3. Goto(i, "save") => Steps(i, "save")
  BY <1>1, GotoDoes DEF RunSteps
<1>4. Throw(i) => Steps(i, "waiting") \/ Steps(i, "failed")
  BY <1>1, ThrowDoes
<1> QED BY <1>1, <1>2, <1>3, <1>4 DEF NasStep, Moved

LEMMA SaveKeyDoes ==
  ASSUME TypeInv, NEW i \in Calls, SaveKey(i)
  PROVE  LET j == job[i]  f == job[i].folder IN
         /\ j.step = "save" /\ f \in Folders
         /\ SameKeys(f) /\ KeysTyped' /\ key'[f] = [status |-> "AVAILABLE", path |-> j.new]
         /\ \/ j.action \in {"rename", "move"} /\ Steps(i, "keys")
            \/ j.action \notin {"rename", "move"} /\ JobEnds(i)
         /\ UNCHANGED <<row, dirs, mangled, call, torn, crossed, troubles>>
<1> DEFINE j == job[i]
           f == j.folder
<1>1. JobType(j) /\ j.step = "save" /\ f \in Folders /\ j.runs > 0
  BY DEF TypeInv, JobsTyped, JobType, RunSteps, SaveKey
<1>2. /\ DOMAIN key' = Folders /\ \A g \in Folders \ {f} : key'[g] = key[g]
      /\ key'[f] = [status |-> "AVAILABLE", path |-> j.new]
  BY <1>1 DEF SaveKey, TypeInv, KeysTyped
<1>3. KeyType(key'[f])
  BY <1>2 DEF KeyType
<1>4. KeysTyped' /\ SameKeys(f)
  BY <1>2, <1>3 DEF TypeInv, KeysTyped, SameKeys
<1>5. Goto(i, "keys") => Steps(i, "keys")
  BY <1>1, GotoDoes DEF RunSteps
<1>6. JobDone(i) => JobEnds(i)
  BY JobDoneDoes
<1>7. UNCHANGED <<row, dirs, mangled, call, torn, crossed, troubles>>
  BY DEF SaveKey, history
<1>8. \/ j.action \in {"rename", "move"} /\ Steps(i, "keys")
      \/ j.action \notin {"rename", "move"} /\ JobEnds(i)
  BY <1>5, <1>6 DEF SaveKey
<1> QED BY <1>1, <1>2, <1>4, <1>7, <1>8

LEMMA SaveKeysBelowDoes ==
  ASSUME TypeInv, NEW i \in Calls, SaveKeysBelow(i)
  PROVE  LET j == job[i] IN
         /\ j.step = "keys" /\ j.folder \in Folders
         /\ KeysTyped' /\ mangled' \in BOOLEAN /\ (mangled => mangled')
         /\ \A g \in Folders :
              /\ ~Under(j.old, key[g].path) => key'[g] = key[g]
              /\ Under(j.old, key[g].path) /\ ~mangled' =>
                   key'[g] = [status |-> key[g].status, path |-> Rebased(key[g].path, j.old, j.new)]
         /\ JobEnds(i)
         /\ UNCHANGED <<row, dirs, call, torn, crossed, troubles>>
<1> DEFINE j == job[i]
           Path(p) == IF Under(j.old, p) THEN Replace(p, j.old, j.new) ELSE p
<1>1. JobType(j) /\ j.step = "keys" /\ j.folder \in Folders
  BY DEF TypeInv, JobsTyped, JobType, RunSteps, SaveKeysBelow
<1>2. /\ key' = [g \in Folders |-> [key[g] EXCEPT !.path = Path(@)]]
      /\ mangled' = (mangled \/ \E g \in Folders :
                                 Under(j.old, key[g].path)
                                 /\ key'[g].path # Rebased(key[g].path, j.old, j.new))
      /\ UNCHANGED <<row, dirs, call, torn, crossed, troubles>>
  BY DEF SaveKeysBelow, history
<1> HIDE DEF Path
<1>3. ASSUME NEW g \in Folders
      PROVE  key'[g] = [status |-> key[g].status, path |-> Path(key[g].path)] /\ KeyType(key'[g])
  <2>1. KeyType(key[g]) /\ key'[g] = [key[g] EXCEPT !.path = Path(@)]
    BY <1>2 DEF TypeInv, KeysTyped
  <2>2. key'[g] = [status |-> key[g].status, path |-> Path(key[g].path)]
    BY <2>1 DEF KeyType
  <2> QED BY <2>1, <2>2 DEF KeyType
<1>4. KeysTyped'
  BY <1>2, <1>3 DEF KeysTyped
<1>5. ASSUME NEW g \in Folders, ~Under(j.old, key[g].path) PROVE key'[g] = key[g]
  BY <1>3, <1>5 DEF Path, TypeInv, KeysTyped, KeyType
<1>6. mangled' \in BOOLEAN /\ (mangled => mangled')
  BY <1>2, Zenon
<1>7. ASSUME NEW g \in Folders, Under(j.old, key[g].path), ~mangled'
      PROVE  key'[g] = [status |-> key[g].status, path |-> Rebased(key[g].path, j.old, j.new)]
  <2>1. key'[g].path = Rebased(key[g].path, j.old, j.new)
    BY <1>2, <1>7, Zenon
  <2>2. key'[g] = [status |-> key[g].status, path |-> Path(key[g].path)]
    BY <1>3
  <2>3. key'[g].path = Path(key[g].path)
    BY ONLY <2>2
  <2> QED BY <2>1, <2>2, <2>3
<1> QED BY <1>1, <1>2, <1>4, <1>5, <1>6, <1>7, JobDoneDoes DEF SaveKeysBelow

LEMMA KeysNotSavedDoes ==
  ASSUME TypeInv, NEW i \in Calls, KeysNotSaved(i)
  PROVE  /\ job[i].step = "keys" /\ JobEnds(i) /\ crossed' = TRUE /\ troubles' \in 0 .. MaxTroubles
         /\ UNCHANGED <<row, key, dirs, mangled, call, torn>>
BY JobDoneDoes, FolderAssumption DEF KeysNotSaved, Trouble, tree, TypeInv

LEMMA RunFailsDoes ==
  ASSUME TypeInv, NEW i \in Calls, RunFails(i)
  PROVE  /\ job[i].step \in {"nas", "revert", "status", "save"}
         /\ Steps(i, "waiting") \/ Steps(i, "failed")
         /\ troubles' \in 0 .. MaxTroubles
         /\ UNCHANGED <<row, key, dirs, mangled, call, torn, crossed>>
<1>1. Running(i)
  BY DEF RunFails, Running
<1>2. Steps(i, "waiting") \/ Steps(i, "failed")
  BY <1>1, ThrowDoes DEF RunFails
<1> QED BY <1>2, FolderAssumption DEF RunFails, Trouble, tree, history, TypeInv

LEMMA CrashDoes ==
  ASSUME TypeInv, Crash
  PROVE  /\ CallsTyped' /\ \A i \in Calls : call'[i] = IF UnderWay(i) THEN Ended ELSE call[i]
         /\ JobsTyped'
         /\ \A i \in Calls :
              /\ call[i].step = "commit" => Survives(i)
              /\ call[i].step # "commit" /\ ~Running(i) => job'[i] = job[i]
              /\ call[i].step # "commit" /\ Running(i) =>
                   /\ job'[i].step = "waiting" /\ job'[i].action = job[i].action
                   /\ job'[i].folder = job[i].folder /\ job'[i].old = job[i].old
                   /\ job'[i].new = job[i].new /\ job'[i].to = job[i].to
         /\ crossed' = (crossed \/ \E i \in Calls :
              call[i].step \in {"store", "event", "commit"} \/ job[i].step = "keys")
         /\ troubles' \in 0 .. MaxTroubles
         /\ UNCHANGED <<row, key, dirs, mangled, torn>>
<1>1. /\ call' = [i \in Calls |-> IF UnderWay(i) THEN Ended ELSE call[i]]
      /\ job' = [i \in Calls |->
           IF call[i].step = "commit" THEN EventJob(i, row[call[i].folder].path, Target(i))
           ELSE IF Running(i) THEN [job[i] EXCEPT !.step = "waiting", !.runs = @ - 1]
           ELSE job[i]]
      /\ crossed' = (crossed \/ \E i \in Calls :
           call[i].step \in {"store", "event", "commit"} \/ job[i].step = "keys")
      /\ UNCHANGED <<row, key, dirs, mangled, torn>>
  BY DEF Crash, tree
<1>6. troubles' \in 0 .. MaxTroubles
  <2>1. Trouble /\ troubles \in 0 .. MaxTroubles
    BY DEF Crash, TypeInv
  <2> QED BY <2>1, FolderAssumption DEF Trouble
<1>2. CallsTyped' /\ \A i \in Calls : call'[i] = IF UnderWay(i) THEN Ended ELSE call[i]
  BY <1>1, PlainTypes DEF TypeInv, CallsTyped
<1>3. ASSUME NEW i \in Calls, call[i].step # "commit", Running(i)
      PROVE  /\ job'[i].step = "waiting" /\ job'[i].action = job[i].action
             /\ job'[i].folder = job[i].folder /\ job'[i].old = job[i].old
             /\ job'[i].new = job[i].new /\ job'[i].to = job[i].to
             /\ JobType(job'[i])
  <2>1. JobType(job[i]) /\ job[i].step \in RunSteps
    BY <1>3 DEF TypeInv, JobsTyped, Running, RunSteps
  <2>2. job'[i] = [[job[i] EXCEPT !.step = "waiting"] EXCEPT !.runs = @ - 1]
    BY <1>1, <1>3
  <2>3. /\ job'[i].step = "waiting" /\ job'[i].action = job[i].action
        /\ job'[i].folder = job[i].folder /\ job'[i].old = job[i].old /\ job'[i].from = job[i].from
        /\ job'[i].new = job[i].new /\ job'[i].to = job[i].to /\ job'[i].runs = job[i].runs - 1
        /\ DOMAIN job'[i] = DOMAIN job[i]
    BY <2>1, <2>2 DEF JobType
  <2>4. JobType(job'[i])
    BY <2>1, <2>3, FolderAssumption DEF JobType, RunSteps
  <2> QED BY <2>3, <2>4
<1>4. ASSUME NEW i \in Calls, call[i].step # "commit", ~Running(i)
      PROVE  job'[i] = job[i] /\ JobType(job'[i])
  BY <1>1, <1>4 DEF TypeInv, JobsTyped
<1>7. ASSUME NEW i \in Calls, call[i].step = "commit" PROVE Survives(i) /\ JobType(job'[i])
  <2>1. call[i].folder \in Folders
    BY <1>7 DEF TypeInv, CallsTyped, CallType
  <2>2. job'[i] = EventJob(i, row[call[i].folder].path, Target(i))
    BY <1>1, <1>7
  <2> QED BY <2>1, <2>2, EventJobDoes DEF Survives
<1>5. JobsTyped'
  BY <1>1, <1>3, <1>4, <1>7 DEF JobsTyped
<1> QED BY <1>1, <1>2, <1>3, <1>4, <1>5, <1>6, <1>7

-----------------------------------------------------------------------------
\* What stays the same stays typed.
LEMMA SameTypes ==
  ASSUME TypeInv
  PROVE  /\ row' = row => RowsTyped'
         /\ key' = key => KeysTyped'
         /\ call' = call => CallsTyped'
         /\ job' = job => JobsTyped'
         /\ troubles' = troubles => troubles' \in 0 .. MaxTroubles
BY DEF TypeInv, RowsTyped, KeysTyped, CallsTyped, JobsTyped

\* The history flags stay Boolean.
LEMMA FlagTypes ==
  ASSUME TypeInv
  PROVE  /\ torn' = torn => torn' \in BOOLEAN
         /\ \A x \in BOOLEAN : torn' = (torn \/ x) => torn' \in BOOLEAN
         /\ crossed' = crossed => crossed' \in BOOLEAN
         /\ crossed' = TRUE => crossed' \in BOOLEAN
         /\ \A x \in BOOLEAN : crossed' = (crossed \/ x) => crossed' \in BOOLEAN
         /\ mangled' = mangled => mangled' \in BOOLEAN
BY Zenon DEF TypeInv, FlagsTyped

\* Every step keeps the types.
LEMMA TypeStep == TypeInv /\ [Next]_vars => TypeInv'
<1> SUFFICES ASSUME TypeInv, [Next]_vars PROVE TypeInv'
  OBVIOUS
<1> USE SameTypes
<1>1. ASSUME RowsTyped', KeysTyped', CallsTyped', JobsTyped', torn' \in BOOLEAN, crossed' \in BOOLEAN,
             mangled' \in BOOLEAN, troubles' \in 0 .. MaxTroubles
      PROVE  TypeInv'
  BY <1>1, Zenon DEF TypeInv, FlagsTyped
<1>2. ASSUME NEW i \in Calls, Command(i) PROVE TypeInv'
  <2>1. CallsTyped' /\ UNCHANGED <<row, key, dirs, mangled, job, torn, crossed, troubles>>
    BY <1>2, CommandDoes DEF Starts
  <2> QED BY <1>1, <2>1, FlagTypes
<1>3. ASSUME NEW i \in Calls, LockMove(i) PROVE TypeInv'
  <2>1. CallsTyped' /\ UNCHANGED <<row, key, dirs, mangled, job, torn, crossed, troubles>>
    BY <1>3, LockMoveDoes DEF Ends
  <2> QED BY <1>1, <2>1, FlagTypes
<1>4. ASSUME NEW i \in Calls, CreateRow(i) PROVE TypeInv'
  <2>1. torn' \in BOOLEAN
    BY <1>4, FlagTypes, Zenon DEF CreateRow
  <2> QED BY <1>1, <1>4, <2>1, CreateRowDoes, FlagTypes
<1>5. ASSUME NEW i \in Calls, CreateKey(i) PROVE TypeInv'
  <2>1. torn' \in BOOLEAN
    BY <1>5, FlagTypes, Zenon DEF CreateKey
  <2> QED BY <1>1, <1>5, <2>1, CreateKeyDoes, FlagTypes
<1>6. ASSUME NEW i \in Calls, CreateEvent(i) PROVE TypeInv'
  <2>1. torn' \in BOOLEAN /\ crossed' \in BOOLEAN
    BY <1>6, FlagTypes, Zenon DEF CreateEvent, Event
  <2> QED BY <1>1, <1>6, <2>1, CreateEventDoes, FlagTypes DEF Registers, Ends
<1>7. ASSUME NEW i \in Calls, Commit(i) PROVE TypeInv'
  <2>1. crossed' \in BOOLEAN
    BY <1>7, FlagTypes, Zenon DEF Commit, Event
  <2> QED BY <1>1, <1>7, <2>1, CommitDoes DEF Registers, Ends
<1>8. ASSUME NEW i \in Calls, CommitTrash(i) PROVE TypeInv'
  <2>1. torn' \in BOOLEAN /\ crossed' \in BOOLEAN
    BY <1>8, FlagTypes, Zenon DEF CommitTrash, Event
  <2> QED BY <1>1, <1>8, <2>1, CommitTrashDoes, FlagTypes DEF Registers, Ends
<1>12. ASSUME NEW i \in Calls, Update(i) PROVE TypeInv'
  <2>1. crossed' \in BOOLEAN
    BY <1>12, FlagTypes, Zenon DEF Update
  <2> QED BY <1>1, <1>12, <2>1, UpdateDoes, FlagTypes
<1>13. ASSUME NEW i \in Calls, CommandFails(i) PROVE TypeInv'
  BY <1>1, <1>13, CommandFailsDoes, FlagTypes DEF Ends
<1>9. ASSUME NEW i \in Calls, Worker(i) PROVE TypeInv'
  <2>1. CASE Run(i)
    BY <1>1, <2>1, RunDoes, FlagTypes DEF Steps, JobEnds
  <2>2. CASE Revert(i)
    <3>1. torn' \in BOOLEAN
      BY <2>2, FlagTypes, Zenon DEF Revert
    <3> QED BY <1>1, <2>2, <3>1, RevertDoes, FlagTypes DEF Steps
  <2>3. CASE RevertStatus(i)
    BY <1>1, <2>3, RevertStatusDoes, FlagTypes DEF JobEnds
  <2>4. CASE NasStep(i)
    BY <1>1, <2>4, NasStepDoes, FlagTypes DEF Steps
  <2>5. CASE SaveKey(i)
    BY <1>1, <2>5, SaveKeyDoes, FlagTypes DEF Steps, JobEnds
  <2>6. CASE SaveKeysBelow(i)
    BY <1>1, <2>6, SaveKeysBelowDoes, FlagTypes DEF JobEnds
  <2>7. CASE KeysNotSaved(i)
    BY <1>1, <2>7, KeysNotSavedDoes, FlagTypes DEF JobEnds
  <2>8. CASE RunFails(i)
    BY <1>1, <2>8, RunFailsDoes, FlagTypes DEF Steps
  <2> QED BY <1>9, <2>1, <2>2, <2>3, <2>4, <2>5, <2>6, <2>7, <2>8 DEF Worker
<1>10. CASE Crash
  <2>1. crossed' \in BOOLEAN
    BY <1>10, FlagTypes, Zenon DEF Crash
  <2> QED BY <1>1, <1>10, <2>1, CrashDoes, FlagTypes
<1>11. CASE UNCHANGED vars
  <2>1. UNCHANGED <<row, key, dirs, call, job, torn, crossed, mangled, troubles>>
    BY <1>11 DEF vars
  <2> QED BY <1>1, <2>1, FlagTypes
<1> QED
  BY <1>2, <1>3, <1>4, <1>5, <1>6, <1>7, <1>8, <1>9, <1>10, <1>11, <1>12, <1>13 DEF Next

-----------------------------------------------------------------------------
(* What is known of commands and jobs under way.                           *)
RowIn(rows, f) == IF f = Root THEN RootRow ELSE rows[f]

\* Rows that are given as a parameter, so that the rows before and after a step can be
\* compared.
LEMMA RowInFacts ==
  ASSUME NEW rows
  PROVE  /\ RowIn(rows, Root).state = "ACTIVE" /\ RowIn(rows, Root).path = <<>>
         /\ \A f \in Folders : RowIn(rows, f) = rows[f]
BY FolderAssumption DEF RowIn, RootRow, NoRow

\* RowOf and Active are about the rows of now.
LEMMA ActiveRow ==
  /\ \A f : RowOf(f) = RowIn(row, f) /\ RowOf(f)' = RowIn(row', f)
  /\ \A f : Active(f) <=> RowIn(row, f).state = "ACTIVE"
BY DEF RowOf, RowIn, Active

\* Names have no slash, in the rows and in the commands.
NamesKnown ==
  /\ \A f \in Folders : row[f].state # "none" => IsName(row[f].name)
  /\ \A i \in Calls : call[i].step \in {"make", "update", "commit"} => IsName(call[i].name)

\* A folder that is to be created has no row, and one call creates it.
Unmade ==
  \A i \in Calls : call[i].step = "make" =>
    /\ row[call[i].folder].state = "none"
    /\ \A j \in Calls \ {i} : call[j].step = "make" => call[j].folder # call[i].folder

\* The target of a move has a row, and the job turns back when it was deleted.
TargetsExist ==
  \A i \in Calls :
    /\ UnderWay(i) /\ call[i].action = "move" => RowIn(row, call[i].to).state # "none"
    /\ Unfinished(i) /\ job[i].action = "move" => RowIn(row, job[i].to).state # "none"
    /\ job[i].step = "revert" => job[i].action = "move" /\ RowIn(row, job[i].to).state # "ACTIVE"

\* What a transaction has checked under its lock.
ActionsFit ==
  \A i \in Calls : /\ call[i].step = "lock" => call[i].action = "move"
                   /\ call[i].step = "make" => call[i].action = "mkdir"

Writing(i) == call[i].step \in {"update", "commit"}

LockHeld ==
  \A i \in Calls : Writing(i) =>
    LET c == call[i] IN
    /\ row[c.folder].state = "ACTIVE" /\ c.action \in {"rename", "move", "trash"}
    /\ \A j \in Calls \ {i} : Writing(j) => call[j].folder # c.folder
    /\ \A j \in Calls \ {i} : call[j].step = "commit" => c.folder \notin call[j].hit
    /\ c.action = "rename" => c.to = row[c.folder].parent
    /\ c.action = "move" => c.to # c.folder /\ ~Under(row[c.folder].path, c.seen.path)

Known == NamesKnown /\ Unmade /\ TargetsExist /\ ActionsFit /\ LockHeld

LEMMA InitKnown == Init => Known
<1> SUFFICES ASSUME Init PROVE Known
  OBVIOUS
<1>1. \A i \in Calls : call[i].step = "idle" /\ job[i].step = "none"
  BY PlainTypes DEF Init
<1>2. ASSUME NEW f \in Folders, row[f].state # "none" PROVE IsName(row[f].name)
  <2>1. Home[f] # NoKey
    BY <1>2 DEF Init, NoRow
  <2>2. row[f].name = Home[f].name
    BY <2>1 DEF Init
  <2> QED BY <2>1, <2>2, TreeAssumption
<1> QED
  BY <1>1, <1>2 DEF Known, NamesKnown, Unmade, TargetsExist, ActionsFit, LockHeld, Writing, UnderWay,
     Unfinished

-----------------------------------------------------------------------------
(* Who writes what.                                                        *)

\* Four actions write rows.
LEMMA RowWriters ==
  ASSUME TypeInv, [Next]_vars
  PROVE  row' = row \/ \E i \in Calls : CreateRow(i) \/ Commit(i) \/ CommitTrash(i) \/ Revert(i)
<1>1. ASSUME NEW i \in Calls, Command(i) PROVE row' = row
  BY <1>1, CommandDoes DEF Starts
<1>2. ASSUME NEW i \in Calls,
             LockMove(i) \/ CreateKey(i) \/ CreateEvent(i) \/ Update(i) \/ CommandFails(i)
      PROVE row' = row
  BY <1>2, LockMoveDoes, CreateKeyDoes, CreateEventDoes, UpdateDoes, CommandFailsDoes
<1>3. ASSUME NEW i \in Calls, Worker(i) PROVE row' = row \/ Revert(i)
  BY <1>3, RunDoes, RevertStatusDoes, NasStepDoes, SaveKeyDoes, SaveKeysBelowDoes, KeysNotSavedDoes,
     RunFailsDoes DEF Worker
<1>4. Crash => row' = row
  BY CrashDoes
<1>5. CASE UNCHANGED vars
  BY <1>5 DEF vars
<1> QED BY <1>1, <1>2, <1>3, <1>4, <1>5 DEF Next

\* A call stays, ends, begins or takes a step.
LEMMA CallWriters ==
  ASSUME TypeInv, [Next]_vars, NEW j \in Calls
  PROVE  \/ call'[j] = call[j] \/ call'[j] = Ended
         \/ Command(j) \/ CreateRow(j) \/ CreateKey(j) \/ (LockMove(j) /\ call'[j].step = "update")
         \/ Update(j)
<1>1. ASSUME NEW i \in Calls, Command(i) PROVE i = j \/ call'[j] = call[j]
  BY <1>1, CommandDoes DEF Starts, SameCalls
<1>2. ASSUME NEW i \in Calls, LockMove(i)
      PROVE  call'[j] = call[j] \/ call'[j] = Ended \/ (i = j /\ call'[j].step = "update")
  BY <1>2, LockMoveDoes DEF Ends, SameCalls
<1>3. ASSUME NEW i \in Calls, CreateRow(i) \/ CreateKey(i) \/ Update(i)
      PROVE i = j \/ call'[j] = call[j]
  BY <1>3, CreateRowDoes, CreateKeyDoes, UpdateDoes DEF SameCalls
<1>4. ASSUME NEW i \in Calls, CreateEvent(i) \/ Commit(i) \/ CommitTrash(i) \/ CommandFails(i)
      PROVE  call'[j] = call[j] \/ call'[j] = Ended
  BY <1>4, CreateEventDoes, CommitDoes, CommitTrashDoes, CommandFailsDoes DEF Ends, SameCalls
<1>5. ASSUME NEW i \in Calls, Worker(i) PROVE call' = call
  BY <1>5, RunDoes, RevertDoes, RevertStatusDoes, NasStepDoes, SaveKeyDoes, SaveKeysBelowDoes,
     KeysNotSavedDoes, RunFailsDoes DEF Worker
<1>6. Crash => call'[j] = call[j] \/ call'[j] = Ended
  BY CrashDoes
<1>7. CASE UNCHANGED vars
  BY <1>7 DEF vars
<1> QED BY <1>1, <1>2, <1>3, <1>4, <1>5, <1>6, <1>7 DEF Next

\* A job that goes on with what it is about.
Proceeds(j) ==
  /\ Unfinished(j) /\ job'[j].action = job[j].action /\ job'[j].folder = job[j].folder
  /\ job'[j].old = job[j].old /\ job'[j].new = job[j].new /\ job'[j].to = job[j].to
  /\ job'[j].step = "revert" => job[j].action = "move" /\ ~Active(job[j].to)
  /\ job'[j].step = "keys" => job[j].action \in {"rename", "move"}

\* The transaction of call j is rolled back and its event stays.
LeftBehind(j) == call[j].step = "commit" /\ Survives(j) /\ call'[j] = Ended /\ crossed' /\ row' = row

\* A job stays, ends, proceeds, is registered or is left behind.
LEMMA JobWriters ==
  ASSUME TypeInv, [Next]_vars, NEW j \in Calls
  PROVE  \/ job'[j] = job[j] \/ (job'[j] = Done /\ Unfinished(j)) \/ Proceeds(j)
         \/ CreateEvent(j) \/ Commit(j) \/ CommitTrash(j) \/ LeftBehind(j)
<1> USE DEF SameJobs
<1>1. ASSUME NEW i \in Calls, Command(i) PROVE job' = job
  BY <1>1, CommandDoes DEF Starts
<1>2. ASSUME NEW i \in Calls, LockMove(i) \/ CreateRow(i) \/ CreateKey(i) \/ Update(i) PROVE job' = job
  BY <1>2, LockMoveDoes, CreateRowDoes, CreateKeyDoes, UpdateDoes
<1>3. ASSUME NEW i \in Calls, CreateEvent(i) \/ Commit(i) \/ CommitTrash(i) PROVE i = j \/ job'[j] = job[j]
  <2>1. CASE CreateEvent(i)
    BY <2>1, CreateEventDoes DEF Registers
  <2>2. CASE Commit(i)
    <3>1. Registers(i, call[i].folder, row[call[i].folder].path, Target(i))
      BY <2>2, CommitDoes
    <3> QED BY <3>1 DEF Registers
  <2>3. CASE CommitTrash(i)
    <3>1. Registers(i, call[i].folder, row[call[i].folder].path, Target(i))
      BY <2>3, CommitTrashDoes
    <3> QED BY <3>1 DEF Registers
  <2> QED BY <1>3, <2>1, <2>2, <2>3
<1>4. ASSUME NEW i \in Calls, JobEnds(i), Unfinished(i) PROVE job'[j] = job[j] \/ (job'[j] = Done /\ Unfinished(j))
  BY <1>4 DEF JobEnds
<1>5. ASSUME NEW i \in Calls, NEW step, Steps(i, step), Unfinished(i),
             step = "revert" => job[i].action = "move" /\ ~Active(job[i].to),
             step = "keys" => job[i].action \in {"rename", "move"}
      PROVE  job'[j] = job[j] \/ Proceeds(j)
  BY <1>5 DEF Steps, Proceeds
<1>6. ASSUME NEW i \in Calls, Worker(i) PROVE job'[j] = job[j] \/ (job'[j] = Done /\ Unfinished(j)) \/ Proceeds(j)
  <2>1. CASE Run(i)
    BY <1>4, <1>5, <2>1, RunDoes DEF Unfinished
  <2>2. CASE Revert(i) \/ RevertStatus(i)
    BY <1>4, <1>5, <2>2, RevertDoes, RevertStatusDoes DEF Unfinished
  <2>3. CASE NasStep(i)
    BY <1>5, <2>3, NasStepDoes DEF Unfinished
  <2>4. CASE SaveKey(i) \/ SaveKeysBelow(i) \/ KeysNotSaved(i)
    BY <1>4, <1>5, <2>4, SaveKeyDoes, SaveKeysBelowDoes, KeysNotSavedDoes DEF Unfinished
  <2>5. CASE RunFails(i)
    BY <1>5, <2>5, RunFailsDoes DEF Unfinished
  <2> QED BY <1>6, <2>1, <2>2, <2>3, <2>4, <2>5 DEF Worker
<1>7. CASE Crash
  <2>1. CASE call[j].step = "commit"
    <3>1. Survives(j) /\ row' = row /\ UnderWay(j) /\ call'[j] = (IF UnderWay(j) THEN Ended ELSE call[j])
      BY <1>7, <2>1, CrashDoes DEF UnderWay
    <3>2. crossed'
      BY <1>7, <2>1, CrashDoes, Zenon
    <3> QED BY <2>1, <3>1, <3>2 DEF LeftBehind
  <2>2. CASE call[j].step # "commit"
    BY <1>7, <2>2, CrashDoes DEF Proceeds, Unfinished, Running
  <2> QED BY <2>1, <2>2
<1>9. ASSUME NEW i \in Calls, CommandFails(i) PROVE job'[j] = job[j] \/ LeftBehind(j)
  <2>1. CASE i = j /\ call[j].step = "commit"
    <3>1. Survives(j) /\ row' = row /\ call'[j] = Ended
      BY <1>9, <2>1, CommandFailsDoes DEF Ends
    <3>2. crossed'
      BY <1>9, <2>1, CommandFailsDoes, Zenon
    <3> QED BY <2>1, <3>1, <3>2 DEF LeftBehind
  <2>2. CASE ~(i = j /\ call[j].step = "commit")
    BY <1>9, <2>2, CommandFailsDoes
  <2> QED BY <2>1, <2>2
<1>8. CASE UNCHANGED vars
  BY <1>8 DEF vars
<1> QED BY <1>1, <1>2, <1>3, <1>6, <1>7, <1>8, <1>9 DEF Next

-----------------------------------------------------------------------------
(* Rows neither vanish nor come back.                                      *)

\* A folder that has a row keeps it, and one in the trash stays there.
LEMMA RowsLive ==
  ASSUME TypeInv, Known, [Next]_vars, NEW f \in Ids
  PROVE  /\ RowIn(row, f).state # "none" => RowIn(row', f).state # "none"
         /\ RowIn(row, f).state = "TRASHED" => RowIn(row', f).state = "TRASHED"
<1>1. CASE f = Root
  BY <1>1 DEF RowIn
<1>2. CASE f # Root
  <2>1. f \in Folders /\ RowIn(row, f) = row[f] /\ RowIn(row', f) = row'[f]
    BY <1>2, RowInFacts DEF Ids
  <2>2. ASSUME NEW i \in Calls, CreateRow(i) PROVE (f = call[i].folder /\ row[f].state = "none") \/ row'[f] = row[f]
    BY <2>1, <2>2, CreateRowDoes DEF Known, Unmade, SameRows
  <2>3. ASSUME NEW i \in Calls, Commit(i) PROVE row'[f].state = row[f].state
    BY <2>1, <2>3, CommitDoes
  <2>4. ASSUME NEW i \in Calls, CommitTrash(i) PROVE row'[f] = row[f] \/ row'[f].state = "TRASHED"
    BY <2>1, <2>4, CommitTrashDoes DEF SameRows
  <2>5. ASSUME NEW i \in Calls, Revert(i) PROVE row'[f].state = row[f].state
    BY <2>1, <2>5, RevertDoes DEF SameRows
  <2> QED BY <2>1, <2>2, <2>3, <2>4, <2>5, RowWriters
<1> QED BY <1>1, <1>2

\* Every step keeps each part of Known.
LEMMA NamesKept ==
  ASSUME TypeInv, Known, [Next]_vars
  PROVE  NamesKnown'
<1>1. ASSUME NEW f \in Folders, row'[f].state # "none" PROVE IsName(row'[f].name)
  <2>1. ASSUME NEW i \in Calls, CreateRow(i) PROVE IsName(row'[f].name)
    BY <1>1, <2>1, CreateRowDoes DEF Known, NamesKnown, SameRows
  <2>2. ASSUME NEW i \in Calls, Commit(i) PROVE IsName(row'[f].name)
    <3>1. /\ call[i].step = "commit" /\ row'[f].state = row[f].state
          /\ row'[f].name = call[i].name \/ row'[f].name = row[f].name
      BY <2>2, CommitDoes
    <3> QED BY <1>1, <3>1 DEF Known, NamesKnown
  <2>3. ASSUME NEW i \in Calls, CommitTrash(i) PROVE IsName(row'[f].name)
    <3>1. row[f].state # "none" /\ row'[f].name = row[f].name
      BY <1>1, <2>3, CommitTrashDoes DEF Known, LockHeld, Writing, SameRows
    <3> QED BY <3>1 DEF Known, NamesKnown
  <2>4. ASSUME NEW i \in Calls, Revert(i) PROVE IsName(row'[f].name)
    BY <1>1, <2>4, RevertDoes DEF Known, NamesKnown, SameRows
  <2> QED BY <1>1, <2>1, <2>2, <2>3, <2>4, RowWriters DEF Known, NamesKnown
<1>2. ASSUME NEW j \in Calls, call'[j].step \in {"make", "update", "commit"} PROVE IsName(call'[j].name)
  <2>1. CASE Command(j)
    <3>1. PICK f \in Folders, to \in Ids : \E name :
           \/ Starts(j, "lock", "move", f, to, <<>>)
           \/ Starts(j, "make", "mkdir", f, to, name) /\ name \in NewNames
           \/ Starts(j, "update", "rename", f, to, name) /\ name \in NewNames
           \/ Starts(j, "update", "trash", f, to, name) /\ name = row[f].name /\ Active(f)
      BY <2>1, CommandDoes
    <3>2. Active(f) => IsName(row[f].name)
      BY ActiveRow, RowInFacts DEF Known, NamesKnown
    <3> QED BY <1>2, <3>1, <3>2, TreeAssumption DEF Starts
  <2>2. CASE LockMove(j)
    <3>1. call'[j] = Ended \/ (call'[j].name = row[call[j].folder].name /\ Active(call[j].folder))
      BY <2>2, LockMoveDoes DEF Ends
    <3>2. call[j].step = "lock" /\ CallType(call[j])
      BY <2>2, LockMoveDoes DEF TypeInv, CallsTyped
    <3>3. call[j].folder \in Folders
      BY <3>2 DEF CallType
    <3> QED BY <1>2, <3>1, <3>3, ActiveRow, RowInFacts, PlainTypes DEF Known, NamesKnown
  <2>3. CASE Update(j)
    BY <2>3, UpdateDoes DEF Known, NamesKnown
  <2> QED
    BY <1>2, <2>1, <2>2, <2>3, CallWriters, CreateRowDoes, CreateKeyDoes, PlainTypes
    DEF Known, NamesKnown
<1> QED BY <1>1, <1>2 DEF NamesKnown

LEMMA UnmadeKept ==
  ASSUME TypeInv, Known, [Next]_vars
  PROVE  Unmade'
<1>1. ASSUME NEW j \in Calls, call'[j].step = "make"
      PROVE  \/ call'[j] = call[j]
             \/ /\ row[call'[j].folder].state = "none" /\ row' = row
                /\ \A k \in Calls : call[k].folder # call'[j].folder
                /\ \A k \in Calls \ {j} : call'[k] = call[k]
  <2>1. CASE Command(j)
    BY <1>1, <2>1, CommandDoes DEF Starts, SameCalls
  <2> QED BY <1>1, <2>1, CallWriters, LockMoveDoes, CreateRowDoes, CreateKeyDoes, UpdateDoes, PlainTypes
<1>2. ASSUME NEW j \in Calls, call[j].step = "make", call'[j] = call[j]
      PROVE  row'[call[j].folder].state = "none"
  <2> DEFINE f == call[j].folder
  <2>1. f \in Folders /\ row[f].state = "none"
    BY <1>2 DEF TypeInv, CallsTyped, CallType, Known, Unmade
  <2>2. ASSUME NEW i \in Calls, CreateRow(i) PROVE row'[f] = row[f]
    <3>1. i # j /\ call[i].step = "make"
      BY <1>2, <2>2, CreateRowDoes
    <3> QED BY <1>2, <2>1, <2>2, <3>1, CreateRowDoes DEF Known, Unmade, SameRows
  <2>3. ASSUME NEW i \in Calls, Commit(i) PROVE row'[f].state = row[f].state
    BY <2>1, <2>3, CommitDoes
  <2>4. ASSUME NEW i \in Calls, CommitTrash(i) PROVE row'[f] = row[f]
    BY <2>1, <2>4, CommitTrashDoes DEF Known, LockHeld, Writing, SameRows
  <2>5. ASSUME NEW i \in Calls, Revert(i) PROVE row'[f].state = row[f].state
    BY <2>1, <2>5, RevertDoes DEF SameRows
  <2> QED BY <2>1, <2>2, <2>3, <2>4, <2>5, RowWriters
<1>3. ASSUME NEW j \in Calls, call'[j].step = "make" PROVE row'[call'[j].folder].state = "none"
  BY <1>1, <1>2, <1>3
<1>4. ASSUME NEW i \in Calls, NEW j \in Calls \ {i}, call'[i].step = "make", call'[j].step = "make"
      PROVE  call'[j].folder # call'[i].folder
  <2>1. CASE call'[i] = call[i] /\ call'[j] = call[j]
    BY <1>4, <2>1 DEF Known, Unmade
  <2>2. CASE call'[i] # call[i]
    BY <1>1, <1>4, <2>2
  <2>3. CASE call'[j] # call[j]
    BY <1>1, <1>4, <2>3
  <2> QED BY <2>1, <2>2, <2>3
<1> QED BY <1>3, <1>4 DEF Unmade

LEMMA TargetsKept ==
  ASSUME TypeInv, Known, [Next]_vars
  PROVE  TargetsExist'
<1>1. ASSUME NEW j \in Calls, UnderWay(j)', call'[j].action = "move"
      PROVE  RowIn(row', call'[j].to).state # "none"
  <2>1. call[j].to \in Ids
    BY DEF TypeInv, CallsTyped, CallType
  <2>2. CASE Command(j)
    <3>1. PICK f \in Folders, to \in Ids : Starts(j, "lock", "move", f, to, <<>>) /\ Active(to)
      BY <1>1, <2>2, CommandDoes DEF Starts
    <3>2. call'[j].to = to /\ RowIn(row', to) = RowIn(row, to)
      BY <3>1 DEF Starts
    <3> QED BY <3>1, <3>2, ActiveRow
  <2>3. CASE call'[j].to = call[j].to /\ UnderWay(j) /\ call[j].action = "move"
    BY <2>1, <2>3, RowsLive DEF Known, TargetsExist
  <2>4. CASE LockMove(j) /\ call'[j].step = "update"
    BY <1>1, <2>3, <2>4, LockMoveDoes, PlainTypes DEF UnderWay, Ends
  <2>5. CASE CreateRow(j) \/ CreateKey(j) \/ Update(j)
    BY <1>1, <2>3, <2>5, CreateRowDoes, CreateKeyDoes, UpdateDoes DEF UnderWay
  <2>6. CASE call'[j] = call[j] \/ call'[j] = Ended
    BY <1>1, <2>3, <2>6, PlainTypes DEF UnderWay
  <2> QED BY <2>2, <2>4, <2>5, <2>6, CallWriters
<1>2. ASSUME NEW j \in Calls
      PROVE  /\ Unfinished(j)' /\ job'[j].action = "move" => RowIn(row', job'[j].to).state # "none"
             /\ job'[j].step = "revert" =>
                  job'[j].action = "move" /\ RowIn(row', job'[j].to).state # "ACTIVE"
  <2>1. job[j].to \in Ids /\ call[j].to \in Ids /\ RowType(RowIn(row, job[j].to))
    BY ActiveRow, RowOfType DEF TypeInv, JobsTyped, JobType, CallsTyped, CallType
  <2>2. CASE job'[j] = job[j] \/ Proceeds(j)
    <3>1. job'[j].to = job[j].to /\ job'[j].action = job[j].action
      BY <2>2 DEF Proceeds
    <3>2. job'[j].step = "revert" =>
            job[j].action = "move" /\ RowIn(row, job[j].to).state # "ACTIVE" /\ Unfinished(j)
      BY <2>2, ActiveRow DEF Proceeds, Known, TargetsExist, Unfinished
    <3>3. Unfinished(j)' => Unfinished(j)
      BY <2>2 DEF Proceeds, Unfinished
    <3>4. Unfinished(j) /\ job[j].action = "move" => RowIn(row, job[j].to).state # "none"
      BY DEF Known, TargetsExist
    <3> HIDE DEF Unfinished
    <3> QED BY <2>1, <3>1, <3>2, <3>3, <3>4, RowsLive DEF RowType
  <2>3. CASE job'[j] = Done
    BY <2>3, PlainTypes DEF Unfinished
  <2>4. ASSUME NEW f, NEW old, NEW new, HasJob(j, f, old, new), UnderWay(j)
        PROVE  /\ job'[j].action = "move" => RowIn(row', job'[j].to).state # "none"
               /\ job'[j].step # "revert"
    BY <2>1, <2>4, RowsLive DEF HasJob, Known, TargetsExist
  <2>5. CASE CreateEvent(j)
    BY <2>4, <2>5, CreateEventDoes DEF UnderWay, Registers
  <2>6. CASE Commit(j)
    <3>1. Registers(j, call[j].folder, row[call[j].folder].path, Target(j)) /\ call[j].step = "commit"
      BY <2>6, CommitDoes
    <3> QED BY <2>4, <3>1 DEF UnderWay, Registers
  <2>7. CASE CommitTrash(j)
    <3>1. Registers(j, call[j].folder, row[call[j].folder].path, Target(j)) /\ call[j].step = "commit"
      BY <2>7, CommitTrashDoes
    <3> QED BY <2>4, <3>1 DEF UnderWay, Registers
  <2>8. CASE LeftBehind(j)
    BY <2>4, <2>8 DEF UnderWay, LeftBehind, Survives
  <2> QED BY <2>2, <2>3, <2>5, <2>6, <2>7, <2>8, JobWriters
<1> QED BY <1>1, <1>2 DEF TargetsExist

\* A transaction that goes on holds the row it has locked.
LEMMA LockedRow ==
  ASSUME TypeInv, Known, [Next]_vars, NEW j \in Calls, Writing(j), call'[j] = call[j]
  PROVE  LET f == call[j].folder IN
         row'[f].state = row[f].state /\ row'[f].parent = row[f].parent /\ row'[f].path = row[f].path
<1> DEFINE f == call[j].folder
<1>1. f \in Folders /\ row[f].state = "ACTIVE"
  BY DEF TypeInv, CallsTyped, CallType, Known, LockHeld, Writing
<1>2. Locked(f)
  BY DEF Locked, Writing
<1>3. ASSUME NEW i \in Calls, CreateRow(i) PROVE row'[f] = row[f]
  BY <1>1, <1>3, CreateRowDoes DEF Known, Unmade, SameRows
<1>4. ASSUME NEW i \in Calls, call[i].step = "commit", call'[i] = Ended
      PROVE  call[i].folder # f /\ f \notin call[i].hit
  <2>1. i # j
    BY <1>4, PlainTypes DEF Writing
  <2> QED BY <1>4, <2>1 DEF Known, LockHeld, Writing
<1>5. ASSUME NEW i \in Calls, Commit(i) PROVE row'[f] = row[f]
  <2>1. call[i].step = "commit" /\ call'[i] = Ended
    BY <1>5, CommitDoes DEF Ends
  <2>2. f # call[i].folder /\ f \notin call[i].hit
    BY <1>4, <2>1
  <2> QED BY <1>1, <1>5, <2>2, CommitDoes
<1>6. ASSUME NEW i \in Calls, CommitTrash(i) PROVE row'[f] = row[f]
  BY <1>1, <1>4, <1>6, CommitTrashDoes DEF Ends, SameRows
<1>7. ASSUME NEW i \in Calls, Revert(i) PROVE row'[f] = row[f]
  BY <1>1, <1>2, <1>7, RevertDoes DEF SameRows
<1> QED BY <1>3, <1>5, <1>6, <1>7, RowWriters

LEMMA LockKept ==
  ASSUME TypeInv, Known, [Next]_vars
  PROVE  LockHeld'
<1> DEFINE Takes(j) ==
      LET c == call'[j] IN
      /\ c.step = "update"
      /\ row' = row /\ c.folder \in Folders /\ row[c.folder].state = "ACTIVE"
      /\ c.action \in {"rename", "move", "trash"} /\ ~Locked(c.folder)
      /\ \A k \in Calls \ {j} : call'[k] = call[k]
      /\ c.action = "rename" => c.to = row[c.folder].parent
      /\ c.action = "move" => c.to # c.folder /\ ~Under(row[c.folder].path, c.seen.path)
           Hits(j) ==
      LET c == call'[j] IN
      /\ row' = row /\ call[j].step = "update" /\ c.step = "commit"
      /\ c.folder = call[j].folder /\ c.action = call[j].action /\ c.to = call[j].to
      /\ c.seen = call[j].seen /\ \A g \in c.hit : ~Locked(g)
      /\ \A k \in Calls \ {j} : call'[k] = call[k]
           Writes(j) == call'[j].step \in {"update", "commit"}
<1>1. \A f \in Folders : Active(f) <=> row[f].state = "ACTIVE"
  BY ActiveRow, RowInFacts
<1>2. ASSUME NEW j \in Calls, Writes(j) PROVE call'[j] = call[j] \/ Takes(j) \/ Hits(j)
  <2>1. CASE Command(j)
    <3>1. PICK f \in Folders, to \in Ids : \E name :
           \/ Starts(j, "lock", "move", f, to, <<>>)
           \/ Starts(j, "make", "mkdir", f, to, name)
           \/ Starts(j, "update", "rename", f, to, name) /\ Active(f) /\ ~Locked(f) /\ to = row[f].parent
           \/ Starts(j, "update", "trash", f, to, name) /\ Active(f) /\ ~Locked(f)
      BY <2>1, CommandDoes
    <3> QED BY <1>1, <1>2, <3>1 DEF Starts, SameCalls
  <2>2. CASE LockMove(j)
    <3>1. CallType(call[j]) /\ call[j].step = "lock"
      BY <2>2, LockMoveDoes DEF TypeInv, CallsTyped
    <3>2. call[j].folder \in Folders
      BY <3>1 DEF CallType
    <3>3. call[j].action = "move"
      BY <3>1 DEF Known, ActionsFit
    <3> QED BY <1>1, <1>2, <2>2, <3>2, <3>3, LockMoveDoes, PlainTypes DEF Ends, SameCalls
  <2>3. CASE Update(j)
    BY <2>3, UpdateDoes DEF SameCalls
  <2> QED BY <1>2, <2>1, <2>2, <2>3, CallWriters, CreateRowDoes, CreateKeyDoes, PlainTypes
<1>3. ASSUME NEW j \in Calls, Writes(j)
      PROVE  LET c == call'[j] IN
             /\ row'[c.folder].state = "ACTIVE" /\ c.action \in {"rename", "move", "trash"}
             /\ c.action = "rename" => c.to = row'[c.folder].parent
             /\ c.action = "move" => c.to # c.folder /\ ~Under(row'[c.folder].path, c.seen.path)
  <2>1. CASE call'[j] = call[j]
    BY <1>3, <2>1, LockedRow DEF Known, LockHeld, Writing
  <2>2. CASE Hits(j)
    BY <2>2 DEF Known, LockHeld, Writing
  <2> QED BY <1>2, <1>3, <2>1, <2>2
<1>4. ASSUME NEW i \in Calls, NEW j \in Calls \ {i}, Writes(i), Writes(j)
      PROVE  call'[j].folder # call'[i].folder
  <2>1. CASE Takes(i)
    BY <1>4, <2>1 DEF Locked
  <2>2. CASE Takes(j)
    BY <1>4, <2>2 DEF Locked
  <2>3. CASE ~Takes(i) /\ ~Takes(j)
    <3>1. Writing(i) /\ Writing(j) /\ call'[i].folder = call[i].folder /\ call'[j].folder = call[j].folder
      BY <1>2, <1>4, <2>3 DEF Writing
    <3> QED BY <3>1 DEF Known, LockHeld
  <2> QED BY <2>1, <2>2, <2>3
<1>5. ASSUME NEW i \in Calls, NEW j \in Calls \ {i}, Writes(i), call'[j].step = "commit"
      PROVE  call'[i].folder \notin call'[j].hit
  <2>1. Writes(j)
    BY <1>5
  <2>2. CASE Takes(i)
    BY <1>5, <2>2 DEF Locked
  <2>3. CASE Hits(j) /\ ~Takes(i)
    <3>1. Writing(i) /\ call'[i].folder = call[i].folder
      BY <1>2, <1>5, <2>3 DEF Writing
    <3>2. Locked(call[i].folder)
      BY <3>1 DEF Locked, Writing
    <3> QED BY <2>3, <3>1, <3>2
  <2>4. CASE call'[j] = call[j] /\ ~Takes(i)
    <3>1. Writing(i) /\ call'[i].folder = call[i].folder
      BY <1>2, <1>5, <2>4 DEF Writing
    <3> QED BY <1>5, <2>4, <3>1 DEF Known, LockHeld
  <2> QED BY <1>2, <1>5, <2>1, <2>2, <2>3, <2>4
<1>6. \A j \in Calls : Writing(j)' <=> Writes(j)
  BY DEF Writing
<1> QED BY <1>3, <1>4, <1>5, <1>6 DEF LockHeld

LEMMA KnownStep == TypeInv /\ Known /\ [Next]_vars => Known'
<1> SUFFICES ASSUME TypeInv, Known, [Next]_vars PROVE Known'
  OBVIOUS
<1>1. ASSUME NEW j \in Calls
      PROVE  /\ call'[j].step = "lock" => call'[j].action = "move"
             /\ call'[j].step = "make" => call'[j].action = "mkdir"
  <2>1. CASE Command(j)
    BY <2>1, CommandDoes DEF Starts
  <2>2. CASE LockMove(j) /\ call'[j].step = "update"
    BY <2>2
  <2>3. CASE CreateRow(j) \/ CreateKey(j) \/ Update(j)
    BY <2>3, CreateRowDoes, CreateKeyDoes, UpdateDoes
  <2>4. CASE call'[j] = call[j] \/ call'[j] = Ended
    BY <2>4, PlainTypes DEF Known, ActionsFit
  <2> QED BY <2>1, <2>2, <2>3, <2>4, CallWriters
<1> QED BY <1>1, NamesKept, UnmadeKept, TargetsKept, LockKept DEF Known, ActionsFit

-----------------------------------------------------------------------------
(* Trees.                                                                  *)

On(rows, f) == RowIn(rows, f).state = "ACTIVE"
At(rows, f) == RowIn(rows, f).path

\* Rows that are fit to make a tree of.
Fit(rows) ==
  \A f \in Folders : On(rows, f) => rows[f].parent \in Ids /\ IsName(rows[f].name)

TreeOf(rows) ==
  \A f \in Folders : On(rows, f) =>
    /\ On(rows, rows[f].parent) /\ At(rows, f) \in Paths
    /\ At(rows, f) = Below(At(rows, rows[f].parent), rows[f].name)
    /\ \A g \in Folders \ {f} : On(rows, g) => At(rows, g) # At(rows, f)

\* The path of the root.
LEMMA RootPath == <<>> \in Paths /\ Len(<<>>) = 0
BY EmptySeq DEF Paths

\* Paths grow with every step down.
LEMMA BelowPath ==
  ASSUME NEW p \in Paths, NEW n, IsName(n)
  PROVE  Below(p, n) \in Paths /\ Len(p) < Len(Below(p, n)) /\ Below(p, n) # <<>> /\ Len(p) \in Nat
<1> DEFINE s == Below(p, n)
<1>1. Joins(s, p, n)
  BY BelowJoins
<1> HIDE DEF s
<1>2. s \in Paths /\ Len(p) < Len(s) /\ s # <<>> /\ Len(p) \in Nat
  BY <1>1, RootPath DEF Joins
<1> QED BY <1>2 DEF s

\* In a tree a path belongs to one folder, the root included.
LEMMA TreeFacts ==
  ASSUME NEW rows, Fit(rows), TreeOf(rows)
  PROVE  /\ On(rows, Root) /\ At(rows, Root) = <<>>
         /\ \A f \in Ids : On(rows, f) => At(rows, f) \in Paths
         /\ \A f \in Folders : On(rows, f) => At(rows, f) # <<>>
         /\ \A f, g \in Ids : On(rows, f) /\ On(rows, g) /\ At(rows, f) = At(rows, g) => f = g
<1>1. On(rows, Root) /\ At(rows, Root) = <<>>
  BY RowInFacts DEF On, At
<1>2. \A f \in Ids : On(rows, f) => At(rows, f) \in Paths
  BY <1>1, RootPath DEF Ids, TreeOf
<1>3. ASSUME NEW f \in Folders, On(rows, f) PROVE At(rows, f) # <<>>
  <2>1. rows[f].parent \in Ids /\ IsName(rows[f].name) /\ On(rows, rows[f].parent)
    BY <1>3 DEF Fit, TreeOf
  <2>2. At(rows, rows[f].parent) \in Paths
    BY <1>2, <2>1
  <2> QED BY <1>3, <2>1, <2>2, BelowPath DEF TreeOf
<1>4. ASSUME NEW f \in Ids, NEW g \in Ids, On(rows, f), On(rows, g), At(rows, f) = At(rows, g), f # g
      PROVE  FALSE
  <2>1. CASE f \in Folders /\ g \in Folders
    BY <1>4, <2>1 DEF TreeOf
  <2> QED BY <1>1, <1>3, <1>4, <2>1 DEF Ids
<1> QED BY <1>1, <1>2, <1>3, <1>4

\* A path that leads to a folder is the path of a folder.
LEMMA Descent ==
  ASSUME NEW rows, Fit(rows), TreeOf(rows), NEW q \in Paths, q # <<>>,
         NEW h \in Folders, On(rows, h), Under(q, At(rows, h))
  PROVE  \E c \in Folders : On(rows, c) /\ At(rows, c) = q
<1> DEFINE Deep(n) == \E g \in Folders : On(rows, g) /\ Under(q, At(rows, g)) /\ Len(At(rows, g)) = n
           T == {n \in Nat : Deep(n)}
<1>1. \A g \in Folders : On(rows, g) => At(rows, g) \in Paths /\ Len(At(rows, g)) \in Nat
  BY LenProperties DEF TreeOf, Paths
<1>2. Len(At(rows, h)) \in T
  BY <1>1
<1>3. PICK n \in T : \A m \in T : n <= m
  <2> HIDE DEF T
  <2>1. T \subseteq Nat
    BY DEF T
  <2> QED BY <1>2, <2>1, LeastLength
<1>4. PICK g \in Folders : On(rows, g) /\ Under(q, At(rows, g)) /\ Len(At(rows, g)) = n
  BY <1>3
<1> DEFINE p == rows[g].parent
<1>5. /\ p \in Ids /\ On(rows, p) /\ At(rows, p) \in Paths /\ IsName(rows[g].name)
      /\ At(rows, g) = Below(At(rows, p), rows[g].name)
  BY <1>4, TreeFacts DEF Fit, TreeOf
<1>6. q = At(rows, p) \/ Under(q, At(rows, p))
  BY <1>4, <1>5, UnderBelow
<1>7. ~Under(q, At(rows, p))
  <2> SUFFICES ASSUME Under(q, At(rows, p)) PROVE FALSE
    OBVIOUS
  <2>1. Len(At(rows, p)) < n /\ Len(At(rows, p)) \in Nat
    BY <1>4, <1>5, BelowPath
  <2>2. Len(q) < Len(At(rows, p)) /\ Len(q) \in Nat
    BY <1>5, UnderPrefix, LenProperties DEF Paths
  <2>3. p # Root
    BY <2>1, <2>2, TreeFacts, RootPath
  <2>4. p \in Folders
    BY <1>5, <2>3 DEF Ids
  <2>5. Len(At(rows, p)) \in T
    BY <1>5, <2>1, <2>4
  <2> QED BY <1>3, <2>1, <2>5
<1>8. p # Root
  BY <1>6, <1>7, TreeFacts
<1> QED BY <1>5, <1>6, <1>7, <1>8 DEF Ids

\* A folder is added where its name is free.
LEMMA TreeGrows ==
  ASSUME NEW rows, NEW next, Fit(rows), TreeOf(rows),
         NEW f \in Folders, ~On(rows, f), \A g \in Folders \ {f} : next[g] = rows[g],
         NEW to \in Ids, On(rows, to), NEW n, IsName(n),
         \A g \in Folders \ {f} : On(rows, g) /\ rows[g].parent = to => rows[g].name # n,
         next[f].parent = to, next[f].name = n, next[f].path = Below(At(rows, to), n)
  PROVE  TreeOf(next)
<1>1. \A g \in Ids \ {f} : RowIn(next, g) = RowIn(rows, g)
  BY DEF RowIn, Ids
<1>2. At(rows, to) \in Paths /\ to # f
  BY TreeFacts
<1>3. At(next, f) = Below(At(rows, to), n) /\ At(next, f) \in Paths
  BY <1>2, RowInFacts, BelowPath DEF At
<1>4. ASSUME NEW g \in Folders \ {f}, On(next, g)
      PROVE  /\ On(rows, g) /\ rows[g].parent \in Ids /\ rows[g].parent # f /\ On(rows, rows[g].parent)
             /\ IsName(rows[g].name) /\ next[g] = rows[g] /\ At(next, g) = At(rows, g)
             /\ At(next, g) # At(next, f)
  <2>1. On(rows, g) /\ At(next, g) = At(rows, g) /\ next[g] = rows[g]
    BY <1>1, <1>4 DEF On, At, Ids
  <2>2. rows[g].parent \in Ids /\ IsName(rows[g].name) /\ On(rows, rows[g].parent)
    BY <2>1 DEF Fit, TreeOf
  <2>3. At(rows, g) = Below(At(rows, rows[g].parent), rows[g].name) /\ At(rows, rows[g].parent) \in Paths
    BY <2>1, <2>2, TreeFacts DEF TreeOf
  <2>4. ASSUME At(rows, g) = At(next, f) PROVE FALSE
    <3>1. At(rows, rows[g].parent) = At(rows, to) /\ rows[g].name = n
      <4>1. Below(At(rows, rows[g].parent), rows[g].name) = Below(At(rows, to), n)
        BY <1>3, <2>3, <2>4
      <4>2. /\ At(rows, rows[g].parent) \in Paths /\ At(rows, to) \in Paths
            /\ IsName(rows[g].name) /\ IsName(n)
        BY <1>2, <2>2, <2>3
      <4> QED BY <4>1, <4>2, BelowSplits
    <3>2. rows[g].parent = to
      BY <2>2, <3>1, TreeFacts
    <3> QED BY <2>1, <3>1, <3>2
  <2> QED BY <2>1, <2>2, <2>4
<1>5. ASSUME NEW g \in Folders \ {f}, On(next, g)
      PROVE  /\ On(next, next[g].parent) /\ At(next, g) \in Paths
             /\ At(next, g) = Below(At(next, next[g].parent), next[g].name)
  <2>1. /\ On(rows, g) /\ next[g] = rows[g] /\ At(next, g) = At(rows, g)
        /\ RowIn(next, rows[g].parent) = RowIn(rows, rows[g].parent)
    BY <1>1, <1>4, <1>5
  <2> QED BY <2>1 DEF TreeOf, On, At
<1>6. On(next, next[f].parent) /\ At(next, f) = Below(At(next, next[f].parent), next[f].name)
  BY <1>1, <1>2, <1>3 DEF On, At
<1>7. ASSUME NEW g \in Folders \ {f}, NEW h \in Folders \ {f, g}, On(next, g), On(next, h)
      PROVE  At(next, h) # At(next, g)
  BY <1>4, <1>7 DEF TreeOf
<1> QED
  <2> SUFFICES ASSUME NEW g \in Folders, On(next, g)
               PROVE  /\ On(next, next[g].parent) /\ At(next, g) \in Paths
                      /\ At(next, g) = Below(At(next, next[g].parent), next[g].name)
                      /\ \A h \in Folders \ {g} : On(next, h) => At(next, h) # At(next, g)
    BY DEF TreeOf
  <2>1. CASE g = f
    BY <1>3, <1>4, <1>6, <2>1
  <2>2. CASE g # f
    BY <1>4, <1>5, <1>7, <2>2
  <2> QED BY <2>1, <2>2

\* A folder that no active folder is in leaves, or stays away.
LEMMA TreeShrinks ==
  ASSUME NEW rows, NEW next, Fit(rows), TreeOf(rows),
         NEW f \in Folders, next[f].state # "ACTIVE", \A g \in Folders \ {f} : next[g] = rows[g],
         \A g \in Folders : On(rows, g) => rows[g].parent # f
  PROVE  TreeOf(next)
<1>1. \A g \in Ids \ {f} : RowIn(next, g) = RowIn(rows, g)
  BY DEF RowIn, Ids
<1>2. ~On(next, f)
  BY RowInFacts DEF On
<1>3. ASSUME NEW g \in Folders, On(next, g)
      PROVE  /\ g # f /\ On(rows, g) /\ next[g] = rows[g] /\ At(next, g) = At(rows, g)
             /\ RowIn(next, rows[g].parent) = RowIn(rows, rows[g].parent)
  <2>1. g # f /\ On(rows, g) /\ next[g] = rows[g] /\ At(next, g) = At(rows, g)
    BY <1>1, <1>2, <1>3 DEF On, At, Ids
  <2>2. rows[g].parent \in Ids \ {f}
    BY <2>1 DEF Fit
  <2> QED BY <1>1, <2>1, <2>2
<1> QED
  <2> SUFFICES ASSUME NEW g \in Folders, On(next, g)
               PROVE  /\ On(next, next[g].parent) /\ At(next, g) \in Paths
                      /\ At(next, g) = Below(At(next, next[g].parent), next[g].name)
                      /\ \A h \in Folders \ {g} : On(next, h) => At(next, h) # At(next, g)
    BY DEF TreeOf
  <2>1. On(next, next[g].parent) /\ At(next, next[g].parent) = At(rows, rows[g].parent)
    BY <1>3 DEF On, At, TreeOf
  <2>2. \A h \in Folders \ {g} : On(next, h) => At(next, h) # At(next, g)
    BY <1>3 DEF TreeOf
  <2> QED BY <1>3, <2>1, <2>2 DEF TreeOf

\* A folder and what is below it get a new place that is not below it and free.
LEMMA TreeMoves ==
  ASSUME NEW rows, NEW next, Fit(rows), TreeOf(rows),
         NEW f \in Folders, On(rows, f), NEW to \in Ids, On(rows, to), to # f, NEW n, IsName(n),
         ~Under(At(rows, f), At(rows, to)),
         \A g \in Folders \ {f} : On(rows, g) /\ rows[g].parent = to => rows[g].name # n,
         next[f].state = "ACTIVE", next[f].parent = to, next[f].name = n,
         next[f].path = Below(At(rows, to), n),
         \A g \in Folders \ {f} :
           /\ next[g].state = rows[g].state /\ next[g].parent = rows[g].parent
           /\ next[g].name = rows[g].name
           /\ next[g].path = IF Under(rows[f].path, rows[g].path)
                             THEN Rebased(rows[g].path, rows[f].path, Below(At(rows, to), n))
                             ELSE rows[g].path
  PROVE  TreeOf(next)
<1> DEFINE old == At(rows, f)
           new == Below(At(rows, to), n)
           Hit(g) == Under(old, At(rows, g))
<1>1. \A g \in Folders : At(rows, g) = rows[g].path /\ At(next, g) = next[g].path
  BY RowInFacts DEF At
<1>2. \A g \in Ids : On(next, g) <=> On(rows, g)
  BY DEF On, RowIn, Ids
<1>3. At(next, Root) = <<>> /\ At(rows, Root) = <<>>
  BY RowInFacts DEF At
<1>4. old \in Paths /\ old # <<>> /\ At(rows, to) \in Paths /\ new \in Paths /\ new # <<>>
  BY TreeFacts, BelowPath DEF Ids
<1>5. At(next, f) = new
  BY <1>1
<1>6. ~Hit(Root)
  <2>1. Len(old) \in Nat
    BY <1>4, LenProperties DEF Paths
  <2>2. Under(old, <<>>) => Len(old) < Len(<<>>)
    BY <1>4, UnderPrefix, RootPath
  <2> QED BY <1>3, <2>1, <2>2, RootPath
<1>7. \A g \in Ids \ {f} :
        /\ Hit(g) => At(next, g) = Rebased(At(rows, g), old, new)
        /\ ~Hit(g) => At(next, g) = At(rows, g)
  BY <1>1, <1>3, <1>6 DEF Ids
<1>8. ~Hit(f)
  BY <1>4, UnderPrefix
<1> HIDE DEF old, new
<1>9. ASSUME NEW g \in Folders, On(rows, g)
      PROVE  LET p == rows[g].parent IN
             /\ p \in Ids /\ On(rows, p) /\ IsName(rows[g].name) /\ At(rows, p) \in Paths
             /\ At(rows, g) \in Paths /\ At(rows, g) = Below(At(rows, p), rows[g].name)
             /\ Hit(g) <=> p = f \/ Hit(p)
  <2> DEFINE p == rows[g].parent
  <2>1. /\ p \in Ids /\ On(rows, p) /\ IsName(rows[g].name) /\ At(rows, p) \in Paths
        /\ At(rows, g) \in Paths /\ At(rows, g) = Below(At(rows, p), rows[g].name)
    BY <1>9, TreeFacts DEF Fit, TreeOf
  <2>2. Hit(g) <=> old = At(rows, p) \/ Hit(p)
    BY <1>4, <2>1, UnderBelow
  <2>3. old = At(rows, p) <=> p = f
    BY <2>1, TreeFacts DEF Ids, old
  <2> QED BY <2>1, <2>2, <2>3
\* Every path is the path of the parent and the name.
<1>10. ASSUME NEW g \in Folders, On(next, g)
       PROVE  /\ On(next, next[g].parent) /\ At(next, g) \in Paths
              /\ At(next, g) = Below(At(next, next[g].parent), next[g].name)
  <2>1. CASE g = f
    <3>1. ~Hit(to) /\ At(next, to) = At(rows, to)
      BY <1>7 DEF old
    <3> QED BY <1>2, <1>4, <1>5, <2>1, <3>1 DEF new
  <2>2. CASE g # f
    <3> DEFINE p == rows[g].parent
    <3>1. /\ On(rows, g) /\ p \in Ids /\ On(rows, p) /\ IsName(rows[g].name) /\ At(rows, p) \in Paths
          /\ At(rows, g) \in Paths /\ At(rows, g) = Below(At(rows, p), rows[g].name)
          /\ Hit(g) <=> p = f \/ Hit(p)
      BY <1>2, <1>9, <1>10 DEF Ids
    <3>2. next[g].parent = p /\ next[g].name = rows[g].name /\ On(next, p)
      BY <1>2, <2>2, <3>1
    <3>3. CASE Hit(g)
      <4>1. At(next, g) = Rebased(At(rows, g), old, new) /\ At(next, g) \in Paths
        BY <1>4, <1>7, <2>2, <3>1, <3>3, RebasedUnder DEF Ids
      <4>2. /\ At(rows, p) = old \/ Hit(p)
            /\ At(next, p) \in Paths
            /\ Hit(p) => At(next, p) = Rebased(At(rows, p), old, new)
            /\ At(rows, p) = old => At(next, p) = new
        <5>1. CASE p = f
          BY <1>4, <1>5, <1>8, <5>1 DEF old
        <5>2. CASE p # f
          <6>1. Hit(p) /\ At(next, p) = Rebased(At(rows, p), old, new)
            BY <1>7, <3>1, <3>3, <5>2
          <6>2. At(rows, p) # old
            BY <3>1, <6>1, <1>4, UnderPrefix
          <6> QED BY <1>4, <3>1, <6>1, <6>2, RebasedUnder
        <5> QED BY <5>1, <5>2
      <4>3. Rebased(Below(At(rows, p), rows[g].name), old, new) = Below(At(next, p), rows[g].name)
        BY <1>4, <3>1, <4>2, RebasedBelow
      <4> QED BY <3>1, <3>2, <4>1, <4>3
    <3>4. CASE ~Hit(g)
      <4>1. At(next, g) = At(rows, g) /\ At(next, p) = At(rows, p)
        BY <1>7, <2>2, <3>1, <3>4 DEF Ids
      <4> QED BY <3>1, <3>2, <4>1
    <3> QED BY <3>2, <3>3, <3>4
  <2> QED BY <2>1, <2>2
\* No folder is where the folder goes, and none below.
<1>11. ASSUME NEW h \in Folders \ {f}, On(rows, h) PROVE At(rows, h) # new
  <2>1. /\ rows[h].parent \in Ids /\ On(rows, rows[h].parent) /\ IsName(rows[h].name)
        /\ At(rows, rows[h].parent) \in Paths
        /\ At(rows, h) = Below(At(rows, rows[h].parent), rows[h].name)
    BY <1>9, <1>11
  <2>2. ASSUME At(rows, h) = new PROVE FALSE
    <3>1. Below(At(rows, rows[h].parent), rows[h].name) = Below(At(rows, to), n)
      BY <2>1, <2>2 DEF new
    <3>2. At(rows, rows[h].parent) = At(rows, to) /\ rows[h].name = n
      BY <1>4, <2>1, <3>1, BelowSplits
    <3>3. rows[h].parent = to
      BY <2>1, <3>2, TreeFacts
    <3> QED BY <1>11, <3>2, <3>3
  <2> QED BY <2>2
<1>12. ASSUME NEW h \in Folders \ {f}, On(rows, h), ~Hit(h)
       PROVE  At(rows, h) # new /\ ~Under(new, At(rows, h))
  <2>1. ASSUME Under(new, At(rows, h)) PROVE FALSE
    <3>1. PICK c \in Folders : On(rows, c) /\ At(rows, c) = new
      BY <1>4, <1>12, <2>1, Descent
    <3>2. c = f
      BY <1>11, <3>1
    <3> QED BY <1>12, <2>1, <3>1, <3>2 DEF old
  <2> QED BY <1>11, <1>12, <2>1
<1>13. ASSUME NEW g \in Folders, On(rows, g), g = f \/ Hit(g)
       PROVE  At(next, g) = new \/ Under(new, At(next, g))
  <2>1. CASE g = f
    BY <1>5, <2>1
  <2>2. CASE g # f
    <3>1. At(rows, g) \in Paths /\ At(next, g) = Rebased(At(rows, g), old, new)
      BY <1>7, <1>9, <1>13, <2>2 DEF Ids
    <3> QED BY <1>4, <1>13, <2>2, <3>1, RebasedUnder
  <2> QED BY <2>1, <2>2
<1>14. ASSUME NEW g \in Folders, NEW h \in Folders \ {g}, On(rows, g), On(rows, h),
              At(next, h) = At(next, g)
       PROVE  FALSE
  <2>1. At(rows, g) \in Paths /\ At(rows, h) \in Paths /\ At(rows, g) # At(rows, h)
    BY <1>9, <1>14 DEF TreeOf
  <2>2. CASE g # f /\ h # f /\ Hit(g) /\ Hit(h)
    BY <1>4, <1>7, <1>14, <2>1, <2>2, RebasedInjective DEF Ids
  <2>3. CASE g # f /\ h # f /\ ~Hit(g) /\ ~Hit(h)
    BY <1>7, <1>14, <2>1, <2>3 DEF Ids
  <2>4. ASSUME NEW a \in Folders, NEW b \in Folders \ {f}, On(rows, a), On(rows, b),
               a = f \/ Hit(a), ~Hit(b), At(next, a) = At(next, b)
        PROVE  FALSE
    BY <1>7, <1>12, <1>13, <2>4 DEF Ids
  <2>5. ASSUME NEW b \in Folders \ {f}, On(rows, b), Hit(b), At(next, b) = At(next, f)
        PROVE  FALSE
    <3>1. At(next, b) = Rebased(At(rows, b), old, new) /\ At(rows, b) \in Paths
      BY <1>7, <1>9, <2>5 DEF Ids
    <3>2. Under(new, At(next, b)) /\ At(next, b) \in Paths
      BY <1>4, <2>5, <3>1, RebasedUnder
    <3> QED BY <1>4, <1>5, <2>5, <3>2, UnderPrefix
  <2> QED BY <1>14, <2>2, <2>3, <2>4, <2>5
<1> QED BY <1>2, <1>10, <1>14 DEF TreeOf, Ids

-----------------------------------------------------------------------------
(* The tree is kept.                                                       *)

TreeInv == ~torn /\ ~mangled => TreeOf(row)

\* The rows are fit for a tree.
LEMMA RowsFit ==
  ASSUME TypeInv, Known
  PROVE  Fit(row)
<1> SUFFICES ASSUME NEW f \in Folders, On(row, f) PROVE row[f].parent \in Ids /\ IsName(row[f].name)
  BY DEF Fit
<1>1. row[f].state = "ACTIVE" /\ RowType(row[f])
  BY RowInFacts DEF On, TypeInv, RowsTyped
<1> QED BY <1>1 DEF Known, NamesKnown, RowType

\* No other folder of that name is in the folder.
LEMMA NameIsFree ==
  ASSUME NEW to, NEW n, NEW f, ~NameTaken(to, n, f)
  PROVE  \A g \in Folders \ {f} : On(row, g) /\ row[g].parent = to => row[g].name # n
BY ActiveRow DEF NameTaken, Children, On

\* What a command has read is still true.
LEMMA NotStale ==
  ASSUME TypeInv, NEW i \in Calls, ~Stale(i)
  PROVE  LET c == call[i] IN
         /\ On(row, c.to) /\ At(row, c.to) = c.seen.path
         /\ c.action # "trash" => ~NameTaken(c.to, c.name, c.folder)
         /\ c.action = "trash" => Children(c.folder) = {}
BY ActiveRow DEF Stale, On, At

\* The tree at the beginning: two folders with one path and the least length would have
\* parents with one path, which is shorter.
LEMMA InitTree == Init => TreeInv
<1> SUFFICES ASSUME Init PROVE TreeOf(row)
  BY DEF TreeInv
<1> DEFINE Placed == {f \in Folders : Home[f] # NoKey}
           P(f) == HomePath[f]
<1>11. ASSUME NEW f \in Folders, Home[f] = NoKey PROVE row[f].state = "none"
  BY <1>11 DEF Init, NoRow
<1>12. ASSUME NEW f \in Folders, Home[f] # NoKey
      PROVE  /\ row[f].state = "ACTIVE" /\ row[f].parent = Home[f].parent
             /\ row[f].name = Home[f].name /\ row[f].path = HomePath[f]
  BY <1>12 DEF Init
<1>1. \A f \in Folders : On(row, f) <=> f \in Placed
  BY <1>11, <1>12, RowInFacts DEF On
<1>2. \A f \in Placed : row[f].parent = Home[f].parent /\ row[f].name = Home[f].name /\ At(row, f) = P(f)
  BY <1>12, RowInFacts DEF At
<1>3. \A f \in Ids : P(f) \in Paths
  <2>1. STRING \subseteq Letters
    BY DEF Letters
  <2> QED BY <2>1, TreeAssumption, SeqMonotonic DEF Paths
<1>4. \A f \in Placed :
        LET up == Home[f].parent IN
        /\ up = Root \/ up \in Placed
        /\ IsName(Home[f].name) /\ P(f) = Below(P(up), Home[f].name)
        /\ \A g \in Placed \ {f} : Home[g].parent # up \/ Home[g].name # Home[f].name
  BY TreeAssumption
<1>5. P(Root) = <<>> /\ At(row, Root) = <<>> /\ On(row, Root)
  BY TreeAssumption, RowInFacts DEF At, On
<1> HIDE DEF Placed, P
<1>6. ASSUME NEW f \in Placed
      PROVE  On(row, row[f].parent) /\ At(row, f) = Below(At(row, row[f].parent), row[f].name)
  BY <1>1, <1>2, <1>4, <1>5 DEF Placed
<1>7. ASSUME NEW f \in Placed
      PROVE  /\ Home[f].parent \in Ids /\ Len(P(Home[f].parent)) \in Nat
             /\ Len(P(Home[f].parent)) < Len(P(f)) /\ P(f) # <<>> /\ Len(P(f)) \in Nat
  <2>1. Home[f].parent \in Ids /\ f \in Ids
    BY <1>4 DEF Placed, Ids
  <2>2. P(Home[f].parent) \in Paths /\ IsName(Home[f].name)
    BY <1>3, <1>4, <2>1
  <2>3. Len(P(f)) \in Nat
    BY <1>3, <2>1, LenProperties DEF Paths
  <2> QED BY <1>4, <2>1, <2>2, <2>3, BelowPath
\* Of two folders with one path the parents would have one path, too.
<1>8. ASSUME NEW h \in Placed, NEW k \in Placed \ {h}, P(h) = P(k) PROVE FALSE
  <2> DEFINE Twin(n) == \E f \in Placed : \E g \in Placed \ {f} : P(f) = P(g) /\ Len(P(f)) = n
             T == {n \in Nat : Twin(n)}
  <2>1. Len(P(h)) \in T
    BY <1>7, <1>8
  <2>2. PICK n \in T : \A m \in T : n <= m
    <3> HIDE DEF T
    <3>1. T \subseteq Nat
      BY DEF T
    <3> QED BY <2>1, <3>1, LeastLength
  <2>3. PICK f \in Placed : \E g \in Placed \ {f} : P(f) = P(g) /\ Len(P(f)) = n
    BY <2>2
  <2>4. PICK g \in Placed \ {f} : P(f) = P(g) /\ Len(P(f)) = n
    BY <2>3
  <2> DEFINE a == Home[f].parent
             b == Home[g].parent
  <2>5. P(a) \in Paths /\ P(b) \in Paths /\ IsName(Home[f].name) /\ IsName(Home[g].name)
    BY <1>3, <1>4, <1>7
  <2>6. Below(P(a), Home[f].name) = Below(P(b), Home[g].name)
    BY <1>4, <2>4
  <2>7. P(a) = P(b) /\ Home[f].name = Home[g].name
    BY <2>5, <2>6, BelowSplits
  <2>8. a # b
    BY <1>4, <2>7
  <2>9. a \in Placed /\ b \in Placed
    BY <1>4, <1>5, <1>7, <2>7, <2>8
  <2>10. Len(P(a)) \in T
    BY <1>7, <2>7, <2>8, <2>9
  <2> QED BY <1>7, <2>2, <2>4, <2>10
<1>9. ASSUME NEW f \in Placed, NEW g \in Placed \ {f} PROVE At(row, g) # At(row, f)
  BY <1>2, <1>8
<1>10. \A f \in Placed : At(row, f) \in Paths
  BY <1>2, <1>3 DEF Placed, Ids
<1> QED BY <1>1, <1>6, <1>9, <1>10 DEF TreeOf

\* What went wrong is not forgotten.
LEMMA FlagsStay ==
  ASSUME TypeInv, [Next]_vars, ~torn', ~mangled'
  PROVE  ~torn /\ ~mangled
<1>1. ASSUME NEW x, torn' = (torn \/ x) PROVE ~torn
  BY <1>1, Zenon
<1>2. CASE torn' = torn /\ mangled' = mangled
  BY <1>2
<1>3. ASSUME NEW i \in Calls, CreateRow(i) PROVE ~torn /\ ~mangled
  BY <1>1, <1>3, CreateRowDoes
<1>4. ASSUME NEW i \in Calls, CreateKey(i) \/ CreateEvent(i) PROVE ~torn /\ ~mangled
  BY <1>1, <1>4, CreateKeyDoes, CreateEventDoes
<1>5. ASSUME NEW i \in Calls, Commit(i) PROVE ~torn /\ ~mangled
  BY <1>1, <1>5, CommitDoes
<1>6. ASSUME NEW i \in Calls, CommitTrash(i) PROVE ~torn /\ ~mangled
  BY <1>1, <1>6, CommitTrashDoes
<1>7. ASSUME NEW i \in Calls, Command(i) \/ LockMove(i) \/ Update(i) \/ CommandFails(i)
      PROVE torn' = torn /\ mangled' = mangled
  BY <1>7, CommandDoes, LockMoveDoes, UpdateDoes, CommandFailsDoes DEF Starts
<1>8. ASSUME NEW i \in Calls, Worker(i) PROVE ~torn /\ ~mangled
  <2>1. CASE Revert(i)
    BY <1>1, <2>1, RevertDoes
  <2> QED BY <1>8, <2>1, RunDoes, RevertStatusDoes, NasStepDoes, SaveKeyDoes, SaveKeysBelowDoes,
             KeysNotSavedDoes, RunFailsDoes DEF Worker
<1>9. Crash => torn' = torn /\ mangled' = mangled
  BY CrashDoes
<1>10. UNCHANGED vars => torn' = torn /\ mangled' = mangled
  BY DEF vars
<1> QED BY <1>2, <1>3, <1>4, <1>5, <1>6, <1>7, <1>8, <1>9, <1>10 DEF Next

\* What a rename or a move that is not torn does to the rows.
LEMMA CommitMoves ==
  ASSUME TypeInv, Known, Fit(row), TreeOf(row), NEW i \in Calls, Commit(i), ~torn', ~mangled'
  PROVE  LET c == call[i]  f == call[i].folder  old == row[call[i].folder].path  new == Target(i) IN
         /\ f \in Folders /\ On(row, f) /\ c.to \in Ids /\ On(row, c.to) /\ c.to # f
         /\ At(row, f) = old /\ old \in Paths /\ At(row, c.to) \in Paths /\ IsName(c.name)
         /\ new = Below(At(row, c.to), c.name) /\ ~Under(old, At(row, c.to))
         /\ \A g \in Folders \ {f} : On(row, g) /\ row[g].parent = c.to => row[g].name # c.name
         /\ row'[f].state = "ACTIVE" /\ row'[f].parent = c.to /\ row'[f].name = c.name
         /\ row'[f].path = new
         /\ \A g \in Folders \ {f} :
              /\ row'[g].state = row[g].state /\ row'[g].parent = row[g].parent
              /\ row'[g].name = row[g].name
              /\ row'[g].path = IF Under(old, row[g].path) THEN Rebased(row[g].path, old, new)
                                ELSE row[g].path
<1> DEFINE c == call[i]
           f == call[i].folder
           old == row[f].path
           new == Below(At(row, c.to), c.name)
<1>1. /\ f \in Folders /\ c.to \in Ids /\ c.step = "commit" /\ c.action \in {"rename", "move"}
      /\ row'[f].state = row[f].state
      /\ row'[f].parent = c.to /\ row'[f].name = c.name /\ row'[f].path = Target(i)
  BY CommitDoes DEF TypeInv, CallsTyped, CallType
<1>2. \A g \in Folders \ {f} :
         /\ row'[g].state = row[g].state /\ row'[g].parent = row[g].parent
         /\ row'[g].name = row[g].name
         /\ row'[g].path = IF Under(old, row[g].path) THEN Rebased(row[g].path, old, Target(i))
                           ELSE row[g].path
  BY CommitDoes
<1>3. ~Stale(i)
  BY CommitDoes
<1>4. /\ On(row, c.to) /\ At(row, c.to) = c.seen.path
      /\ \A g \in Folders \ {f} : On(row, g) /\ row[g].parent = c.to => row[g].name # c.name
  BY <1>1, <1>3, NotStale, NameIsFree
<1>5. /\ On(row, f) /\ row[f].state = "ACTIVE" /\ At(row, f) = old /\ IsName(c.name)
      /\ c.action = "rename" => c.to = row[f].parent
      /\ c.action = "move" => c.to # f /\ ~Under(old, c.seen.path)
  <2> HIDE DEF c
  <2>1. On(row, f) /\ row[f].state = "ACTIVE" /\ At(row, f) = old
    <3>1. RowIn(row, f) = row[f]
      BY <1>1, RowInFacts
    <3>2. row[f].state = "ACTIVE"
      BY <1>1 DEF c, Known, LockHeld, Writing
    <3> QED BY <3>1, <3>2 DEF On, At
  <2>2. IsName(c.name)
    BY <1>1 DEF c, Known, NamesKnown
  <2>3. c.action = "rename" => c.to = row[f].parent
    BY <1>1 DEF c, Known, LockHeld, Writing
  <2>4. c.action = "move" => c.to # f /\ ~Under(old, c.seen.path)
    BY <1>1 DEF c, Known, LockHeld, Writing
  <2> QED BY <2>1, <2>2, <2>3, <2>4
<1>6. At(row, c.to) \in Paths /\ old \in Paths
  BY <1>1, <1>4, <1>5, TreeFacts DEF Ids
<1>7. ~Under(old, At(row, c.to)) /\ c.to # f /\ Target(i) = new
  <2>1. CASE c.action = "move"
    BY <1>4, <1>5, <2>1 DEF Target
  <2>2. CASE c.action = "rename"
    <3>1. old = Below(At(row, c.to), row[f].name) /\ IsName(row[f].name)
      BY <1>1, <1>5, <2>2 DEF TreeOf, Fit
    <3>2. Dirname(old) = At(row, c.to)
      BY <1>6, <3>1, DirnameOfBelow
    <3>3. Len(At(row, c.to)) < Len(old) /\ Len(At(row, c.to)) \in Nat
      BY <1>6, <3>1, BelowPath
    <3>4. ~Under(old, At(row, c.to))
      BY <1>6, <3>3, UnderPrefix, LenProperties DEF Paths
    <3>5. c.to # f
      BY <1>5, <3>3
    <3> QED BY <2>2, <3>2, <3>4, <3>5 DEF Target
  <2> QED BY <1>1, <2>1, <2>2
<1> QED BY <1>1, <1>2, <1>4, <1>5, <1>6, <1>7

\* Every step keeps the tree: CreateRow adds a folder, CommitTrash takes one out, Commit
\* moves one, and Revert writes to a folder that is in the trash.
LEMMA TreeStep ==
  ASSUME TypeInv, Known, TreeInv, [Next]_vars
  PROVE  TreeInv'
<1> SUFFICES ASSUME ~torn', ~mangled' PROVE TreeOf(row')
  BY DEF TreeInv
<1>1. Fit(row) /\ TreeOf(row) /\ ~torn /\ ~mangled
  BY RowsFit, FlagsStay DEF TreeInv
<1>2. CASE row' = row
  BY <1>1, <1>2
<1>3. ASSUME NEW i \in Calls, NEW x, torn' = (torn \/ x) PROVE ~x
  BY <1>3, Zenon
<1>4. ASSUME NEW i \in Calls, CreateRow(i) PROVE TreeOf(row')
  <2> DEFINE c == call[i]
             f == call[i].folder
  <2>1. /\ f \in Folders /\ c.to \in Ids /\ c.step = "make"
        /\ \A g \in Folders \ {f} : row'[g] = row[g]
        /\ row'[f].parent = c.to /\ row'[f].name = c.name /\ row'[f].path = Below(c.seen.path, c.name)
    BY <1>4, CreateRowDoes DEF SameRows, TypeInv, CallsTyped, CallType
  <2>2. ~On(row, f) /\ IsName(c.name)
    BY <2>1, RowInFacts DEF Known, Unmade, NamesKnown, On
  <2>3. ~Stale(i)
    BY <1>3, <1>4, CreateRowDoes
  <2>4. c.action = "mkdir"
    BY <2>1 DEF Known, ActionsFit
  <2>5. /\ On(row, c.to) /\ At(row, c.to) = c.seen.path
        /\ \A g \in Folders \ {f} : On(row, g) /\ row[g].parent = c.to => row[g].name # c.name
    BY <2>3, <2>4, NotStale, NameIsFree
  <2> HIDE DEF c, f
  <2> QED BY <1>1, <2>1, <2>2, <2>5, TreeGrows
<1>5. ASSUME NEW i \in Calls, Commit(i) PROVE TreeOf(row')
  <2> DEFINE c == call[i]
             f == call[i].folder
             new == Below(At(row, c.to), c.name)
  <2>1. /\ f \in Folders /\ On(row, f) /\ c.to \in Ids /\ On(row, c.to) /\ c.to # f
        /\ At(row, f) = row[f].path /\ IsName(c.name) /\ ~Under(At(row, f), At(row, c.to))
        /\ \A g \in Folders \ {f} : On(row, g) /\ row[g].parent = c.to => row[g].name # c.name
        /\ row'[f].state = "ACTIVE" /\ row'[f].parent = c.to /\ row'[f].name = c.name
        /\ row'[f].path = new
        /\ \A g \in Folders \ {f} :
             /\ row'[g].state = row[g].state /\ row'[g].parent = row[g].parent
             /\ row'[g].name = row[g].name
             /\ row'[g].path = IF Under(row[f].path, row[g].path) THEN Rebased(row[g].path, row[f].path, new)
                               ELSE row[g].path
    BY <1>1, <1>5, CommitMoves
  <2> HIDE DEF c, f
  <2> QED BY <1>1, <2>1, TreeMoves
<1>6. ASSUME NEW i \in Calls, CommitTrash(i) PROVE TreeOf(row')
  <2> DEFINE c == call[i]
             f == call[i].folder
  <2>1. /\ f \in Folders /\ row'[f].state # "ACTIVE" /\ \A g \in Folders \ {f} : row'[g] = row[g]
        /\ c.action = "trash"
    BY <1>6, CommitTrashDoes DEF SameRows
  <2>2. ~Stale(i)
    BY <1>3, <1>6, CommitTrashDoes
  <2>3. Children(f) = {}
    BY <2>1, <2>2, NotStale
  <2>4. \A g \in Folders : On(row, g) => row[g].parent # f
    BY <2>3, ActiveRow DEF Children, On
  <2> QED BY <1>1, <2>1, <2>4, TreeShrinks
<1>7. ASSUME NEW i \in Calls, Revert(i) PROVE TreeOf(row')
  <2> DEFINE j == job[i]
             f == job[i].folder
  <2>1. /\ f \in Folders /\ row'[f].state = row[f].state /\ \A g \in Folders \ {f} : row'[g] = row[g]
        /\ j.step = "revert"
    BY <1>7, RevertDoes DEF SameRows
  <2>2. row[f].parent = j.to
    BY <1>3, <1>7, RevertDoes
  <2>3. ~On(row, f)
    BY <1>1, <2>1, <2>2 DEF TreeOf, On, Known, TargetsExist
  <2>4. row'[f].state # "ACTIVE"
    BY <2>1, <2>3, RowInFacts DEF On
  <2>5. \A g \in Folders : On(row, g) => row[g].parent # f
    BY <1>1, <2>3 DEF TreeOf
  <2> QED BY <1>1, <2>1, <2>4, <2>5, TreeShrinks
<1> QED BY <1>2, <1>4, <1>5, <1>6, <1>7, RowWriters

\* TreeMatchesPaths in terms of the model.
LEMMA TreeIsTree == TypeInv /\ TreeInv => TreeMatchesPaths
<1> SUFFICES ASSUME TypeInv, TreeOf(row), NEW f \in Folders, Active(f)
             PROVE  /\ Active(row[f].parent)
                    /\ row[f].path = Below(RowOf(row[f].parent).path, row[f].name)
                    /\ \A g \in Folders \ {f} : Active(g) => row[g].path # row[f].path
  BY DEF TreeInv, TreeMatchesPaths, IsTree
<1>1. \A g \in Folders : At(row, g) = row[g].path
  BY RowInFacts DEF At
<1> QED BY <1>1, ActiveRow DEF TreeOf, On, At

-----------------------------------------------------------------------------
(* Calls that create and jobs under way, once more.                        *)

MakeSteps == {"make", "store", "event"}
Making(i) == call[i].step \in {"store", "event"}

\* Every folder is created by one call, and one that has a row is not a new one.
MakersDiffer ==
  \A i \in Calls, j \in Calls :
    i # j /\ call[i].step \in MakeSteps /\ call[j].step \in MakeSteps => call[i].folder # call[j].folder
MakersMake == \A i \in Calls : Making(i) => call[i].action = "mkdir"

\* What jobs are about.
JobsFit ==
  \A k \in Calls :
    /\ Unfinished(k) => job[k].action \in {"mkdir", "rename", "move", "trash"}
    /\ job[k].step = "keys" => job[k].action \in {"rename", "move"}
    /\ ~crossed /\ Unfinished(k) /\ job[k].action = "trash" => row[job[k].folder].state = "TRASHED"

\* A call has its job when it ends.
JobsLate == \A i \in Calls : call[i].step # "end" => job[i].step = "none"

\* The folder of a transaction has a storage row.
AllKeyed == ~crossed => \A i \in Calls : call[i].step = "commit" => call[i].keyed

Working == MakersDiffer /\ MakersMake /\ JobsFit /\ JobsLate /\ AllKeyed

\* No call and no job is under way at the beginning.
LEMMA InitWorking == Init => Working
<1> SUFFICES ASSUME Init PROVE Working
  OBVIOUS
<1>1. \A i \in Calls : call[i].step = "idle" /\ job[i].step = "none"
  BY PlainTypes DEF Init
<1> QED
  BY <1>1 DEF Working, MakersDiffer, MakersMake, JobsFit, JobsLate, AllKeyed, Making, MakeSteps, Unfinished

\* What a call that creates comes from.
LEMMA MakerComes ==
  ASSUME TypeInv, Known, Working, [Next]_vars, NEW j \in Calls, call'[j].step \in MakeSteps
  PROVE  \/ /\ call[j].step \in MakeSteps /\ call'[j].folder = call[j].folder
            /\ Making(j)' => call'[j].action = "mkdir"
         \/ /\ \A k \in Calls : call[k].folder # call'[j].folder
            /\ (\A k \in Calls \ {j} : call'[k] = call[k]) /\ call'[j].step = "make"
<1>1. CASE Command(j)
  BY <1>1, CommandDoes DEF Starts, SameCalls, MakeSteps
<1>2. CASE (LockMove(j) /\ call'[j].step = "update") \/ Update(j)
  BY <1>2, UpdateDoes DEF MakeSteps
<1>3. CASE CreateRow(j)
  BY <1>3, CreateRowDoes DEF MakeSteps, Known, ActionsFit
<1>4. CASE CreateKey(j)
  BY <1>4, CreateKeyDoes DEF MakeSteps, Working, MakersMake, Making
<1>5. CASE call'[j] = call[j]
  BY <1>5 DEF Working, MakersMake, Making
<1>6. CASE call'[j] = Ended
  BY <1>6, PlainTypes DEF MakeSteps
<1> QED BY <1>1, <1>2, <1>3, <1>4, <1>5, <1>6, CallWriters

\* What crossed is not forgotten.
LEMMA CrossedStays ==
  ASSUME TypeInv, [Next]_vars, ~crossed'
  PROVE  ~crossed
<1>1. ASSUME NEW x, crossed' = (crossed \/ x) PROVE ~crossed
  BY <1>1, Zenon
<1>2. ASSUME NEW i \in Calls, Command(i) \/ LockMove(i) \/ CreateRow(i) \/ CreateKey(i) PROVE crossed' = crossed
  <2>1. CASE Command(i)
    BY <2>1, CommandDoes DEF Starts
  <2>2. CASE LockMove(i)
    BY <2>2, LockMoveDoes
  <2>3. CASE CreateRow(i)
    BY <2>3, CreateRowDoes
  <2>4. CASE CreateKey(i)
    BY <2>4, CreateKeyDoes
  <2> QED BY <1>2, <2>1, <2>2, <2>3, <2>4
<1>3. ASSUME NEW i \in Calls, CreateEvent(i) PROVE ~crossed
  BY <1>1, <1>3, CreateEventDoes DEF Registers
<1>4. ASSUME NEW i \in Calls, Commit(i) \/ CommitTrash(i) PROVE ~crossed
  <2>1. Registers(i, call[i].folder, row[call[i].folder].path, Target(i))
    BY <1>4, CommitDoes, CommitTrashDoes
  <2> QED BY <1>1, <2>1 DEF Registers
<1>8. ASSUME NEW i \in Calls, Update(i) PROVE ~crossed
  BY <1>1, <1>8, UpdateDoes
<1>9. ASSUME NEW i \in Calls, CommandFails(i) PROVE ~crossed
  BY <1>1, <1>9, CommandFailsDoes
<1>5. ASSUME NEW i \in Calls, Worker(i) PROVE crossed' = crossed
  BY <1>5, RunDoes, RevertDoes, RevertStatusDoes, NasStepDoes, SaveKeyDoes, SaveKeysBelowDoes,
             KeysNotSavedDoes, RunFailsDoes DEF Worker
<1>6. Crash => ~crossed
  BY <1>1, CrashDoes
<1>7. UNCHANGED vars => crossed' = crossed
  BY DEF vars
<1> QED BY <1>2, <1>3, <1>4, <1>5, <1>6, <1>7, <1>8, <1>9 DEF Next

\* Every step keeps Working.
LEMMA WorkingStep == TypeInv /\ Known /\ Working /\ [Next]_vars => Working'
<1> SUFFICES ASSUME TypeInv, Known, Working, [Next]_vars PROVE Working'
  OBVIOUS
<1>1. MakersDiffer'
  <2> SUFFICES ASSUME NEW i \in Calls, NEW j \in Calls, i # j,
                      call'[i].step \in MakeSteps, call'[j].step \in MakeSteps
               PROVE  call'[i].folder # call'[j].folder
    BY DEF MakersDiffer
  <2>1. CASE call[i].step \in MakeSteps /\ call'[i].folder = call[i].folder
    <3>1. CASE call[j].step \in MakeSteps /\ call'[j].folder = call[j].folder
      BY <2>1, <3>1 DEF Working, MakersDiffer
    <3>2. CASE \A k \in Calls : call[k].folder # call'[j].folder
      BY <2>1, <3>2
    <3> QED BY <3>1, <3>2, MakerComes
  <2>2. CASE /\ \A k \in Calls : call[k].folder # call'[i].folder
             /\ \A k \in Calls \ {i} : call'[k] = call[k]
    <3>1. call'[j].folder = call[j].folder
      BY <2>2
    <3> QED BY <2>2, <3>1
  <2> QED BY <2>1, <2>2, MakerComes
<1>2. MakersMake'
  <2> SUFFICES ASSUME NEW j \in Calls, Making(j)' PROVE call'[j].action = "mkdir"
    BY DEF MakersMake
  <2>1. call'[j].step \in {"store", "event"}
    BY DEF Making
  <2> QED BY <2>1, MakerComes DEF MakeSteps
<1>3. JobsFit'
  <2> SUFFICES ASSUME NEW k \in Calls
               PROVE  /\ Unfinished(k)' => job'[k].action \in {"mkdir", "rename", "move", "trash"}
                      /\ job'[k].step = "keys" => job'[k].action \in {"rename", "move"}
                      /\ ~crossed' /\ Unfinished(k)' /\ job'[k].action = "trash" =>
                           row'[job'[k].folder].state = "TRASHED"
    BY DEF JobsFit
  <2>1. CASE job'[k] = job[k] \/ Proceeds(k)
    <3>1. /\ Unfinished(k)' => Unfinished(k)
          /\ job'[k].action = job[k].action /\ job'[k].folder = job[k].folder
          /\ job'[k].step = "keys" => job[k].action \in {"rename", "move"}
      BY <2>1 DEF Proceeds, Unfinished, Working, JobsFit
    <3>2. JobType(job[k])
      BY DEF TypeInv, JobsTyped
    <3>3. Unfinished(k) => job[k].folder \in Folders
      BY <3>2 DEF JobType, Unfinished
    <3>4. ASSUME ~crossed', Unfinished(k), job[k].action = "trash" PROVE row'[job[k].folder].state = "TRASHED"
      BY <3>3, <3>4, CrossedStays, RowsLive, RowInFacts DEF Working, JobsFit, Ids
    <3> QED BY <3>1, <3>4 DEF Working, JobsFit
  <2>2. CASE job'[k] = Done
    BY <2>2, PlainTypes DEF Unfinished
  <2>3. CASE CreateEvent(k)
    <3>1. call[k].action = "mkdir"
      BY <2>3, CreateEventDoes DEF Working, MakersMake, Making
    <3> QED BY <2>3, <3>1, CreateEventDoes DEF Registers, HasJob
  <2>4. CASE Commit(k)
    <3>1. Registers(k, call[k].folder, row[call[k].folder].path, Target(k)) /\ call[k].action \in {"rename", "move"}
      BY <2>4, CommitDoes
    <3> QED BY <3>1 DEF Registers, HasJob
  <2>5. CASE CommitTrash(k)
    <3>1. /\ Registers(k, call[k].folder, row[call[k].folder].path, Target(k)) /\ call[k].action = "trash"
          /\ row'[call[k].folder].state = "TRASHED"
      BY <2>5, CommitTrashDoes
    <3> QED BY <3>1 DEF Registers, HasJob
  <2>6. CASE LeftBehind(k)
    <3>1. call[k].action \in {"rename", "move", "trash"}
      BY <2>6 DEF LeftBehind, Known, LockHeld, Writing
    <3> QED BY <2>6, <3>1 DEF LeftBehind, Survives, HasJob
  <2> QED BY <2>1, <2>2, <2>3, <2>4, <2>5, <2>6, JobWriters
<1>4. JobsLate'
  <2> SUFFICES ASSUME NEW i \in Calls, call'[i].step # "end" PROVE job'[i].step = "none"
    BY DEF JobsLate
  <2>1. call[i].step # "end"
    <3>1. CASE Command(i)
      BY <3>1, CommandDoes DEF Starts
    <3> QED BY <3>1, CallWriters, PlainTypes, LockMoveDoes, CreateRowDoes, CreateKeyDoes, UpdateDoes
  <2>2. job[i].step = "none" /\ ~Unfinished(i)
    BY <2>1 DEF Working, JobsLate, Unfinished
  <2>3. ~CreateEvent(i) /\ ~CommitTrash(i) /\ ~LeftBehind(i)
    BY CreateEventDoes, CommitTrashDoes, PlainTypes DEF Ends, LeftBehind
  <2>4. ~Commit(i)
    <3>1. Commit(i) => Ends(i)
      BY CommitDoes
    <3> QED BY <3>1, PlainTypes DEF Ends
  <2> QED BY <2>2, <2>3, <2>4, JobWriters DEF Proceeds
<1>5. AllKeyed'
  <2> SUFFICES ASSUME ~crossed', NEW i \in Calls, call'[i].step = "commit" PROVE call'[i].keyed
    BY DEF AllKeyed
  <2>1. ~crossed
    BY CrossedStays
  <2>2. CASE Update(i)
    <3>1. crossed' = (crossed \/ key[call[i].folder] = NoKey)
      BY <2>2, UpdateDoes
    <3>2. key[call[i].folder] # NoKey
      BY <3>1, Zenon
    <3> QED BY <2>2, <3>2, UpdateDoes
  <2>3. CASE Command(i)
    BY <2>3, CommandDoes DEF Starts
  <2> QED BY <2>1, <2>2, <2>3, CallWriters, PlainTypes, CreateRowDoes, CreateKeyDoes DEF Working, AllKeyed
<1> QED BY <1>1, <1>2, <1>3, <1>4, <1>5 DEF Working

-----------------------------------------------------------------------------
(* Where the rows of a tree are.                                           *)

\* Paths begin with a slash, belong to one folder, and have a folder at every step.
LEMMA TreePaths ==
  ASSUME NEW rows, Fit(rows), TreeOf(rows)
  PROVE  /\ \A f \in Folders : rows[f].state = "ACTIVE" =>
              /\ rows[f].path \in Paths /\ rows[f].path # <<>> /\ rows[f].path[1] = Slash
         /\ \A f, g \in Folders :
              rows[f].state = "ACTIVE" /\ rows[g].state = "ACTIVE" /\ rows[f].path = rows[g].path => f = g
         /\ \A q \in Paths, h \in Folders :
              q # <<>> /\ rows[h].state = "ACTIVE" /\ Under(q, rows[h].path) =>
                \E c \in Folders : rows[c].state = "ACTIVE" /\ rows[c].path = q
<1>1. \A f \in Folders : (On(rows, f) <=> rows[f].state = "ACTIVE") /\ At(rows, f) = rows[f].path
  BY RowInFacts DEF On, At
<1>2. ASSUME NEW f \in Folders, On(rows, f), At(rows, f)[1] # Slash PROVE FALSE
  <2> DEFINE Wrong(g) == On(rows, g) /\ At(rows, g)[1] # Slash
             T == {n \in Nat : \E g \in Folders : Wrong(g) /\ Len(At(rows, g)) = n}
  <2>1. \A g \in Folders : On(rows, g) => Len(At(rows, g)) \in Nat
    BY TreeFacts, LenProperties DEF Ids, Paths
  <2>2. T \subseteq Nat /\ T # {}
    BY <1>2, <2>1
  <2>3. PICK n \in T : \A m \in T : n <= m
    <3> HIDE DEF T
    <3> QED BY <2>2, LeastLength
  <2>4. PICK g \in Folders : Wrong(g) /\ Len(At(rows, g)) = n
    BY <2>3
  <2> DEFINE p == rows[g].parent
  <2>5. /\ p \in Ids /\ On(rows, p) /\ At(rows, p) \in Paths /\ IsName(rows[g].name)
        /\ At(rows, g) = Below(At(rows, p), rows[g].name)
    BY <2>4, TreeFacts DEF Fit, TreeOf
  <2>6. Joins(At(rows, g), At(rows, p), rows[g].name)
    BY <2>5, BelowJoins
  <2>7. CASE Len(At(rows, p)) = 0
    BY <2>4, <2>6, <2>7 DEF Joins
  <2>8. CASE Len(At(rows, p)) > 0
    <3>5. 1 \in 1 .. Len(At(rows, p))
      BY <2>6, <2>8 DEF Joins
    <3>6. At(rows, g)[1] = At(rows, p)[1]
      BY <2>6, <3>5 DEF Joins
    <3>7. Len(At(rows, p)) < Len(At(rows, g))
      BY <2>5, BelowPath
    <3>1. At(rows, p)[1] # Slash /\ Len(At(rows, p)) < n
      BY <2>4, <3>6, <3>7
    <3>2. p # Root
      BY <2>8, TreeFacts, RootPath
    <3>3. p \in Folders
      BY <2>5, <3>2 DEF Ids
    <3>4. Len(At(rows, p)) \in T
      BY <2>1, <2>5, <3>1, <3>3
    <3> QED BY <2>3, <3>1, <3>4
  <2> QED BY <2>6, <2>7, <2>8 DEF Joins
<1>3. \A f \in Folders : On(rows, f) => At(rows, f) \in Paths /\ At(rows, f) # <<>> /\ At(rows, f)[1] = Slash
  BY <1>2, TreeFacts DEF Ids
<1>4. \A f, g \in Folders : On(rows, f) /\ On(rows, g) /\ At(rows, f) = At(rows, g) => f = g
  BY TreeFacts DEF Ids
<1>5. ASSUME NEW q \in Paths, NEW h \in Folders, q # <<>>, On(rows, h), Under(q, At(rows, h))
      PROVE  \E c \in Folders : On(rows, c) /\ At(rows, c) = q
  BY <1>5, Descent
<1> HIDE DEF On, At
<1> QED BY <1>1, <1>3, <1>4, <1>5

\* The trash is not in the tree.
LEMMA TrashFar ==
  ASSUME NEW k \in Calls, NEW p \in Paths, p # <<>>, p[1] = Slash
  PROVE  Trash(k) \in Paths /\ Apart(p, Trash(k))
<1> DEFINE t == Trash(k)
<1>1. \A S : \A a \in S, b \in S, c \in S :
        <<a, b, c>> \in Seq(S) /\ Len(<<a, b, c>>) = 3 /\ <<a, b, c>>[1] = a
  OBVIOUS
<1>2. ".trash" \in Letters /\ Slash \in Letters /\ ToString(k) \in Letters
  BY DEF Letters
<1>3. t \in Paths /\ Len(t) = 3 /\ t[1] = ".trash"
  BY <1>1, <1>2 DEF Trash, Paths
<1>4. t[1] # p[1]
  BY <1>3 DEF Slash
<1> HIDE DEF t
<1>5. Len(p) \in Nat /\ Len(p) > 0
  BY LenProperties, EmptySeq DEF Paths
<1>6. Len(t) \in Nat /\ 1 \in 1 .. Len(p) /\ 1 \in 1 .. Len(t)
  BY <1>3, <1>5
<1>7. ASSUME In(p, t) PROVE FALSE
  <2>1. \A n \in 1 .. Len(p) : t[n] = p[n]
    BY <1>3, <1>7, InLeads
  <2> QED BY <1>4, <1>6, <2>1
<1>8. ASSUME In(t, p) PROVE FALSE
  <2>1. \A n \in 1 .. Len(t) : p[n] = t[n]
    BY <1>3, <1>8, InLeads
  <2> QED BY <1>4, <1>6, <2>1
<1> QED BY <1>3, <1>7, <1>8 DEF Apart, t

-----------------------------------------------------------------------------
(* The directories and the storage rows follow the tree.                   *)

Creating(f) == \E i \in Calls : Making(i) /\ call[i].folder = f
Made(f) == row[f].state = "ACTIVE" /\ ~Creating(f)
Moves(k) == job[k].action \in {"rename", "move"}
Arrived(k) == job[k].step \in {"save", "keys"}

\* Where folder h was before the move of job k.
Before(k, h) == Rebased(row[h].path, job[k].new, job[k].old)

JobPaths == \A k \in Calls : Unfinished(k) => job[k].old \in Paths /\ job[k].new \in Paths /\ job[k].old # <<>>

\* Unfinished jobs are about paths of which none is in another.
JobsApart ==
  \A k \in Calls, m \in Calls : k # m /\ Unfinished(k) /\ Unfinished(m) =>
    /\ Apart(job[k].old, job[m].old) /\ Apart(job[k].new, job[m].new)
    /\ Apart(job[k].old, job[m].new) /\ Apart(job[k].new, job[m].old)

JobShapes ==
  \A k \in Calls : Unfinished(k) =>
    /\ ~Under(job[k].old, job[k].new) /\ ~Under(job[k].new, job[k].old)
    /\ job[k].action = "mkdir" => job[k].old = job[k].new
    /\ job[k].action = "trash" => job[k].new = Trash(k)
    /\ job[k].step # "status"

\* The rows of its folder say where a job leads, and are SYNCING until the job saves them.
JobRows ==
  \A k \in Calls : Unfinished(k) /\ job[k].action # "trash" =>
    LET g == job[k].folder IN
    /\ Made(g) /\ row[g].path = job[k].new
    /\ key[g].path = job[k].new
    /\ key[g].status = IF job[k].step = "keys" THEN "AVAILABLE" ELSE "SYNCING"
    /\ Arrived(k) => job[k].new \in dirs

\* No folder is left where a job moves a directory from.
Vacated ==
  \A k \in Calls, h \in Folders :
    Unfinished(k) /\ Made(h) /\ In(job[k].old, row[h].path) => job[k].old = job[k].new

\* The folders below one that moves are still where they were, or moved with it.
Carried ==
  \A k \in Calls, h \in Folders : Unfinished(k) /\ Moves(k) /\ Made(h) /\ Under(job[k].new, row[h].path) =>
    /\ key[h].status = "AVAILABLE" /\ key[h].path = Before(k, h)
    /\ job[k].old \in dirs => Before(k, h) \in dirs
    /\ Arrived(k) => row[h].path \in dirs

\* A new folder has nothing below it.
NothingInNew ==
  /\ \A k \in Calls, h \in Folders :
       Unfinished(k) /\ job[k].action = "mkdir" /\ Made(h) => ~Under(job[k].new, row[h].path)
  /\ \A f \in Folders, h \in Folders : Creating(f) /\ Made(h) => ~Under(row[f].path, row[h].path)

\* The row and the storage row of a new folder agree, unless the one above it is new, too.
Makings ==
  \A i \in Calls : Making(i) =>
    LET f == call[i].folder IN
    /\ row[f].state = "ACTIVE" /\ row[f].path = call[i].seen.path
    /\ call[i].step = "event" =>
         \/ key[f].status = "SYNCING" /\ key[f].path = row[f].path
         \/ \E e \in Folders : Creating(e) /\ Under(row[e].path, row[f].path)

\* A folder that no unfinished job is about is in its place.
FreeInPlace ==
  \A f \in Folders : Made(f) /\ (\A k \in Calls : Unfinished(k) => ~In(job[k].new, row[f].path)) =>
    key[f].status = "AVAILABLE" /\ key[f].path = row[f].path /\ row[f].path \in dirs

Sync ==
  /\ dirs \subseteq Paths /\ JobPaths /\ JobsApart /\ JobShapes /\ JobRows /\ Vacated
  /\ Carried /\ NothingInNew /\ Makings /\ FreeInPlace

Quiet == ~torn /\ ~mangled /\ ~crossed
SyncInv == Quiet => Sync
-----------------------------------------------------------------------------
(* Steps that do not touch what a part is about.                           *)

Ready == TypeInv /\ Known /\ Working /\ Fit(row) /\ TreeOf(row) /\ Sync /\ ~crossed

\* Who has a folder.
LEMMA HaveFolders ==
  ASSUME Ready
  PROVE  /\ \A k \in Calls : Unfinished(k) => job[k].folder \in Folders
         /\ \A i \in Calls : Making(i) => call[i].folder \in Folders
BY DEF Ready, TypeInv, JobsTyped, JobType, Unfinished, CallsTyped, CallType, Making

\* TreePaths for the rows of now.
LEMMA RowPaths ==
  ASSUME Ready
  PROVE  /\ \A f \in Folders : row[f].state = "ACTIVE" =>
              /\ row[f].path \in Paths /\ row[f].path # <<>> /\ row[f].path[1] = Slash
         /\ \A f, g \in Folders :
              row[f].state = "ACTIVE" /\ row[g].state = "ACTIVE" /\ row[f].path = row[g].path => f = g
         /\ \A q \in Paths, h \in Folders :
              q # <<>> /\ row[h].state = "ACTIVE" /\ Under(q, row[h].path) =>
                \E c \in Folders : row[c].state = "ACTIVE" /\ row[c].path = q
BY TreePaths DEF Ready

\* The calls that create are the same.
MakersKeep ==
  \A i \in Calls :
    /\ Making(i)' <=> Making(i)
    /\ Making(i) => /\ call'[i].step = call[i].step /\ call'[i].folder = call[i].folder
                    /\ call'[i].seen = call[i].seen

\* Unfinished jobs were so before.
JobsKeep ==
  \A k \in Calls : Unfinished(k)' =>
    /\ Unfinished(k) /\ job'[k].action = job[k].action /\ job'[k].folder = job[k].folder
    /\ job'[k].old = job[k].old /\ job'[k].new = job[k].new

SameNew == \A f : Creating(f)' <=> Creating(f)

\* The same calls create the same folders.
LEMMA MakersNew == MakersKeep => SameNew
BY DEF Creating, MakersKeep, SameNew

\* ... and the same folders are made, if the rows are the same.
LEMMA MadeKeeps ==
  ASSUME row' = row, SameNew
  PROVE  \A f : (Creating(f)' <=> Creating(f)) /\ (Made(f)' <=> Made(f))
BY DEF Made, SameNew

\* The parts of Sync that are about rows and paths only.
LEMMA ShapesKeep ==
  ASSUME Sync, row' = row, SameNew, JobsKeep, \A k \in Calls : Unfinished(k)' => job'[k].step # "status"
  PROVE  JobPaths' /\ JobsApart' /\ JobShapes' /\ Vacated' /\ NothingInNew'
<1>1. JobPaths'
  BY DEF Sync, JobPaths, JobsKeep
<1>2. JobsApart'
  BY DEF Sync, JobsApart, JobsKeep
<1>3. JobShapes'
  BY DEF Sync, JobShapes, JobsKeep
<1>4. Vacated'
  BY MadeKeeps DEF Sync, Vacated, JobsKeep
<1>5. NothingInNew'
  BY MadeKeeps DEF Sync, NothingInNew, JobsKeep
<1> QED BY <1>1, <1>2, <1>3, <1>4, <1>5

\* The part that is about new folders.
LEMMA MakingsKeep ==
  ASSUME Ready, row' = row, MakersKeep,
         \A f \in Folders : Creating(f) => key'[f].status = key[f].status /\ key'[f].path = key[f].path
  PROVE  Makings'
<1> SUFFICES ASSUME NEW i \in Calls, Making(i)'
             PROVE  LET f == call'[i].folder IN
                    /\ row'[f].state = "ACTIVE" /\ row'[f].path = call'[i].seen.path
                    /\ call'[i].step = "event" =>
                         \/ key'[f].status = "SYNCING" /\ key'[f].path = row'[f].path
                         \/ \E e \in Folders : Creating(e)' /\ Under(row'[e].path, row'[f].path)
  BY DEF Makings
<1> DEFINE f == call[i].folder
<1>1. /\ Making(i) /\ call'[i].folder = f /\ call'[i].seen = call[i].seen /\ call'[i].step = call[i].step
      /\ f \in Folders /\ Creating(f)
  BY HaveFolders DEF MakersKeep, Creating
<1>2. /\ row[f].state = "ACTIVE" /\ row[f].path = call[i].seen.path
      /\ call[i].step = "event" =>
           \/ key[f].status = "SYNCING" /\ key[f].path = row[f].path
           \/ \E e \in Folders : Creating(e) /\ Under(row[e].path, row[f].path)
  BY <1>1 DEF Ready, Sync, Makings
<1> QED BY <1>1, <1>2, MadeKeeps, MakersNew

\* A step that changes neither the rows, nor the keys of made folders, nor the directories,
\* nor what jobs are about.
LEMMA Framed ==
  ASSUME Ready, row' = row, \A f \in Folders : Made(f) => key'[f] = key[f], dirs' = dirs,
         SameNew, Makings', JobsKeep,
         \A k \in Calls : Unfinished(k)' =>
           /\ job'[k].step # "status" /\ (job'[k].step = "keys" <=> job[k].step = "keys")
           /\ job'[k].step = "save" => job[k].step = "save",
         \A k \in Calls, h \in Folders : Unfinished(k) /\ ~Unfinished(k)' /\ Made(h) => ~In(job[k].new, row[h].path)
  PROVE  Sync'
<1>1. JobPaths' /\ JobsApart' /\ JobShapes' /\ Vacated' /\ NothingInNew'
  BY ShapesKeep DEF Ready
<1>3. JobRows'
  BY MadeKeeps, HaveFolders DEF Ready, Sync, JobRows, JobsKeep, Arrived
<1>4. Carried'
  <2> SUFFICES ASSUME NEW k \in Calls, NEW h \in Folders, Unfinished(k)', Moves(k)', Made(h)',
                      Under(job'[k].new, row'[h].path)
               PROVE  /\ key'[h].status = "AVAILABLE" /\ key'[h].path = Before(k, h)'
                      /\ job'[k].old \in dirs' => Before(k, h)' \in dirs'
                      /\ Arrived(k)' => row'[h].path \in dirs'
    BY DEF Carried
  <2>1. /\ Unfinished(k) /\ Moves(k) /\ Made(h) /\ Under(job[k].new, row[h].path)
        /\ job'[k].old = job[k].old /\ Before(k, h)' = Before(k, h) /\ (Arrived(k)' => Arrived(k))
    BY MadeKeeps DEF JobsKeep, Moves, Before, Arrived
  <2> QED BY <2>1 DEF Ready, Sync, Carried
<1>5. FreeInPlace'
  <2> SUFFICES ASSUME NEW f \in Folders, Made(f)', \A k \in Calls : Unfinished(k)' => ~In(job'[k].new, row'[f].path)
               PROVE  key'[f].status = "AVAILABLE" /\ key'[f].path = row'[f].path /\ row'[f].path \in dirs'
    BY DEF FreeInPlace
  <2>1. Made(f)
    BY MadeKeeps
  <2>2. ASSUME NEW k \in Calls, Unfinished(k) PROVE ~In(job[k].new, row[f].path)
    BY <2>1, <2>2 DEF JobsKeep
  <2> QED BY <2>1, <2>2 DEF Ready, Sync, FreeInPlace
<1> QED BY <1>1, <1>3, <1>4, <1>5 DEF Sync, Ready

\* A step that changes no keys either.
LEMMA Still ==
  ASSUME Ready, UNCHANGED <<row, key, dirs>>, MakersKeep, JobsKeep,
         \A k \in Calls : Unfinished(k)' =>
           /\ job'[k].step # "status" /\ (job'[k].step = "keys" <=> job[k].step = "keys")
           /\ job'[k].step = "save" => job[k].step = "save",
         \A k \in Calls, h \in Folders : Unfinished(k) /\ ~Unfinished(k)' /\ Made(h) => ~In(job[k].new, row[h].path)
  PROVE  Sync'
<1>1. Makings'
  BY MakingsKeep
<1> QED BY <1>1, MakersNew, Framed

\* A job that takes a step stays about the same.
LEMMA StepsKeep ==
  ASSUME NEW i \in Calls, NEW step, Steps(i, step), Unfinished(i), step \notin {"none", "done"}
  PROVE  /\ JobsKeep /\ \A k \in Calls : Unfinished(k) => Unfinished(k)'
         /\ job'[i].step = step /\ \A k \in Calls \ {i} : job'[k] = job[k]
BY DEF Steps, SameJobs, JobsKeep, Unfinished

\* A job that ends leaves the others alone.
LEMMA JobEndsKeep ==
  ASSUME NEW i \in Calls, JobEnds(i)
  PROVE  /\ JobsKeep /\ ~Unfinished(i)'
         /\ \A k \in Calls \ {i} : job'[k] = job[k] /\ (Unfinished(k)' <=> Unfinished(k))
BY PlainTypes DEF JobEnds, SameJobs, JobsKeep, Unfinished

\* A call that does not create.
LEMMA OtherCalls ==
  ASSUME NEW i \in Calls, SameCalls(i), ~Making(i), ~Making(i)'
  PROVE  MakersKeep
BY DEF SameCalls, MakersKeep, Making

\* A step of no call.
LEMMA NoCalls ==
  ASSUME call' = call
  PROVE  MakersKeep
BY DEF MakersKeep, Making

\* A step of no job.
LEMMA NoJobs ==
  ASSUME job' = job
  PROVE  JobsKeep /\ \A k \in Calls : Unfinished(k)' <=> Unfinished(k)
BY DEF JobsKeep, Unfinished

\* Commands begin, a move takes its lock, a transaction makes its statements, and a command
\* that has saved nothing fails, without a change to the tree.
LEMMA CommandSync ==
  ASSUME Ready, NEW i \in Calls,
         Command(i) \/ LockMove(i) \/ Update(i) \/ CommandFails(i), ~crossed'
  PROVE  Sync'
<1>1. /\ SameCalls(i) /\ ~Making(i) /\ ~Making(i)'
      /\ UNCHANGED <<row, key, dirs>> /\ \A k \in Calls : job'[k] = job[k]
  <2>1. CASE Command(i)
    BY <2>1, CommandDoes DEF Starts, Making, Ready
  <2>2. CASE LockMove(i)
    BY <2>2, LockMoveDoes, PlainTypes DEF Ends, Making, Ready
  <2>3. CASE Update(i)
    BY <2>3, UpdateDoes DEF Making, Ready
  <2>4. CASE CommandFails(i)
    <3>1. ~(crossed \/ call[i].step \in {"store", "event", "commit"})
      BY <2>4, CommandFailsDoes, Zenon DEF Ready
    <3> QED BY <2>4, <3>1, CommandFailsDoes, PlainTypes DEF Ready, Ends, Making, SameJobs
  <2> QED BY <2>1, <2>2, <2>3, <2>4
<1>2. \A k \in Calls : Unfinished(k) => job[k].step # "status"
  BY DEF Ready, Sync, JobShapes
<1>3. MakersKeep
  BY <1>1, OtherCalls
<1>4. JobsKeep /\ \A k \in Calls : Unfinished(k)' <=> Unfinished(k)
  BY <1>1 DEF JobsKeep, Unfinished
<1> QED BY <1>1, <1>2, <1>3, <1>4, Still

\* A job takes a step that changes nothing else.
LEMMA StepSync ==
  ASSUME Ready, NEW i \in Calls, Unfinished(i), job[i].step # "keys",
         NEW step, Steps(i, step), step \in {"waiting", "failed", "nas", "revert"},
         UNCHANGED <<row, key, dirs, call>>
  PROVE  Sync'
<1>1. /\ JobsKeep /\ (\A k \in Calls : Unfinished(k) => Unfinished(k)')
      /\ job'[i].step = step /\ \A k \in Calls \ {i} : job'[k] = job[k]
  BY StepsKeep
<1>2. \A k \in Calls : Unfinished(k) => job[k].step # "status"
  BY DEF Ready, Sync, JobShapes
<1>3. \A k \in Calls : Unfinished(k)' =>
           /\ job'[k].step # "status" /\ (job'[k].step = "keys" <=> job[k].step = "keys")
           /\ job'[k].step = "save" => job[k].step = "save"
  BY <1>1, <1>2 DEF JobsKeep
<1> QED BY <1>1, <1>3, NoCalls, Still

\* No path of the tree is in the trash.
LEMMA NotInTrash ==
  ASSUME Ready, NEW k \in Calls, Unfinished(k), job[k].action = "trash",
         NEW h \in Folders, row[h].state = "ACTIVE"
  PROVE  ~In(job[k].new, row[h].path)
<1>1. job[k].new = Trash(k)
  BY DEF Ready, Sync, JobShapes
<1>2. Apart(row[h].path, Trash(k))
  BY RowPaths, TrashFar
<1> QED BY <1>1, <1>2 DEF Apart

\* Only a job of a deleted folder finds nothing to do.
LEMMA RunSync ==
  ASSUME Ready, NEW i \in Calls, Run(i)
  PROVE  Sync'
<1>1. job[i].step = "waiting" /\ Unfinished(i) /\ UNCHANGED <<row, key, dirs, call>>
  BY RunDoes DEF Ready, Unfinished
<1>2. CASE JobEnds(i) /\ key[job[i].folder].status \in {"none", "AVAILABLE"}
  <2>1. job[i].action = "trash"
    BY <1>1, <1>2 DEF Ready, Sync, JobRows
  <2>2. \A h \in Folders : Made(h) => ~In(job[i].new, row[h].path)
    BY <1>1, <2>1, NotInTrash DEF Made
  <2>3. /\ JobsKeep /\ ~Unfinished(i)'
        /\ \A k \in Calls \ {i} : job'[k] = job[k] /\ (Unfinished(k)' <=> Unfinished(k))
    BY <1>2, JobEndsKeep
  <2>4. \A k \in Calls : Unfinished(k) => job[k].step # "status"
    BY DEF Ready, Sync, JobShapes
  <2>5. \A k \in Calls : Unfinished(k)' =>
           /\ job'[k].step # "status" /\ (job'[k].step = "keys" <=> job[k].step = "keys")
           /\ job'[k].step = "save" => job[k].step = "save"
    BY <2>3, <2>4
  <2>6. \A k \in Calls, h \in Folders :
          Unfinished(k) /\ ~Unfinished(k)' /\ Made(h) => ~In(job[k].new, row[h].path)
    BY <2>2, <2>3
  <2> QED BY <1>1, <2>3, <2>5, <2>6, NoCalls, Still
<1>3. CASE Steps(i, "revert") \/ Steps(i, "nas")
  BY <1>1, <1>3, StepSync
<1> QED BY <1>2, <1>3, RunDoes DEF Ready

\* A job that fails is tried again, or not.
LEMMA RunFailsSync ==
  ASSUME Ready, NEW i \in Calls, RunFails(i)
  PROVE  Sync'
<1>1. /\ job[i].step \in {"nas", "revert", "status", "save"}
      /\ Steps(i, "waiting") \/ Steps(i, "failed")
      /\ UNCHANGED <<row, key, dirs, call>>
  BY RunFailsDoes DEF Ready
<1>2. Unfinished(i) /\ job[i].step # "keys"
  BY <1>1 DEF Unfinished
<1> QED BY <1>1, <1>2, StepSync

\* A crash that separates nothing.
LEMMA CrashSync ==
  ASSUME Ready, Crash, ~crossed'
  PROVE  Sync'
<1>1. UNCHANGED <<row, key, dirs>>
  BY CrashDoes DEF Ready
<1>2. \A i \in Calls : ~Making(i) /\ call[i].step # "commit" /\ job[i].step # "keys"
  <2>1. ~(crossed \/ \E i \in Calls :
            call[i].step \in {"store", "event", "commit"} \/ job[i].step = "keys")
    BY CrashDoes, Zenon DEF Ready
  <2> QED BY <2>1 DEF Making
<1>3. MakersKeep
  <2>1. ASSUME NEW i \in Calls PROVE ~Making(i)'
    <3>1. call'[i] = Ended \/ call'[i] = call[i]
      BY CrashDoes DEF Ready
    <3> QED BY <1>2, <3>1, PlainTypes DEF Making
  <2> QED BY <1>2, <2>1 DEF MakersKeep
<1>4. JobsKeep /\ \A k \in Calls : Unfinished(k) => Unfinished(k)'
  BY <1>2, CrashDoes DEF JobsKeep, Unfinished, Running, Ready
<1>5. \A k \in Calls : Unfinished(k)' =>
           /\ job'[k].step # "status" /\ (job'[k].step = "keys" <=> job[k].step = "keys")
           /\ job'[k].step = "save" => job[k].step = "save"
  BY <1>2, <1>4, CrashDoes DEF Ready, Sync, JobShapes, JobsKeep
<1> QED BY <1>1, <1>3, <1>4, <1>5, Still

\* No job turns back: the target of its folder would not be active, but its folder is.
LEMMA NoRevert ==
  ASSUME Ready, NEW i \in Calls, Revert(i), ~torn'
  PROVE  FALSE
<1>1. /\ job[i].step = "revert" /\ job[i].folder \in Folders /\ Unfinished(i)
      /\ torn' = (torn \/ row[job[i].folder].parent # job[i].to)
  BY RevertDoes DEF Ready, Unfinished
<1>2. row[job[i].folder].parent = job[i].to
  BY <1>1, Zenon
<1>3. job[i].action = "move" /\ ~On(row, job[i].to)
  BY <1>1 DEF Ready, Known, TargetsExist, On
<1>4. row[job[i].folder].state = "ACTIVE"
  BY <1>1, <1>3 DEF Ready, Sync, JobRows, Made
<1>5. On(row, job[i].folder)
  BY <1>1, <1>4, RowInFacts DEF On
<1> QED BY <1>1, <1>2, <1>3, <1>5 DEF Ready, TreeOf

\* No job is about to save what it has turned back.
LEMMA NoRevertStatus ==
  ASSUME Ready, NEW i \in Calls, RevertStatus(i)
  PROVE  FALSE
BY RevertStatusDoes DEF Ready, Sync, JobShapes, Unfinished

-----------------------------------------------------------------------------
(* A folder is created.                                                    *)

\* The new folder has a row, but it is not made yet.
LEMMA CreateRowSync ==
  ASSUME Ready, NEW i \in Calls, CreateRow(i), Fit(row'), TreeOf(row')
  PROVE  Sync'
<1> DEFINE f == call[i].folder
<1>1. /\ call[i].step = "make" /\ f \in Folders /\ row[f].state = "none"
      /\ row'[f].state = "ACTIVE" /\ \A g \in Folders \ {f} : row'[g] = row[g]
      /\ call'[i].step = "store" /\ call'[i].folder = f /\ call'[i].seen = row'[f]
      /\ (\A j \in Calls \ {i} : call'[j] = call[j]) /\ UNCHANGED <<key, dirs, job>>
  BY CreateRowDoes DEF Ready, Known, Unmade, SameRows, SameCalls
<1>2. /\ Making(i)' /\ ~Making(i) /\ \A j \in Calls \ {i} : Making(j)' <=> Making(j)
  BY <1>1 DEF Making
<1>3. ~Creating(f)
  <2>1. ASSUME NEW j \in Calls, Making(j) PROVE call[j].folder # f
    BY <1>1, <1>2, <2>1 DEF Ready, Working, MakersDiffer, MakeSteps, Making
  <2> QED BY <2>1 DEF Creating
<1>4. Creating(f)' /\ \A g : g # f => (Creating(g)' <=> Creating(g))
  BY <1>1, <1>2 DEF Creating
<1>5. \A g \in Folders : (Made(g)' <=> Made(g)) /\ (Made(g) => g # f /\ row'[g] = row[g])
  BY <1>1, <1>4 DEF Made
<1> HIDE DEF f
<1>6. JobPaths' /\ JobsApart' /\ JobShapes'
  BY <1>1, NoJobs DEF Ready, Sync, JobPaths, JobsApart, JobShapes
<1>7. JobRows' /\ Vacated'
  BY <1>1, <1>5, NoJobs, HaveFolders DEF Ready, Sync, JobRows, Vacated, Arrived
<1>8. Carried'
  <2> SUFFICES ASSUME NEW k \in Calls, NEW h \in Folders, Unfinished(k)', Moves(k)', Made(h)',
                      Under(job'[k].new, row'[h].path)
               PROVE  /\ key'[h].status = "AVAILABLE" /\ key'[h].path = Before(k, h)'
                      /\ job'[k].old \in dirs' => Before(k, h)' \in dirs'
                      /\ Arrived(k)' => row'[h].path \in dirs'
    BY DEF Carried
  <2>1. /\ Unfinished(k) /\ Moves(k) /\ Made(h) /\ Under(job[k].new, row[h].path)
        /\ Before(k, h)' = Before(k, h) /\ (Arrived(k)' <=> Arrived(k)) /\ row'[h] = row[h]
    BY <1>1, <1>5, NoJobs DEF Moves, Before, Arrived
  <2> QED BY <1>1, <2>1 DEF Ready, Sync, Carried
<1>9. NothingInNew'
  <2>1. ASSUME NEW h \in Folders, Made(h), Under(row'[f].path, row'[h].path) PROVE FALSE
    <3>1. row'[f].path \in Paths /\ row'[f].path # <<>>
      BY <1>1, TreePaths
    <3>2. h # f /\ row'[h] = row[h] /\ row[h].state = "ACTIVE"
      BY <1>5, <2>1 DEF Made
    <3>3. PICK c \in Folders : row[c].state = "ACTIVE" /\ row[c].path = row'[f].path
      BY <2>1, <3>1, <3>2, RowPaths
    <3>4. c # f /\ row'[c] = row[c]
      BY <1>1, <3>3
    <3> QED BY <1>1, <3>3, <3>4, TreePaths
  <2>2. \A e \in Folders, h \in Folders : Creating(e)' /\ Made(h)' => ~Under(row'[e].path, row'[h].path)
    BY <1>1, <1>4, <1>5, <2>1 DEF Ready, Sync, NothingInNew
  <2>3. \A k \in Calls, h \in Folders :
          Unfinished(k)' /\ job'[k].action = "mkdir" /\ Made(h)' => ~Under(job'[k].new, row'[h].path)
    BY <1>1, <1>5, NoJobs DEF Ready, Sync, NothingInNew
  <2> QED BY <2>2, <2>3 DEF NothingInNew
<1>10. Makings'
  <2> SUFFICES ASSUME NEW j \in Calls, Making(j)'
               PROVE  LET e == call'[j].folder IN
                      /\ row'[e].state = "ACTIVE" /\ row'[e].path = call'[j].seen.path
                      /\ call'[j].step = "event" =>
                           \/ key'[e].status = "SYNCING" /\ key'[e].path = row'[e].path
                           \/ \E d \in Folders : Creating(d)' /\ Under(row'[d].path, row'[e].path)
    BY DEF Makings
  <2>1. CASE j = i
    BY <1>1, <2>1
  <2>2. CASE j # i
    <3> DEFINE e == call[j].folder
    <3>1. Making(j) /\ call'[j] = call[j] /\ e \in Folders /\ Creating(e)
      BY <1>1, <1>2, <2>2, HaveFolders DEF Creating
    <3>2. e # f /\ row'[e] = row[e]
      BY <1>1, <1>3, <3>1
    <3>3. \A d \in Folders : Creating(d) => Creating(d)' /\ row'[d] = row[d]
      BY <1>1, <1>3, <1>4
    <3> QED BY <1>1, <3>1, <3>2, <3>3 DEF Ready, Sync, Makings
  <2> QED BY <2>1, <2>2
<1>11. FreeInPlace'
  BY <1>1, <1>5, NoJobs DEF Ready, Sync, FreeInPlace
<1>12. dirs' \subseteq Paths
  BY <1>1 DEF Ready, Sync
<1> QED BY <1>6, <1>7, <1>8, <1>9, <1>10, <1>11, <1>12 DEF Sync

\* Its storage row is written with the path that was saved.
LEMMA CreateKeySync ==
  ASSUME Ready, NEW i \in Calls, CreateKey(i), ~torn'
  PROVE  Sync'
<1> DEFINE f == call[i].folder
<1>1. /\ call[i].step = "store" /\ f \in Folders
      /\ \A g \in Folders \ {f} : key'[g] = key[g]
      /\ key'[f] = [status |-> "SYNCING", path |-> call[i].seen.path]
      /\ call'[i].step = "event" /\ call'[i].folder = f /\ call'[i].seen = call[i].seen
      /\ (\A j \in Calls \ {i} : call'[j] = call[j]) /\ UNCHANGED <<row, dirs, job>>
  BY CreateKeyDoes DEF Ready, SameKeys, SameCalls
<1>2. /\ Making(i)' /\ Making(i) /\ \A j \in Calls \ {i} : Making(j)' <=> Making(j)
  BY <1>1 DEF Making
<1>3. Creating(f) /\ SameNew
  BY <1>1, <1>2 DEF Creating, SameNew
<1>4. \A g \in Folders : Made(g) => key'[g] = key[g]
  BY <1>1, <1>3 DEF Made
<1>5. Makings'
  <2> SUFFICES ASSUME NEW j \in Calls, Making(j)'
               PROVE  LET e == call'[j].folder IN
                      /\ row'[e].state = "ACTIVE" /\ row'[e].path = call'[j].seen.path
                      /\ call'[j].step = "event" =>
                           \/ key'[e].status = "SYNCING" /\ key'[e].path = row'[e].path
                           \/ \E d \in Folders : Creating(d)' /\ Under(row'[d].path, row'[e].path)
    BY DEF Makings
  <2>1. CASE j = i
    <3>1. row[f].state = "ACTIVE" /\ row[f].path = call[i].seen.path
      BY <1>2 DEF Ready, Sync, Makings
    <3> QED BY <1>1, <2>1, <3>1
  <2>2. CASE j # i
    <3> DEFINE e == call[j].folder
    <3>1. Making(j) /\ call'[j] = call[j] /\ e \in Folders
      BY <1>1, <1>2, <2>2, HaveFolders
    <3>2. e # f
      BY <1>2, <2>2, <3>1 DEF Ready, Working, MakersDiffer, MakeSteps, Making
    <3> QED BY <1>1, <1>3, <3>1, <3>2 DEF Ready, Sync, Makings, SameNew
  <2> QED BY <2>1, <2>2
<1>6. \A k \in Calls : Unfinished(k) => job[k].step # "status"
  BY DEF Ready, Sync, JobShapes
<1> QED BY <1>1, <1>3, <1>4, <1>5, <1>6, NoJobs, Framed

-----------------------------------------------------------------------------
(* What a command that is not crossed knows of the others.                 *)

\* Its paths and theirs are apart.
LEMMA NotCrossed ==
  ASSUME Ready, NEW i \in Calls, NEW old \in Paths, NEW new \in Paths, ~Crosses(i, old, new),
         NEW k \in Calls \ {i}, NEW p \in {old, new}
  PROVE  /\ Unfinished(k) => Apart(p, job[k].old) /\ Apart(p, job[k].new)
         /\ Making(k) => Apart(p, row[call[k].folder].path)
<1>1. ASSUME Unfinished(k) PROVE Apart(p, job[k].old) /\ Apart(p, job[k].new)
  <2>1. job[k].old \in Paths /\ job[k].new \in Paths
    BY <1>1 DEF Ready, Sync, JobPaths
  <2>2. ~Related(p, job[k].old) /\ ~Related(p, job[k].new)
    BY <1>1 DEF Crosses
  <2> QED BY <2>1, <2>2, UnrelatedApart
<1>2. ASSUME Making(k) PROVE Apart(p, row[call[k].folder].path)
  <2>1. call[k].seen.path = row[call[k].folder].path /\ call[k].seen.path \in Paths
    BY <1>2, HaveFolders, RowPaths DEF Ready, Sync, Makings
  <2>2. ~Related(p, call[k].seen.path)
    BY <1>2 DEF Crosses, Making
  <2> QED BY <2>1, <2>2, UnrelatedApart
<1> QED BY <1>1, <1>2

\* Its job is a new one.
LEMMA RegistersKeep ==
  ASSUME Ready, NEW i \in Calls, call[i].step # "end",
         NEW f, NEW old, NEW new, Registers(i, f, old, new), ~crossed'
  PROVE  /\ ~Unfinished(i) /\ Unfinished(i)' /\ ~Crosses(i, old, new)
         /\ \A k \in Calls \ {i} : job'[k] = job[k] /\ (Unfinished(k)' <=> Unfinished(k))
<1>1. ~Unfinished(i)
  BY DEF Ready, Working, JobsLate, Unfinished
<1>2. ~Crosses(i, old, new)
  BY Zenon DEF Registers
<1> QED BY <1>1, <1>2 DEF Registers, HasJob, SameJobs, Unfinished

\* The folder is made, and its directory is to come.
LEMMA CreateEventSync ==
  ASSUME Ready, NEW i \in Calls, CreateEvent(i), ~crossed'
  PROVE  Sync'
<1>0. PICK f \in Folders : f = call[i].folder
  BY CreateEventDoes DEF Ready
<1> DEFINE p == row[f].path
<1>1. /\ call[i].step = "event" /\ call[i].folder = f
      /\ Registers(i, f, call[i].seen.path, call[i].seen.path)
      /\ call'[i] = Ended /\ (\A j \in Calls \ {i} : call'[j] = call[j]) /\ UNCHANGED <<row, key, dirs>>
  BY <1>0, CreateEventDoes DEF Ready, Ends, SameCalls
<1>2. /\ Making(i) /\ ~Making(i)' /\ \A j \in Calls \ {i} : Making(j)' <=> Making(j)
  BY <1>1, PlainTypes DEF Making
<1>3. row[f].state = "ACTIVE" /\ call[i].seen.path = p /\ call[i].action = "mkdir"
  BY <1>1, <1>2 DEF Ready, Sync, Makings, Working, MakersMake
<1>4. p \in Paths /\ p # <<>>
  BY <1>1, <1>3, RowPaths
<1>5. /\ job'[i].step = "waiting" /\ job'[i].action = "mkdir" /\ job'[i].folder = f
      /\ job'[i].old = p /\ job'[i].new = p
  BY <1>1, <1>3 DEF Registers, HasJob
<1>6. /\ ~Unfinished(i) /\ Unfinished(i)' /\ ~Crosses(i, p, p)
      /\ \A k \in Calls \ {i} : job'[k] = job[k] /\ (Unfinished(k)' <=> Unfinished(k))
  BY <1>1, <1>3, RegistersKeep
<1>7. \A k \in Calls \ {i} :
        /\ Unfinished(k) => Apart(p, job[k].old) /\ Apart(p, job[k].new)
        /\ Making(k) => call[k].folder # f /\ Apart(p, row[call[k].folder].path)
  <2>1. \A k \in Calls \ {i} : Making(k) => call[k].folder # f
    BY <1>1, <1>2 DEF Ready, Working, MakersDiffer, MakeSteps, Making
  <2> QED BY <1>4, <1>6, <2>1, NotCrossed
<1>8. Creating(f) /\ ~Creating(f)' /\ \A g \in Folders : g # f => (Creating(g)' <=> Creating(g))
  <2>1. Creating(f)
    BY <1>1, <1>2 DEF Creating
  <2>2. ASSUME NEW j \in Calls, Making(j)' PROVE j # i /\ Making(j) /\ call'[j].folder = call[j].folder
    BY <1>1, <1>2, <2>2
  <2>3. ~Creating(f)'
    BY <1>7, <2>2 DEF Creating
  <2>4. ASSUME NEW j \in Calls, Making(j), call[j].folder # f PROVE Making(j)' /\ call'[j].folder = call[j].folder
    BY <1>1, <1>2, <2>4
  <2>5. ASSUME NEW g \in Folders, g # f PROVE Creating(g)' <=> Creating(g)
    BY <2>2, <2>4, <2>5 DEF Creating
  <2> QED BY <2>1, <2>3, <2>5
<1>9. \A g \in Folders : Creating(g) /\ g # f => Apart(p, row[g].path)
  BY <1>1, <1>7 DEF Creating
<1>10. Made(f)' /\ ~Made(f) /\ \A g \in Folders : g # f => (Made(g)' <=> Made(g))
  <2>1. Made(f)'
    BY <1>1, <1>3, <1>8 DEF Made
  <2>2. ~Made(f)
    BY <1>8 DEF Made
  <2> QED BY <1>1, <1>8, <2>1, <2>2 DEF Made
<1>11. ~Under(p, p)
  BY <1>4, UnderPrefix
<1>12. key[f].status = "SYNCING" /\ key[f].path = p
  <2>1. ASSUME NEW e \in Folders, Creating(e), Under(row[e].path, p) PROVE FALSE
    <3>1. e # f
      BY <1>11, <2>1
    <3> QED BY <1>9, <2>1, <3>1 DEF Apart, In
  <2> QED BY <1>1, <1>2, <2>1 DEF Ready, Sync, Makings
<1> HIDE DEF p
<1>13. JobPaths'
  BY <1>4, <1>5, <1>6 DEF Ready, Sync, JobPaths
<1>14. JobsApart'
  BY <1>5, <1>6, <1>7 DEF Ready, Sync, JobsApart, Apart
<1>15. JobShapes'
  BY <1>5, <1>6, <1>11 DEF Ready, Sync, JobShapes
<1>16. JobRows'
  <2> SUFFICES ASSUME NEW k \in Calls, Unfinished(k)', job'[k].action # "trash"
               PROVE  LET g == job[k].folder IN
                      (/\ Made(g) /\ row[g].path = job[k].new /\ key[g].path = job[k].new
                       /\ key[g].status = IF job[k].step = "keys" THEN "AVAILABLE" ELSE "SYNCING"
                       /\ Arrived(k) => job[k].new \in dirs)'
    BY DEF JobRows
  <2>1. CASE k = i
    <3>1. job'[k].folder = f /\ job'[k].new = p /\ job'[k].step = "waiting" /\ ~Arrived(k)'
      BY <1>5, <2>1 DEF Arrived
    <3>2. row'[f].path = p /\ key'[f].status = "SYNCING" /\ key'[f].path = p
      BY <1>1, <1>12 DEF p
    <3> QED BY <1>10, <3>1, <3>2
  <2>2. CASE k # i
    <3>1. Unfinished(k) /\ job'[k] = job[k] /\ job[k].folder \in Folders
      BY <1>6, <2>2, HaveFolders
    <3> QED BY <1>1, <1>10, <3>1 DEF Ready, Sync, JobRows, Arrived
  <2> QED BY <2>1, <2>2
<1>17. Vacated'
  <2> SUFFICES ASSUME NEW k \in Calls, NEW h \in Folders, Unfinished(k)', Made(h)', In(job'[k].old, row'[h].path)
               PROVE  job'[k].old = job'[k].new
    BY DEF Vacated
  <2>1. CASE k = i
    BY <1>5, <2>1
  <2>2. CASE k # i /\ h = f
    BY <1>1, <1>6, <1>7, <2>2 DEF Apart, p
  <2>3. CASE k # i /\ h # f
    BY <1>1, <1>6, <1>10, <2>3 DEF Ready, Sync, Vacated
  <2> QED BY <2>1, <2>2, <2>3
<1>18. Carried'
  <2> SUFFICES ASSUME NEW k \in Calls, NEW h \in Folders, Unfinished(k)', Moves(k)', Made(h)',
                      Under(job'[k].new, row'[h].path)
               PROVE  /\ key'[h].status = "AVAILABLE" /\ key'[h].path = Before(k, h)'
                      /\ job'[k].old \in dirs' => Before(k, h)' \in dirs'
                      /\ Arrived(k)' => row'[h].path \in dirs'
    BY DEF Carried
  <2>1. k # i
    BY <1>5 DEF Moves
  <2>2. job'[k] = job[k] /\ Unfinished(k) /\ row'[h].path = row[h].path
    BY <1>1, <1>6, <2>1
  <2>3. h # f
    BY <1>7, <2>1, <2>2 DEF Apart, In, p
  <2>4. /\ Moves(k) /\ Made(h) /\ Under(job[k].new, row[h].path)
        /\ Before(k, h)' = Before(k, h) /\ (Arrived(k)' <=> Arrived(k))
    BY <1>10, <2>2, <2>3 DEF Moves, Before, Arrived
  <2> QED BY <1>1, <2>2, <2>4 DEF Ready, Sync, Carried
<1>19. NothingInNew'
  <2>1. ASSUME NEW k \in Calls, NEW h \in Folders, Unfinished(k)', job'[k].action = "mkdir", Made(h)'
        PROVE  ~Under(job'[k].new, row'[h].path)
    <3>1. CASE h = f
      <4>1. CASE k = i
        BY <1>1, <1>5, <1>11, <3>1, <4>1 DEF p
      <4>2. CASE k # i
        BY <1>1, <1>6, <1>7, <2>1, <3>1, <4>2 DEF Apart, In, p
      <4> QED BY <4>1, <4>2
    <3>2. CASE h # f
      <4>1. CASE k = i
        BY <1>1, <1>5, <1>8, <1>10, <2>1, <3>2, <4>1 DEF Ready, Sync, NothingInNew, p
      <4>2. CASE k # i
        BY <1>1, <1>6, <1>10, <2>1, <3>2, <4>2 DEF Ready, Sync, NothingInNew
      <4> QED BY <4>1, <4>2
    <3> QED BY <3>1, <3>2
  <2>2. ASSUME NEW e \in Folders, NEW h \in Folders, Creating(e)', Made(h)'
        PROVE  ~Under(row'[e].path, row'[h].path)
    <3>1. e # f /\ Creating(e)
      BY <1>8, <2>2
    <3>2. CASE h = f
      BY <1>1, <1>9, <3>1, <3>2 DEF Apart, In, p
    <3>3. CASE h # f
      BY <1>1, <1>10, <2>2, <3>1, <3>3 DEF Ready, Sync, NothingInNew
    <3> QED BY <3>2, <3>3
  <2> QED BY <2>1, <2>2 DEF NothingInNew
<1>20. Makings'
  <2> SUFFICES ASSUME NEW j \in Calls, Making(j)'
               PROVE  LET e == call'[j].folder IN
                      /\ row'[e].state = "ACTIVE" /\ row'[e].path = call'[j].seen.path
                      /\ call'[j].step = "event" =>
                           \/ key'[e].status = "SYNCING" /\ key'[e].path = row'[e].path
                           \/ \E d \in Folders : Creating(d)' /\ Under(row'[d].path, row'[e].path)
    BY DEF Makings
  <2> DEFINE e == call[j].folder
  <2>1. j # i /\ Making(j) /\ call'[j] = call[j]
    BY <1>1, <1>2
  <2>2. e # f /\ Apart(p, row[e].path)
    BY <1>7, <2>1
  <2>3. \A d \in Folders : Under(row[d].path, row[e].path) => d # f
    BY <2>2 DEF Apart, In, p
  <2> QED BY <1>1, <1>8, <2>1, <2>3 DEF Ready, Sync, Makings
<1>21. FreeInPlace'
  <2> SUFFICES ASSUME NEW g \in Folders, Made(g)', \A k \in Calls : Unfinished(k)' => ~In(job'[k].new, row'[g].path)
               PROVE  key'[g].status = "AVAILABLE" /\ key'[g].path = row'[g].path /\ row'[g].path \in dirs'
    BY DEF FreeInPlace
  <2>1. g # f
    BY <1>1, <1>5, <1>6 DEF In, p
  <2>2. Made(g) /\ \A k \in Calls : Unfinished(k) => ~In(job[k].new, row[g].path)
    BY <1>1, <1>6, <1>10, <2>1
  <2> QED BY <1>1, <2>2 DEF Ready, Sync, FreeInPlace
<1>22. dirs' \subseteq Paths
  BY <1>1 DEF Ready, Sync
<1> QED BY <1>13, <1>14, <1>15, <1>16, <1>17, <1>18, <1>19, <1>20, <1>21, <1>22 DEF Sync

-----------------------------------------------------------------------------
(* A folder is renamed, moved or deleted.                                  *)

\* The new path is free, and neither in the old one nor above it.
LEMMA TargetFree ==
  ASSUME TypeInv, Known, Fit(row), TreeOf(row), NEW i \in Calls, Commit(i), ~torn', ~mangled'
  PROVE  LET f == call[i].folder  old == row[call[i].folder].path  new == Target(i) IN
         /\ new \in Paths /\ new # <<>> /\ ~Under(old, new) /\ ~Under(new, old)
         /\ \A h \in Folders : row[h].state = "ACTIVE" /\ In(new, row[h].path) => new = old
<1> DEFINE c == call[i]
           f == call[i].folder
           old == row[f].path
           new == Target(i)
           up == At(row, c.to)
<1>1. /\ f \in Folders /\ On(row, f) /\ c.to \in Ids /\ On(row, c.to) /\ c.to # f
      /\ At(row, f) = old /\ old \in Paths /\ up \in Paths /\ IsName(c.name)
      /\ new = Below(up, c.name) /\ ~Under(old, up)
      /\ \A g \in Folders \ {f} : On(row, g) /\ row[g].parent = c.to => row[g].name # c.name
  BY CommitMoves
<1>2. \A h \in Folders : (On(row, h) <=> row[h].state = "ACTIVE") /\ At(row, h) = row[h].path
  BY RowInFacts DEF On, At
<1> HIDE DEF c, f, old, new, up
<1>3. new \in Paths /\ new # <<>>
  BY <1>1, BelowPath
<1>4. old # up
  BY <1>1, TreeFacts DEF Ids, up
<1>5. ~Under(old, new)
  BY <1>1, <1>4, UnderBelow
<1>6. ASSUME NEW h \in Folders, On(row, h), At(row, h) = new PROVE h = f
  <2>1. /\ row[h].parent \in Ids /\ On(row, row[h].parent) /\ IsName(row[h].name)
        /\ At(row, h) = Below(At(row, row[h].parent), row[h].name)
    BY <1>6 DEF Fit, TreeOf
  <2>2. At(row, row[h].parent) \in Paths
    BY <2>1, TreeFacts
  <2>3. Below(At(row, row[h].parent), row[h].name) = Below(up, c.name)
    BY <1>1, <1>6, <2>1
  <2>4. At(row, row[h].parent) = up /\ row[h].name = c.name
    BY <1>1, <2>1, <2>2, <2>3, BelowSplits
  <2>5. row[h].parent = c.to
    BY <1>1, <2>1, <2>4, TreeFacts DEF up
  <2> QED BY <1>1, <1>6, <2>4, <2>5
<1>7. ASSUME NEW h \in Folders, On(row, h), In(new, At(row, h)) PROVE new = old
  <2>1. CASE new = At(row, h)
    BY <1>1, <1>6, <1>7, <2>1
  <2>2. CASE Under(new, At(row, h))
    <3>1. PICK g \in Folders : On(row, g) /\ At(row, g) = new
      BY <1>3, <1>7, <2>2, Descent
    <3> QED BY <1>1, <1>6, <3>1
  <2> QED BY <1>7, <2>1, <2>2 DEF In
<1>8. ~Under(new, old)
  <2>1. ASSUME Under(new, old) PROVE FALSE
    <3>1. new = old
      BY <1>1, <1>7, <2>1 DEF In
    <3> QED BY <1>3, <2>1, <3>1, UnderPrefix
  <2> QED BY <2>1
<1> QED BY <1>2, <1>3, <1>5, <1>7, <1>8 DEF f, old, new

\* A folder moves in the database: its job is to move the directory, and the folders below
\* it stay where they are until then.
LEMMA CommitSync ==
  ASSUME Ready, NEW i \in Calls, Commit(i), ~torn', ~mangled', ~crossed'
  PROVE  Sync'
<1>1. PICK f \in Folders : f = call[i].folder
  BY CommitDoes DEF Ready
<1>2. PICK new \in Paths : new = Target(i)
  BY TargetFree DEF Ready
<1>3. PICK old \in Paths : old = row[f].path
  BY <1>1, CommitMoves DEF Ready
<1>4. /\ new # <<>> /\ ~Under(old, new) /\ ~Under(new, old)
      /\ \A h \in Folders : row[h].state = "ACTIVE" /\ In(new, row[h].path) => new = old
  BY <1>1, <1>2, <1>3, TargetFree DEF Ready
<1>5. /\ row[f].state = "ACTIVE" /\ row'[f].state = "ACTIVE" /\ row'[f].path = new
      /\ \A g \in Folders \ {f} :
           /\ row'[g].state = row[g].state
           /\ row'[g].path = IF Under(old, row[g].path) THEN Rebased(row[g].path, old, new) ELSE row[g].path
  <2>1. /\ f \in Folders /\ On(row, f) /\ row'[f].state = "ACTIVE" /\ row'[f].path = Target(i)
        /\ \A g \in Folders \ {f} :
             /\ row'[g].state = row[g].state
             /\ row'[g].path = IF Under(row[f].path, row[g].path) THEN Rebased(row[g].path, row[f].path, Target(i))
                               ELSE row[g].path
    BY <1>1, CommitMoves DEF Ready
  <2>2. row[f].state = "ACTIVE"
    BY <2>1, RowInFacts DEF On
  <2> QED BY <1>2, <1>3, <2>1, <2>2
<1>6. /\ call[i].step = "commit" /\ call[i].action \in {"rename", "move"}
      /\ \A g \in Folders \ {f} : key'[g] = key[g]
      /\ key'[f] = (IF call[i].keyed THEN [status |-> "SYNCING", path |-> new] ELSE key[f])
      /\ Registers(i, f, old, new) /\ Ends(i) /\ dirs' = dirs
  BY <1>1, <1>2, <1>3, CommitDoes DEF Ready, SameKeys
<1>7. /\ job'[i].step = "waiting" /\ job'[i].action \in {"rename", "move"} /\ job'[i].folder = f
      /\ job'[i].old = old /\ job'[i].new = new
  BY <1>6 DEF Registers, HasJob
<1>8. /\ ~Unfinished(i) /\ Unfinished(i)' /\ ~Crosses(i, old, new)
      /\ \A k \in Calls \ {i} : job'[k] = job[k] /\ (Unfinished(k)' <=> Unfinished(k))
  BY <1>6, RegistersKeep
<1>9. \A k \in Calls \ {i} :
        /\ Unfinished(k) => /\ Apart(old, job[k].old) /\ Apart(old, job[k].new)
                            /\ Apart(new, job[k].old) /\ Apart(new, job[k].new)
                            /\ job[k].old \in Paths /\ job[k].new \in Paths
        /\ Making(k) => Apart(old, row[call[k].folder].path) /\ Apart(new, row[call[k].folder].path)
  BY <1>8, NotCrossed DEF Ready, Sync, JobPaths
<1>10. MakersKeep /\ SameNew
  <2>1. SameCalls(i) /\ ~Making(i) /\ ~Making(i)'
    BY <1>6, PlainTypes DEF Ends, Making
  <2> QED BY <2>1, OtherCalls, MakersNew
<1>11. ASSUME NEW e \in Folders, Creating(e)
       PROVE  /\ Apart(old, row[e].path) /\ Apart(new, row[e].path) /\ e # f
              /\ row[e].path \in Paths /\ row'[e].path = row[e].path /\ row[e].state = "ACTIVE"
  <2>1. PICK j \in Calls : Making(j) /\ call[j].folder = e
    BY <1>11 DEF Creating
  <2>2. j # i
    BY <1>6, <2>1 DEF Making
  <2>3. Apart(old, row[e].path) /\ Apart(new, row[e].path)
    BY <1>9, <2>1, <2>2
  <2>4. row[e].state = "ACTIVE"
    BY <2>1 DEF Ready, Sync, Makings
  <2>5. e # f /\ ~Under(old, row[e].path)
    BY <1>3, <2>3 DEF Apart, In
  <2> QED BY <1>5, <2>3, <2>4, <2>5, RowPaths
<1>12. Made(f) /\ Made(f)' /\ \A g \in Folders : Made(g)' <=> Made(g)
  BY <1>5, <1>10, <1>11 DEF Made, SameNew
\* The folders that move, and those that do not.
<1>13. ASSUME NEW h \in Folders, row[h].state = "ACTIVE", h # f, Under(old, row[h].path)
       PROVE  /\ row[h].path \in Paths /\ row'[h].path \in Paths /\ Under(new, row'[h].path)
              /\ row'[h].path = Rebased(row[h].path, old, new)
              /\ Rebased(row'[h].path, new, old) = row[h].path
  BY <1>5, <1>13, RowPaths, RebasedUnder, RebasedBack
<1>14. ASSUME NEW h \in Folders, row[h].state = "ACTIVE", ~In(new, row'[h].path)
       PROVE  h # f /\ row'[h].path = row[h].path
  BY <1>5, <1>13, <1>14 DEF In
<1>15. ASSUME NEW s \in Paths, Apart(new, s), NEW h \in Folders, row[h].state = "ACTIVE", In(s, row'[h].path)
       PROVE  h # f /\ row'[h].path = row[h].path
  <2>1. row[h].path \in Paths
    BY <1>15, RowPaths
  <2>2. row'[h].path \in Paths
    BY <1>5, <1>13, <1>15, <2>1
  <2> QED BY <1>14, <1>15, <2>2, ApartFacts
\* They are in place.
<1>16. ASSUME NEW h \in Folders, Made(h), In(old, row[h].path)
       PROVE  key[h].status = "AVAILABLE" /\ key[h].path = row[h].path /\ row[h].path \in dirs
  <2>1. row[h].path \in Paths
    BY <1>16, RowPaths DEF Made
  <2>2. \A k \in Calls : Unfinished(k) => ~In(job[k].new, row[h].path)
    BY <1>8, <1>9, <1>16, <2>1, ApartFacts
  <2> QED BY <1>16, <2>2 DEF Ready, Sync, FreeInPlace
<1>17. key'[f].status = "SYNCING" /\ key'[f].path = new
  <2>1. call[i].keyed
    BY <1>6 DEF Ready, Working, AllKeyed
  <2> QED BY <1>6, <2>1
<1>18. JobPaths'
  <2>1. old # <<>>
    BY <1>3, <1>5, RowPaths
  <2> QED BY <1>7, <1>8, <2>1 DEF Ready, Sync, JobPaths
<1>19. JobsApart'
  BY <1>7, <1>8, <1>9 DEF Ready, Sync, JobsApart, Apart
<1>20. JobShapes'
  BY <1>4, <1>7, <1>8 DEF Ready, Sync, JobShapes
<1>21. JobRows'
  <2> SUFFICES ASSUME NEW k \in Calls, Unfinished(k)', job'[k].action # "trash"
               PROVE  LET g == job[k].folder IN
                      (/\ Made(g) /\ row[g].path = job[k].new /\ key[g].path = job[k].new
                       /\ key[g].status = IF job[k].step = "keys" THEN "AVAILABLE" ELSE "SYNCING"
                       /\ Arrived(k) => job[k].new \in dirs)'
    BY DEF JobRows
  <2>1. CASE k = i
    <3>1. job'[k].folder = f /\ job'[k].new = new /\ job'[k].step = "waiting" /\ ~Arrived(k)'
      BY <1>7, <2>1 DEF Arrived
    <3> QED BY <1>5, <1>12, <1>17, <3>1
  <2>2. CASE k # i
    <3>1. Unfinished(k) /\ job'[k] = job[k] /\ job[k].folder \in Folders
      BY <1>8, <2>2, HaveFolders
    <3>2. PICK g \in Folders : g = job[k].folder
      BY <3>1
    <3>3. Made(g) /\ row[g].path = job[k].new /\ Apart(old, row[g].path)
      BY <1>9, <2>2, <3>1, <3>2 DEF Ready, Sync, JobRows
    <3>4. g # f /\ ~Under(old, row[g].path)
      BY <1>3, <3>3 DEF Apart, In
    <3>5. row'[g].path = row[g].path /\ key'[g] = key[g] /\ Made(g)'
      BY <1>5, <1>6, <1>12, <3>3, <3>4
    <3> QED BY <1>6, <3>1, <3>2, <3>5 DEF Ready, Sync, JobRows, Arrived
  <2> QED BY <2>1, <2>2
<1>22. Vacated'
  <2> SUFFICES ASSUME NEW k \in Calls, NEW h \in Folders, Unfinished(k)', Made(h)', In(job'[k].old, row'[h].path)
               PROVE  job'[k].old = job'[k].new
    BY DEF Vacated
  <2>1. Made(h) /\ row[h].state = "ACTIVE"
    BY <1>12 DEF Made
  <2>2. CASE k = i
    <3>1. In(old, row'[h].path)
      BY <1>7, <2>2
    <3>2. CASE In(new, row'[h].path)
      <4>1. row'[h].path \in Paths
        BY <1>5, <1>13, <2>1, RowPaths
      <4>2. ~Apart(old, new)
        BY <3>1, <3>2, <4>1, ApartFacts
      <4> QED BY <1>4, <1>7, <2>2, <4>2 DEF Apart, In
    <3>3. CASE ~In(new, row'[h].path)
      <4>1. h # f /\ row'[h].path = row[h].path
        BY <1>14, <2>1, <3>3
      <4>2. row[h].path # old
        BY <1>3, <1>5, <2>1, <4>1, RowPaths
      <4>3. Under(old, row[h].path)
        BY <3>1, <4>1, <4>2 DEF In
      <4> QED BY <1>13, <2>1, <3>3, <4>1, <4>3 DEF In
    <3> QED BY <3>2, <3>3
  <2>3. CASE k # i
    <3>1. Unfinished(k) /\ job'[k] = job[k] /\ job[k].old \in Paths /\ Apart(new, job[k].old)
      BY <1>8, <1>9, <2>3
    <3>2. row'[h].path = row[h].path
      BY <1>15, <2>1, <3>1
    <3> QED BY <2>1, <3>1, <3>2 DEF Ready, Sync, Vacated
  <2> QED BY <2>2, <2>3
<1>23. Carried'
  <2> SUFFICES ASSUME NEW k \in Calls, NEW h \in Folders, Unfinished(k)', Moves(k)', Made(h)',
                      Under(job'[k].new, row'[h].path)
               PROVE  /\ key'[h].status = "AVAILABLE" /\ key'[h].path = Before(k, h)'
                      /\ job'[k].old \in dirs' => Before(k, h)' \in dirs'
                      /\ Arrived(k)' => row'[h].path \in dirs'
    BY DEF Carried
  <2>1. Made(h) /\ row[h].state = "ACTIVE"
    BY <1>12 DEF Made
  <2>2. CASE k = i
    <3>1. Under(new, row'[h].path) /\ h # f
      <4>1. Under(new, row'[h].path)
        BY <1>7, <2>2
      <4> QED BY <1>5, <4>1, UnderPrefix
    <3>2. Under(old, row[h].path)
      <4>1. ASSUME ~Under(old, row[h].path) PROVE FALSE
        <5>1. row'[h].path = row[h].path
          BY <1>5, <3>1, <4>1
        <5>2. new = old
          BY <1>4, <2>1, <3>1, <5>1 DEF In
        <5> QED BY <3>1, <4>1, <5>1, <5>2
      <4> QED BY <4>1
    <3>3. Rebased(row'[h].path, new, old) = row[h].path
      BY <1>13, <2>1, <3>1, <3>2
    <3>4. Before(k, h)' = row[h].path
      BY <1>7, <2>2, <3>3 DEF Before
    <3>5. ~Arrived(k)'
      BY <1>7, <2>2 DEF Arrived
    <3>6. key[h].status = "AVAILABLE" /\ key[h].path = row[h].path /\ row[h].path \in dirs
      BY <1>16, <2>1, <3>2 DEF In
    <3> QED BY <1>6, <3>1, <3>4, <3>5, <3>6
  <2>3. CASE k # i
    <3>1. Unfinished(k) /\ job'[k] = job[k] /\ job[k].new \in Paths /\ Apart(new, job[k].new)
      BY <1>8, <1>9, <2>3
    <3>2. h # f /\ row'[h].path = row[h].path
      BY <1>15, <2>1, <3>1 DEF In
    <3>3. /\ Moves(k) /\ Under(job[k].new, row[h].path)
          /\ Before(k, h)' = Before(k, h) /\ (Arrived(k)' <=> Arrived(k)) /\ key'[h] = key[h]
      BY <1>6, <3>1, <3>2 DEF Moves, Before, Arrived
    <3> QED BY <1>6, <2>1, <3>1, <3>2, <3>3 DEF Ready, Sync, Carried
  <2> QED BY <2>2, <2>3
<1>24. NothingInNew'
  <2>1. ASSUME NEW k \in Calls, NEW h \in Folders, Unfinished(k)', job'[k].action = "mkdir", Made(h)',
               Under(job'[k].new, row'[h].path)
        PROVE  FALSE
    <3>1. k # i
      BY <1>7, <2>1
    <3>2. Unfinished(k) /\ job'[k] = job[k] /\ job[k].new \in Paths /\ Apart(new, job[k].new)
      BY <1>8, <1>9, <2>1, <3>1
    <3>3. Made(h) /\ row[h].state = "ACTIVE"
      BY <1>12, <2>1 DEF Made
    <3>4. row'[h].path = row[h].path
      BY <1>15, <2>1, <3>2, <3>3 DEF In
    <3> QED BY <2>1, <3>2, <3>3, <3>4 DEF Ready, Sync, NothingInNew
  <2>2. ASSUME NEW e \in Folders, NEW h \in Folders, Creating(e)', Made(h)', Under(row'[e].path, row'[h].path)
        PROVE  FALSE
    <3>1. /\ Creating(e) /\ Apart(new, row[e].path) /\ row[e].path \in Paths
          /\ row'[e].path = row[e].path
      BY <1>10, <1>11, <2>2 DEF SameNew
    <3>3. Made(h) /\ row[h].state = "ACTIVE"
      BY <1>12, <2>2 DEF Made
    <3>4. row'[h].path = row[h].path
      BY <1>15, <2>2, <3>1, <3>3 DEF In
    <3> QED BY <2>2, <3>1, <3>3, <3>4 DEF Ready, Sync, NothingInNew
  <2> QED BY <2>1, <2>2 DEF NothingInNew
<1>25. Makings'
  <2> SUFFICES ASSUME NEW j \in Calls, Making(j)'
               PROVE  LET e == call[j].folder IN
                      (/\ row[e].state = "ACTIVE" /\ row[e].path = call[j].seen.path
                       /\ call[j].step = "event" =>
                            \/ key[e].status = "SYNCING" /\ key[e].path = row[e].path
                            \/ \E d \in Folders : Creating(d) /\ Under(row[d].path, row[e].path))'
    BY DEF Makings
  <2>1. /\ Making(j) /\ call'[j].folder = call[j].folder /\ call'[j].seen = call[j].seen
        /\ call'[j].step = call[j].step
    BY <1>10 DEF MakersKeep
  <2>2. PICK e \in Folders : e = call[j].folder
    BY <2>1, HaveFolders
  <2>3. Creating(e)
    BY <2>1, <2>2 DEF Creating
  <2>4. e # f /\ row'[e].path = row[e].path /\ row'[e].state = "ACTIVE" /\ key'[e] = key[e]
    BY <1>5, <1>6, <1>11, <2>3
  <2>5. \A d \in Folders : Creating(d) => Creating(d)' /\ row'[d].path = row[d].path
    BY <1>10, <1>11 DEF SameNew
  <2>6. /\ row[e].path = call[j].seen.path
        /\ call[j].step = "event" =>
             \/ key[e].status = "SYNCING" /\ key[e].path = row[e].path
             \/ \E d \in Folders : Creating(d) /\ Under(row[d].path, row[e].path)
    BY <2>1, <2>2 DEF Ready, Sync, Makings
  <2> QED BY <2>1, <2>2, <2>4, <2>5, <2>6
<1>26. FreeInPlace'
  <2> SUFFICES ASSUME NEW g \in Folders, Made(g)', \A k \in Calls : Unfinished(k)' => ~In(job'[k].new, row'[g].path)
               PROVE  key'[g].status = "AVAILABLE" /\ key'[g].path = row'[g].path /\ row'[g].path \in dirs'
    BY DEF FreeInPlace
  <2>1. Made(g) /\ row[g].state = "ACTIVE" /\ ~In(new, row'[g].path)
    BY <1>7, <1>8, <1>12 DEF Made
  <2>2. g # f /\ row'[g].path = row[g].path
    BY <1>14, <2>1
  <2>3. \A k \in Calls : Unfinished(k) => ~In(job[k].new, row[g].path)
    BY <1>8, <2>2
  <2> QED BY <1>6, <2>1, <2>2, <2>3 DEF Ready, Sync, FreeInPlace
<1>27. dirs' \subseteq Paths
  BY <1>6 DEF Ready, Sync
<1> QED BY <1>18, <1>19, <1>20, <1>21, <1>22, <1>23, <1>24, <1>25, <1>26, <1>27 DEF Sync

\* A folder is deleted: nothing is below it, and the trash is apart from the tree.
LEMMA CommitTrashSync ==
  ASSUME Ready, NEW i \in Calls, CommitTrash(i), Fit(row'), TreeOf(row'), ~crossed'
  PROVE  Sync'
<1>1. PICK f \in Folders : f = call[i].folder
  BY CommitTrashDoes DEF Ready
<1>2. /\ call[i].step = "commit" /\ call[i].action = "trash"
      /\ (\A g \in Folders \ {f} : row'[g] = row[g]) /\ row'[f].state = "TRASHED"
      /\ (\A g \in Folders \ {f} : key'[g] = key[g]) /\ dirs' = dirs
      /\ Registers(i, f, row[f].path, Trash(i)) /\ Ends(i)
  BY <1>1, CommitTrashDoes DEF Ready, SameKeys, SameRows, Target
<1>3. row[f].state = "ACTIVE"
  BY <1>1, <1>2 DEF Ready, Known, LockHeld, Writing
<1>4. PICK old \in Paths : old = row[f].path /\ old # <<>> /\ old[1] = Slash
  BY <1>3, RowPaths
<1>5. PICK new \in Paths : new = Trash(i) /\ Apart(old, new)
  BY <1>4, TrashFar
<1>6. /\ job'[i].step = "waiting" /\ job'[i].action = "trash" /\ job'[i].folder = f
      /\ job'[i].old = old /\ job'[i].new = new
  BY <1>2, <1>4, <1>5 DEF Registers, HasJob
<1>7. /\ ~Unfinished(i) /\ Unfinished(i)' /\ ~Crosses(i, old, new)
      /\ \A k \in Calls \ {i} : job'[k] = job[k] /\ (Unfinished(k)' <=> Unfinished(k))
  BY <1>2, <1>4, <1>5, RegistersKeep
<1>8. \A k \in Calls \ {i} :
        /\ Unfinished(k) => /\ Apart(old, job[k].old) /\ Apart(old, job[k].new)
                            /\ Apart(new, job[k].old) /\ Apart(new, job[k].new)
        /\ Making(k) => Apart(old, row[call[k].folder].path)
  BY <1>7, NotCrossed
<1>9. MakersKeep /\ SameNew
  <2>1. SameCalls(i) /\ ~Making(i) /\ ~Making(i)'
    BY <1>2, PlainTypes DEF Ends, Making
  <2> QED BY <2>1, OtherCalls, MakersNew
<1>10. ~Creating(f)
  <2>1. ASSUME NEW j \in Calls, Making(j), call[j].folder = f PROVE FALSE
    <3>1. j # i
      BY <1>2, <2>1 DEF Making
    <3> QED BY <1>4, <1>8, <2>1, <3>1 DEF Apart, In
  <2> QED BY <2>1 DEF Creating
<1>11. \A h \in Folders : Made(h)' <=> Made(h) /\ h # f
  BY <1>2, <1>9 DEF Made, SameNew
<1>12. ASSUME NEW h \in Folders, Made(h)' PROVE ~In(old, row[h].path) /\ Made(h) /\ h # f /\ row'[h] = row[h]
  <2>1. Made(h) /\ h # f /\ row'[h] = row[h] /\ row[h].state = "ACTIVE" /\ row'[h].state = "ACTIVE"
    BY <1>2, <1>11, <1>12 DEF Made
  <2>2. old # row[h].path
    BY <1>3, <1>4, <2>1, RowPaths
  <2>3. ASSUME Under(old, row[h].path) PROVE FALSE
    <3>1. PICK c \in Folders : row'[c].state = "ACTIVE" /\ row'[c].path = old
      BY <1>4, <2>1, <2>3, TreePaths
    <3>2. c # f /\ row[c].state = "ACTIVE" /\ row[c].path = old
      BY <1>2, <3>1
    <3> QED BY <1>3, <1>4, <3>2, RowPaths
  <2> QED BY <2>1, <2>2, <2>3 DEF In
<1>13. JobPaths'
  BY <1>4, <1>6, <1>7 DEF Ready, Sync, JobPaths
<1>14. JobsApart'
  BY <1>6, <1>7, <1>8 DEF Ready, Sync, JobsApart, Apart
<1>15. JobShapes'
  BY <1>5, <1>6, <1>7 DEF Ready, Sync, JobShapes, Apart, In
<1>16. JobRows'
  <2> SUFFICES ASSUME NEW k \in Calls, Unfinished(k)', job'[k].action # "trash"
               PROVE  LET g == job[k].folder IN
                      (/\ Made(g) /\ row[g].path = job[k].new /\ key[g].path = job[k].new
                       /\ key[g].status = IF job[k].step = "keys" THEN "AVAILABLE" ELSE "SYNCING"
                       /\ Arrived(k) => job[k].new \in dirs)'
    BY DEF JobRows
  <2>1. k # i
    BY <1>6
  <2>2. Unfinished(k) /\ job'[k] = job[k] /\ job[k].folder \in Folders
    BY <1>7, <2>1, HaveFolders
  <2>3. PICK g \in Folders : g = job[k].folder
    BY <2>2
  <2>4. Made(g) /\ row[g].path = job[k].new /\ Apart(old, row[g].path)
    BY <1>8, <2>1, <2>2, <2>3 DEF Ready, Sync, JobRows
  <2>5. g # f
    BY <1>4, <2>4 DEF Apart, In
  <2>6. row'[g] = row[g] /\ key'[g] = key[g] /\ Made(g)'
    BY <1>2, <1>11, <2>4, <2>5
  <2> QED BY <1>2, <2>2, <2>3, <2>6 DEF Ready, Sync, JobRows, Arrived
<1>17. Vacated'
  BY <1>6, <1>7, <1>12 DEF Ready, Sync, Vacated
<1>18. Carried'
  <2> SUFFICES ASSUME NEW k \in Calls, NEW h \in Folders, Unfinished(k)', Moves(k)', Made(h)',
                      Under(job'[k].new, row'[h].path)
               PROVE  /\ key'[h].status = "AVAILABLE" /\ key'[h].path = Before(k, h)'
                      /\ job'[k].old \in dirs' => Before(k, h)' \in dirs'
                      /\ Arrived(k)' => row'[h].path \in dirs'
    BY DEF Carried
  <2>1. k # i
    BY <1>6 DEF Moves
  <2>2. job'[k] = job[k] /\ Unfinished(k)
    BY <1>7, <2>1
  <2>3. Made(h) /\ row'[h] = row[h] /\ key'[h] = key[h]
    BY <1>2, <1>12
  <2>4. Moves(k) /\ Before(k, h)' = Before(k, h) /\ (Arrived(k)' <=> Arrived(k))
    BY <2>2, <2>3 DEF Moves, Before, Arrived
  <2> QED BY <1>2, <2>2, <2>3, <2>4 DEF Ready, Sync, Carried
<1>19. ASSUME NEW e \in Folders, Creating(e) PROVE e # f /\ row'[e] = row[e] /\ key'[e] = key[e] /\ Creating(e)'
  BY <1>2, <1>9, <1>10, <1>19 DEF SameNew
<1>20. NothingInNew'
  <2>1. \A k \in Calls, h \in Folders :
          Unfinished(k)' /\ job'[k].action = "mkdir" /\ Made(h)' => ~Under(job'[k].new, row'[h].path)
    BY <1>6, <1>7, <1>12 DEF Ready, Sync, NothingInNew
  <2>2. \A e \in Folders, h \in Folders : Creating(e)' /\ Made(h)' => ~Under(row'[e].path, row'[h].path)
    BY <1>9, <1>12, <1>19 DEF Ready, Sync, NothingInNew, SameNew
  <2> QED BY <2>1, <2>2 DEF NothingInNew
<1>21. Makings'
  <2> SUFFICES ASSUME NEW j \in Calls, Making(j)'
               PROVE  LET e == call[j].folder IN
                      (/\ row[e].state = "ACTIVE" /\ row[e].path = call[j].seen.path
                       /\ call[j].step = "event" =>
                            \/ key[e].status = "SYNCING" /\ key[e].path = row[e].path
                            \/ \E d \in Folders : Creating(d) /\ Under(row[d].path, row[e].path))'
    BY DEF Makings
  <2>1. /\ Making(j) /\ call'[j].folder = call[j].folder /\ call'[j].seen = call[j].seen
        /\ call'[j].step = call[j].step
    BY <1>9 DEF MakersKeep
  <2>2. PICK e \in Folders : e = call[j].folder
    BY <2>1, HaveFolders
  <2>3. Creating(e)
    BY <2>1, <2>2 DEF Creating
  <2>4. /\ row[e].state = "ACTIVE" /\ row[e].path = call[j].seen.path
        /\ call[j].step = "event" =>
             \/ key[e].status = "SYNCING" /\ key[e].path = row[e].path
             \/ \E d \in Folders : Creating(d) /\ Under(row[d].path, row[e].path)
    BY <2>1, <2>2 DEF Ready, Sync, Makings
  <2> QED BY <1>19, <2>1, <2>2, <2>3, <2>4
<1>22. FreeInPlace'
  <2> SUFFICES ASSUME NEW g \in Folders, Made(g)', \A k \in Calls : Unfinished(k)' => ~In(job'[k].new, row'[g].path)
               PROVE  key'[g].status = "AVAILABLE" /\ key'[g].path = row'[g].path /\ row'[g].path \in dirs'
    BY DEF FreeInPlace
  <2>1. Made(g) /\ row'[g] = row[g] /\ key'[g] = key[g]
    BY <1>2, <1>12
  <2>2. \A k \in Calls : Unfinished(k) => ~In(job[k].new, row[g].path)
    BY <1>7, <2>1
  <2> QED BY <1>2, <2>1, <2>2 DEF Ready, Sync, FreeInPlace
<1>23. dirs' \subseteq Paths
  BY <1>2 DEF Ready, Sync
<1> QED BY <1>13, <1>14, <1>15, <1>16, <1>17, <1>18, <1>20, <1>21, <1>22, <1>23 DEF Sync

-----------------------------------------------------------------------------
(* The worker.                                                             *)

\* The parts of Sync that a step on the NAS may disturb.
LEMMA NasFrame ==
  ASSUME Ready, NEW i \in Calls, job[i].step = "nas", Steps(i, "save"), UNCHANGED <<row, key, call>>,
         dirs' \subseteq Paths, job[i].new \in dirs', JobRows', Carried', FreeInPlace'
  PROVE  Sync'
<1>1. Unfinished(i)
  BY DEF Unfinished
<1>2. JobsKeep /\ job'[i].step = "save" /\ \A k \in Calls \ {i} : job'[k] = job[k]
  BY <1>1, StepsKeep
<1>3. \A k \in Calls : Unfinished(k)' => job'[k].step # "status"
  BY <1>2 DEF Ready, Sync, JobShapes, JobsKeep
<1>4. MakersKeep /\ SameNew
  BY NoCalls, MakersNew
<1>5. JobPaths' /\ JobsApart' /\ JobShapes' /\ Vacated' /\ NothingInNew'
  BY <1>2, <1>3, <1>4, ShapesKeep DEF Ready
<1>6. Makings'
  BY <1>4, MakingsKeep
<1> QED BY <1>5, <1>6 DEF Sync

\* The rows of the folders of jobs, when directories change.
LEMMA NasRows ==
  ASSUME Ready, NEW i \in Calls, job[i].step = "nas", Steps(i, "save"), UNCHANGED <<row, key, call>>,
         job[i].new \in dirs', \A k \in Calls \ {i} : Unfinished(k) /\ job[k].new \in dirs => job[k].new \in dirs'
  PROVE  JobRows'
<1>1. Unfinished(i)
  BY DEF Unfinished
<1>2. JobsKeep /\ job'[i].step = "save" /\ \A k \in Calls \ {i} : job'[k] = job[k]
  BY <1>1, StepsKeep
<1> SUFFICES ASSUME NEW k \in Calls, Unfinished(k)', job'[k].action # "trash"
             PROVE  LET g == job[k].folder IN
                    (/\ Made(g) /\ row[g].path = job[k].new /\ key[g].path = job[k].new
                     /\ key[g].status = IF job[k].step = "keys" THEN "AVAILABLE" ELSE "SYNCING"
                     /\ Arrived(k) => job[k].new \in dirs)'
  BY DEF JobRows
<1>3. /\ Unfinished(k) /\ job'[k].action = job[k].action /\ job'[k].folder = job[k].folder
      /\ job'[k].new = job[k].new
  BY <1>2 DEF JobsKeep
<1>4. PICK g \in Folders : g = job[k].folder
  BY <1>3, HaveFolders
<1>5. /\ Made(g) /\ row[g].path = job[k].new /\ key[g].path = job[k].new
      /\ key[g].status = IF job[k].step = "keys" THEN "AVAILABLE" ELSE "SYNCING"
      /\ Arrived(k) => job[k].new \in dirs
  BY <1>3, <1>4 DEF Ready, Sync, JobRows
<1>6. (job'[k].step = "keys" <=> job[k].step = "keys") /\ (Arrived(k)' => job[k].new \in dirs')
  BY <1>2, <1>3, <1>5 DEF Arrived
<1>7. Made(g)'
  BY <1>5, NoCalls, MakersNew, MadeKeeps
<1> QED BY <1>3, <1>4, <1>5, <1>6, <1>7

\* What mkdir adds is not where a job moves a directory from.
LEMMA MkdirSync ==
  ASSUME Ready, NEW i \in Calls, job[i].step = "nas", Steps(i, "save"), UNCHANGED <<row, key, call>>,
         job[i].action = "mkdir", dirs' = dirs \cup Parents(job[i].new) \cup {job[i].new}
  PROVE  Sync'
<1>1. Unfinished(i)
  BY DEF Unfinished
<1>2. /\ JobsKeep /\ job'[i].step = "save" /\ job'[i].action = "mkdir"
      /\ \A k \in Calls \ {i} : job'[k] = job[k] /\ (Unfinished(k)' <=> Unfinished(k))
  BY <1>1, StepsKeep DEF Unfinished, Steps
<1>3. job[i].new \in Paths
  BY <1>1 DEF Ready, Sync, JobPaths
<1>4. dirs' \subseteq Paths
  BY <1>3, ParentsFacts DEF Ready, Sync
<1>5. JobRows'
  BY NasRows
<1>6. Carried'
  <2> SUFFICES ASSUME NEW k \in Calls, NEW h \in Folders, Unfinished(k)', Moves(k)', Made(h)',
                      Under(job'[k].new, row'[h].path)
               PROVE  /\ key'[h].status = "AVAILABLE" /\ key'[h].path = Before(k, h)'
                      /\ job'[k].old \in dirs' => Before(k, h)' \in dirs'
                      /\ Arrived(k)' => row'[h].path \in dirs'
    BY DEF Carried
  <2>1. k # i
    BY <1>2 DEF Moves
  <2>2. Unfinished(k) /\ job'[k] = job[k]
    BY <1>2, <2>1
  <2>3. /\ Moves(k) /\ Made(h) /\ Under(job[k].new, row[h].path)
        /\ Before(k, h)' = Before(k, h) /\ (Arrived(k)' <=> Arrived(k))
    BY <2>2, NoCalls, MakersNew, MadeKeeps DEF Moves, Before, Arrived
  <2>4. Apart(job[k].old, job[i].new)
    BY <1>1, <2>1, <2>2 DEF Ready, Sync, JobsApart
  <2>5. job[k].old \in dirs' => job[k].old \in dirs
    BY <1>3, <2>4, ParentsFacts DEF Apart, In
  <2> QED BY <2>2, <2>3, <2>5 DEF Ready, Sync, Carried
<1>7. FreeInPlace'
  <2> SUFFICES ASSUME NEW g \in Folders, Made(g)', \A k \in Calls : Unfinished(k)' => ~In(job'[k].new, row'[g].path)
               PROVE  key'[g].status = "AVAILABLE" /\ key'[g].path = row'[g].path /\ row'[g].path \in dirs'
    BY DEF FreeInPlace
  <2>1. Made(g)
    BY NoCalls, MakersNew, MadeKeeps
  <2>2. \A k \in Calls : Unfinished(k) => ~In(job[k].new, row[g].path)
    BY <1>1, StepsKeep DEF JobsKeep
  <2> QED BY <2>1, <2>2 DEF Ready, Sync, FreeInPlace
<1> QED BY <1>4, <1>5, <1>6, <1>7, NasFrame

\* The directory moves with what is below it, and nothing else does.
LEMMA MovedSync ==
  ASSUME Ready, NEW i \in Calls, job[i].step = "nas", Steps(i, "save"), UNCHANGED <<row, key, call>>,
         job[i].old \in dirs, dirs' = Moved(i)
  PROVE  Sync'
<1> DEFINE old == job[i].old
           new == job[i].new
<1>1. Unfinished(i)
  BY DEF Unfinished
<1>2. JobsKeep /\ \A k \in Calls \ {i} : job'[k] = job[k]
  BY <1>1, StepsKeep
<1>3. old \in Paths /\ new \in Paths /\ dirs \subseteq Paths /\ ~Under(old, new) /\ ~Under(new, old)
  BY <1>1 DEF Ready, Sync, JobPaths, JobShapes
<1>4. \A k \in Calls \ {i} : Unfinished(k) =>
        /\ Apart(old, job[k].old) /\ Apart(old, job[k].new) /\ Apart(new, job[k].old)
        /\ job[k].old \in Paths /\ job[k].new \in Paths
  BY <1>1 DEF Ready, Sync, JobsApart, JobPaths, Apart
<1>5. dirs' = Parents(new) \cup {IF d = old \/ Under(old, d) THEN Rebased(d, old, new) ELSE d : d \in dirs}
  BY DEF Moved
<1>6. old \in dirs
  OBVIOUS
<1> HIDE DEF old, new
<1>7. ASSUME NEW d \in dirs, Under(old, d) PROVE Rebased(d, old, new) \in dirs'
  BY <1>5, <1>7
<1>8. ASSUME NEW d \in dirs, ~In(old, d) PROVE d \in dirs'
  BY <1>5, <1>8 DEF In
<1>9. new \in dirs'
  <2>1. Rebased(old, old, new) = new
    BY <1>3, RebasedSelf
  <2> QED BY <1>5, <1>6, <2>1
<1>10. ASSUME NEW d \in dirs' PROVE d \in Paths /\ (Under(d, new) \/ In(new, d) \/ (d \in dirs /\ ~In(old, d)))
  <2>1. CASE d \in Parents(new)
    BY <1>3, <2>1, ParentsFacts
  <2>2. CASE d \notin Parents(new)
    <3>1. PICK b \in dirs : d = IF b = old \/ Under(old, b) THEN Rebased(b, old, new) ELSE b
      BY <1>5, <2>2
    <3>2. CASE b = old
      BY <1>3, <3>1, <3>2, RebasedSelf DEF In
    <3>3. CASE Under(old, b)
      BY <1>3, <3>1, <3>3, RebasedUnder DEF In
    <3>4. CASE b # old /\ ~Under(old, b)
      BY <1>3, <3>1, <3>4 DEF In
    <3> QED BY <3>2, <3>3, <3>4
  <2> QED BY <2>1, <2>2
<1>11. dirs' \subseteq Paths
  BY <1>10
<1>12. JobRows'
  <2>1. \A k \in Calls \ {i} : Unfinished(k) /\ job[k].new \in dirs => job[k].new \in dirs'
    BY <1>4, <1>8 DEF Apart
  <2> QED BY <1>9, <2>1, NasRows DEF new
<1>13. Carried'
  <2> SUFFICES ASSUME NEW k \in Calls, NEW h \in Folders, Unfinished(k)', Moves(k)', Made(h)',
                      Under(job'[k].new, row'[h].path)
               PROVE  /\ key'[h].status = "AVAILABLE" /\ key'[h].path = Before(k, h)'
                      /\ job'[k].old \in dirs' => Before(k, h)' \in dirs'
                      /\ Arrived(k)' => row'[h].path \in dirs'
    BY DEF Carried
  <2>1. /\ Unfinished(k) /\ Moves(k) /\ Made(h) /\ Under(job[k].new, row[h].path)
        /\ Before(k, h)' = Before(k, h) /\ job'[k].old = job[k].old /\ job'[k].new = job[k].new
    BY <1>2, NoCalls, MakersNew, MadeKeeps DEF Moves, Before, JobsKeep
  <2>2. /\ key[h].status = "AVAILABLE" /\ key[h].path = Before(k, h)
        /\ job[k].old \in dirs => Before(k, h) \in dirs
        /\ Arrived(k) => row[h].path \in dirs
    BY <2>1 DEF Ready, Sync, Carried
  <2>3. row[h].path \in Paths
    BY <2>1, RowPaths DEF Made
  <2>4. CASE k = i
    <3> DEFINE b == Rebased(row[h].path, new, old)
    <3>1. Before(k, h) = b /\ Under(new, row[h].path) /\ job[k].old = old
      BY <2>1, <2>4 DEF Before, old, new
    <3>2. b \in dirs
      BY <1>6, <2>2, <2>4, <3>1 DEF old
    <3>3. Under(old, b) /\ Rebased(b, old, new) = row[h].path
      BY <1>3, <2>3, <3>1, RebasedUnder, RebasedBack
    <3>4. row[h].path \in dirs'
      BY <1>7, <3>2, <3>3
    <3>5. ASSUME old \in dirs' PROVE b \in dirs'
      <4>1. old = new
        BY <1>3, <1>10, <3>5 DEF In
      <4>2. b = row[h].path
        BY <1>3, <2>3, <3>1, <4>1, RebasedSelf
      <4> QED BY <3>4, <4>2
    <3> QED BY <2>1, <2>2, <3>1, <3>4, <3>5
  <2>5. CASE k # i
    <3>1. job'[k] = job[k] /\ (Arrived(k)' <=> Arrived(k))
      BY <1>2, <2>5 DEF Arrived
    <3>2. /\ Apart(old, job[k].old) /\ Apart(old, job[k].new) /\ Apart(new, job[k].old)
          /\ job[k].old \in Paths /\ job[k].new \in Paths
      BY <1>4, <2>1, <2>5
    <3>3. Before(k, h) \in Paths /\ Under(job[k].old, Before(k, h))
      BY <2>1, <2>3, <3>2, RebasedUnder DEF Before
    <3>4. job[k].old \in dirs' => job[k].old \in dirs
      BY <1>10, <3>2 DEF Apart, In
    <3>5. ~In(old, Before(k, h)) /\ ~In(old, row[h].path)
      BY <1>3, <2>1, <2>3, <3>2, <3>3, ApartFacts DEF In
    <3> QED BY <1>8, <2>1, <2>2, <3>1, <3>4, <3>5
  <2> QED BY <2>4, <2>5
<1>14. FreeInPlace'
  <2> SUFFICES ASSUME NEW g \in Folders, Made(g)', \A k \in Calls : Unfinished(k)' => ~In(job'[k].new, row'[g].path)
               PROVE  key'[g].status = "AVAILABLE" /\ key'[g].path = row'[g].path /\ row'[g].path \in dirs'
    BY DEF FreeInPlace
  <2>1. Made(g)
    BY NoCalls, MakersNew, MadeKeeps
  <2>2. \A k \in Calls : Unfinished(k) => ~In(job[k].new, row[g].path)
    BY <1>1, StepsKeep DEF JobsKeep
  <2>3. key[g].status = "AVAILABLE" /\ key[g].path = row[g].path /\ row[g].path \in dirs
    BY <2>1, <2>2 DEF Ready, Sync, FreeInPlace
  <2>4. ~In(old, row[g].path)
    BY <1>1, <2>1, <2>2 DEF Ready, Sync, Vacated, old
  <2> QED BY <1>8, <2>3, <2>4
<1> QED BY <1>9, <1>11, <1>12, <1>13, <1>14, NasFrame DEF new

\* A job makes or moves its directory, or throws.
LEMMA NasStepSync ==
  ASSUME Ready, NEW i \in Calls, NasStep(i)
  PROVE  Sync'
<1>1. job[i].step = "nas" /\ UNCHANGED <<row, key, call>> /\ Unfinished(i)
  BY NasStepDoes DEF Ready, Unfinished
<1>2. CASE dirs' = dirs /\ (Steps(i, "waiting") \/ Steps(i, "failed"))
  BY <1>1, <1>2, StepSync
<1>3. CASE job[i].action = "mkdir" /\ dirs' = dirs \cup Parents(job[i].new) \cup {job[i].new} /\ Steps(i, "save")
  BY <1>1, <1>3, MkdirSync
<1>4. CASE job[i].old \in dirs /\ dirs' = Moved(i) /\ Steps(i, "save")
  BY <1>1, <1>4, MovedSync
<1> QED BY <1>2, <1>3, <1>4, NasStepDoes DEF Ready

\* The storage row of the folder is saved.
LEMMA SaveKeySync ==
  ASSUME Ready, NEW i \in Calls, SaveKey(i)
  PROVE  Sync'
<1>1. PICK f \in Folders : f = job[i].folder
  BY SaveKeyDoes DEF Ready
<1>2. /\ job[i].step = "save" /\ Unfinished(i)
      /\ (\A g \in Folders \ {f} : key'[g] = key[g])
      /\ key'[f] = [status |-> "AVAILABLE", path |-> job[i].new]
      /\ \/ Moves(i) /\ Steps(i, "keys")
         \/ ~Moves(i) /\ JobEnds(i)
      /\ UNCHANGED <<row, dirs, call>>
  BY <1>1, SaveKeyDoes DEF Ready, SameKeys, Unfinished, Moves
<1>3. /\ JobsKeep /\ (\A k \in Calls \ {i} : job'[k] = job[k] /\ (Unfinished(k)' <=> Unfinished(k)))
      /\ IF Moves(i) THEN job'[i].step = "keys" ELSE ~Unfinished(i)'
  BY <1>2, StepsKeep, JobEndsKeep DEF Unfinished
<1>4. \A k \in Calls : Unfinished(k) => job[k].step # "status"
  BY DEF Ready, Sync, JobShapes
<1>5. MakersKeep /\ SameNew /\ \A g : (Made(g)' <=> Made(g)) /\ (Creating(g)' <=> Creating(g))
  BY <1>2, NoCalls, MakersNew, MadeKeeps
<1>6. CASE job[i].action = "trash"
  <2>1. row[f].state = "TRASHED" /\ ~Moves(i)
    BY <1>1, <1>2, <1>6 DEF Ready, Working, JobsFit, Moves
  <2>2. \A e \in Folders : Creating(e) => row[e].state = "ACTIVE"
    BY DEF Creating, Ready, Sync, Makings
  <2>3. \A e \in Folders : Creating(e) \/ Made(e) => key'[e] = key[e]
    BY <1>2, <2>1, <2>2 DEF Made
  <2>4. Makings'
    BY <1>2, <1>5, <2>3, MakingsKeep
  <2>5. \A h \in Folders : Made(h) => ~In(job[i].new, row[h].path)
    BY <1>2, <1>6, NotInTrash DEF Made
  <2>6. \A k \in Calls : Unfinished(k)' =>
           /\ job'[k].step # "status" /\ (job'[k].step = "keys" <=> job[k].step = "keys")
           /\ job'[k].step = "save" => job[k].step = "save"
    BY <1>3, <1>4, <2>1
  <2>7. \A k \in Calls, h \in Folders :
          Unfinished(k) /\ ~Unfinished(k)' /\ Made(h) => ~In(job[k].new, row[h].path)
    BY <1>3, <2>5
  <2> QED BY <1>2, <1>3, <1>5, <2>3, <2>4, <2>6, <2>7, Framed
<1>7. CASE job[i].action # "trash"
  <2>1. PICK new \in Paths : new = job[i].new
    BY <1>2 DEF Ready, Sync, JobPaths
  <2>2. Made(f) /\ row[f].path = new /\ new \in dirs /\ ~Creating(f)
    BY <1>1, <1>2, <1>7, <2>1 DEF Ready, Sync, JobRows, Arrived, Made
  <2>3. \A k \in Calls \ {i} : Unfinished(k) => Apart(new, job[k].new)
    BY <1>2, <2>1 DEF Ready, Sync, JobsApart
  <2>4. JobPaths' /\ JobsApart' /\ JobShapes' /\ Vacated' /\ NothingInNew'
    <3>1. \A k \in Calls : Unfinished(k)' => job'[k].step # "status"
      BY <1>3, <1>4
    <3> QED BY <1>2, <1>3, <1>5, <3>1, ShapesKeep DEF Ready
  <2>5. Makings'
    <3>1. \A e \in Folders : Creating(e) => key'[e] = key[e]
      BY <1>2, <2>2
    <3> QED BY <1>2, <1>5, <3>1, MakingsKeep
  <2>6. JobRows'
    <3> SUFFICES ASSUME NEW k \in Calls, Unfinished(k)', job'[k].action # "trash"
                 PROVE  LET g == job[k].folder IN
                        (/\ Made(g) /\ row[g].path = job[k].new /\ key[g].path = job[k].new
                         /\ key[g].status = IF job[k].step = "keys" THEN "AVAILABLE" ELSE "SYNCING"
                         /\ Arrived(k) => job[k].new \in dirs)'
      BY DEF JobRows
    <3>1. Unfinished(k) /\ job'[k].folder = job[k].folder /\ job'[k].new = job[k].new
      BY <1>3 DEF JobsKeep
    <3>2. CASE k = i
      <4>1. job'[k].folder = f /\ job'[k].new = new /\ job'[k].step = "keys"
        BY <1>1, <1>3, <2>1, <3>1, <3>2
      <4> QED BY <1>2, <1>5, <2>1, <2>2, <4>1
    <3>3. CASE k # i
      <4>1. job'[k] = job[k] /\ Apart(new, job[k].new)
        BY <1>3, <2>3, <3>1, <3>3
      <4>2. PICK g \in Folders : g = job[k].folder
        BY <3>1, HaveFolders
      <4>3. /\ Made(g) /\ row[g].path = job[k].new /\ key[g].path = job[k].new
            /\ key[g].status = IF job[k].step = "keys" THEN "AVAILABLE" ELSE "SYNCING"
            /\ Arrived(k) => job[k].new \in dirs
        BY <3>1, <4>1, <4>2 DEF Ready, Sync, JobRows
      <4>4. key'[g] = key[g] /\ Made(g)' /\ (Arrived(k)' <=> Arrived(k))
        BY <1>2, <1>5, <2>2, <4>1, <4>3 DEF Apart, In, Arrived
      <4> QED BY <1>2, <4>1, <4>2, <4>3, <4>4
    <3> QED BY <3>2, <3>3
  <2>7. Carried'
    <3> SUFFICES ASSUME NEW k \in Calls, NEW h \in Folders, Unfinished(k)', Moves(k)', Made(h)',
                        Under(job'[k].new, row'[h].path)
                 PROVE  /\ key'[h].status = "AVAILABLE" /\ key'[h].path = Before(k, h)'
                        /\ job'[k].old \in dirs' => Before(k, h)' \in dirs'
                        /\ Arrived(k)' => row'[h].path \in dirs'
      BY DEF Carried
    <3>1. /\ Unfinished(k) /\ Moves(k) /\ Made(h) /\ Under(job[k].new, row[h].path)
          /\ Before(k, h)' = Before(k, h) /\ job'[k].old = job[k].old
      BY <1>2, <1>3, <1>5 DEF JobsKeep, Moves, Before
    <3>2. Arrived(k)' => Arrived(k)
      BY <1>2, <1>3 DEF Arrived
    <3>3. h # f
      BY <2>1, <2>2, <2>3, <3>1, UnderPrefix DEF Apart, In
    <3>4. /\ key[h].status = "AVAILABLE" /\ key[h].path = Before(k, h)
          /\ job[k].old \in dirs => Before(k, h) \in dirs
          /\ Arrived(k) => row[h].path \in dirs
      BY <3>1 DEF Ready, Sync, Carried
    <3>5. key'[h] = key[h]
      BY <1>2, <3>3
    <3> QED BY <1>2, <3>1, <3>2, <3>4, <3>5
  <2>8. FreeInPlace'
    <3> SUFFICES ASSUME NEW g \in Folders, Made(g)', \A k \in Calls : Unfinished(k)' => ~In(job'[k].new, row'[g].path)
                 PROVE  key'[g].status = "AVAILABLE" /\ key'[g].path = row'[g].path /\ row'[g].path \in dirs'
      BY DEF FreeInPlace
    <3>1. CASE g = f
      BY <1>2, <2>1, <2>2, <3>1
    <3>2. CASE g # f
      <4>1. Made(g) /\ \A k \in Calls \ {i} : Unfinished(k) => ~In(job[k].new, row[g].path)
        BY <1>2, <1>3, <1>5
      <4>2. ~In(new, row[g].path)
        <5>1. CASE Moves(i)
          BY <1>2, <1>3, <2>1, <5>1 DEF Unfinished, JobsKeep
        <5>2. CASE ~Moves(i)
          <6>1. job[i].action = "mkdir"
            BY <1>2, <1>7, <5>2 DEF Ready, Working, JobsFit, Moves
          <6>2. ~Under(new, row[g].path)
            BY <1>2, <2>1, <4>1, <6>1 DEF Ready, Sync, NothingInNew
          <6>3. new # row[g].path
            BY <2>2, <3>2, <4>1, RowPaths DEF Made
          <6> QED BY <6>2, <6>3 DEF In
        <5> QED BY <5>1, <5>2
      <4>3. \A k \in Calls : Unfinished(k) => ~In(job[k].new, row[g].path)
        BY <2>1, <4>1, <4>2
      <4> QED BY <1>2, <3>2, <4>1, <4>3 DEF Ready, Sync, FreeInPlace
    <3> QED BY <3>1, <3>2
  <2> QED BY <1>2, <2>4, <2>5, <2>6, <2>7, <2>8 DEF Ready, Sync
<1> QED BY <1>6, <1>7

\* The storage rows of the folders below follow.
LEMMA SaveKeysBelowSync ==
  ASSUME Ready, NEW i \in Calls, SaveKeysBelow(i), ~mangled'
  PROVE  Sync'
<1>1. PICK f \in Folders : f = job[i].folder
  BY SaveKeysBelowDoes DEF Ready
<1>2. job[i].step = "keys" /\ Unfinished(i) /\ Moves(i) /\ job[i].action # "trash"
  <2>1. job[i].step = "keys"
    BY SaveKeysBelowDoes DEF Ready
  <2> QED BY <2>1 DEF Ready, Working, JobsFit, Unfinished, Moves
<1>3. PICK old \in Paths : old = job[i].old /\ old # <<>>
  BY <1>2 DEF Ready, Sync, JobPaths
<1>4. PICK new \in Paths : new = job[i].new
  BY <1>2 DEF Ready, Sync, JobPaths
<1>5. /\ \A g \in Folders :
           /\ ~Under(old, key[g].path) => key'[g] = key[g]
           /\ Under(old, key[g].path) =>
                key'[g] = [status |-> key[g].status, path |-> Rebased(key[g].path, old, new)]
      /\ JobEnds(i) /\ UNCHANGED <<row, dirs, call>>
  BY <1>3, <1>4, SaveKeysBelowDoes DEF Ready
<1>6. /\ JobsKeep /\ ~Unfinished(i)'
      /\ \A k \in Calls \ {i} : job'[k] = job[k] /\ (Unfinished(k)' <=> Unfinished(k))
  BY <1>5, JobEndsKeep
<1>7. MakersKeep /\ SameNew /\ \A g : (Made(g)' <=> Made(g)) /\ (Creating(g)' <=> Creating(g))
  BY <1>5, NoCalls, MakersNew, MadeKeeps
<1>8. /\ ~Under(old, new)
      /\ Made(f) /\ row[f].path = new /\ key[f].path = new /\ key[f].status = "AVAILABLE" /\ new \in dirs
  BY <1>1, <1>2, <1>3, <1>4 DEF Ready, Sync, JobShapes, JobRows, Arrived
<1>9. \A h \in Folders : Made(h) /\ In(old, row[h].path) => old = new
  BY <1>2, <1>3, <1>4 DEF Ready, Sync, Vacated
<1>10. \A k \in Calls \ {i} : Unfinished(k) =>
         Apart(old, job[k].old) /\ Apart(old, job[k].new) /\ job[k].old \in Paths /\ job[k].new \in Paths
  BY <1>2, <1>3 DEF Ready, Sync, JobsApart, JobPaths
<1>11. JobPaths' /\ JobsApart' /\ JobShapes' /\ Vacated' /\ NothingInNew'
  <2>1. \A k \in Calls : Unfinished(k)' => job'[k].step # "status"
    BY <1>6 DEF Ready, Sync, JobShapes
  <2> QED BY <1>5, <1>6, <1>7, <2>1, ShapesKeep DEF Ready
<1>12. JobRows'
  <2> SUFFICES ASSUME NEW k \in Calls, Unfinished(k)', job'[k].action # "trash"
               PROVE  LET g == job[k].folder IN
                      (/\ Made(g) /\ row[g].path = job[k].new /\ key[g].path = job[k].new
                       /\ key[g].status = IF job[k].step = "keys" THEN "AVAILABLE" ELSE "SYNCING"
                       /\ Arrived(k) => job[k].new \in dirs)'
    BY DEF JobRows
  <2>1. k # i /\ Unfinished(k) /\ job'[k] = job[k] /\ Apart(old, job[k].new)
    BY <1>6, <1>10
  <2>2. PICK g \in Folders : g = job[k].folder
    BY <2>1, HaveFolders
  <2>3. /\ Made(g) /\ row[g].path = job[k].new /\ key[g].path = job[k].new
        /\ key[g].status = IF job[k].step = "keys" THEN "AVAILABLE" ELSE "SYNCING"
        /\ Arrived(k) => job[k].new \in dirs
    BY <2>1, <2>2 DEF Ready, Sync, JobRows
  <2>4. key'[g] = key[g] /\ Made(g)' /\ (Arrived(k)' <=> Arrived(k))
    BY <1>5, <1>7, <2>1, <2>3 DEF Apart, In, Arrived
  <2> QED BY <1>5, <2>1, <2>2, <2>3, <2>4
<1>13. Carried'
  <2> SUFFICES ASSUME NEW k \in Calls, NEW h \in Folders, Unfinished(k)', Moves(k)', Made(h)',
                      Under(job'[k].new, row'[h].path)
               PROVE  /\ key'[h].status = "AVAILABLE" /\ key'[h].path = Before(k, h)'
                      /\ job'[k].old \in dirs' => Before(k, h)' \in dirs'
                      /\ Arrived(k)' => row'[h].path \in dirs'
    BY DEF Carried
  <2>1. /\ k # i /\ Unfinished(k) /\ job'[k] = job[k] /\ Apart(old, job[k].old)
        /\ job[k].old \in Paths /\ job[k].new \in Paths
    BY <1>6, <1>10
  <2>2. /\ Moves(k) /\ Made(h) /\ Under(job[k].new, row[h].path)
        /\ Before(k, h)' = Before(k, h) /\ (Arrived(k)' <=> Arrived(k))
    BY <1>5, <1>7, <2>1 DEF Moves, Before, Arrived
  <2>3. /\ key[h].status = "AVAILABLE" /\ key[h].path = Before(k, h)
        /\ job[k].old \in dirs => Before(k, h) \in dirs
        /\ Arrived(k) => row[h].path \in dirs
    BY <2>1, <2>2 DEF Ready, Sync, Carried
  <2>4. row[h].path \in Paths
    BY <2>2, RowPaths DEF Made
  <2>5. Before(k, h) \in Paths /\ Under(job[k].old, Before(k, h))
    BY <2>1, <2>2, <2>4, RebasedUnder DEF Before
  <2>6. ~Under(old, key[h].path)
    BY <2>1, <2>3, <2>5, ApartFacts DEF In
  <2> QED BY <1>5, <2>1, <2>2, <2>3, <2>6
<1>14. Makings'
  <2> SUFFICES ASSUME NEW j \in Calls, Making(j)'
               PROVE  LET e == call[j].folder IN
                      (/\ row[e].state = "ACTIVE" /\ row[e].path = call[j].seen.path
                       /\ call[j].step = "event" =>
                            \/ key[e].status = "SYNCING" /\ key[e].path = row[e].path
                            \/ \E d \in Folders : Creating(d) /\ Under(row[d].path, row[e].path))'
    BY DEF Makings
  <2>1. Making(j)
    BY <1>7 DEF MakersKeep
  <2>2. PICK e \in Folders : e = call[j].folder
    BY <2>1, HaveFolders
  <2>3. /\ row[e].state = "ACTIVE" /\ row[e].path = call[j].seen.path
        /\ call[j].step = "event" =>
             \/ key[e].status = "SYNCING" /\ key[e].path = row[e].path
             \/ \E d \in Folders : Creating(d) /\ Under(row[d].path, row[e].path)
    BY <2>1, <2>2 DEF Ready, Sync, Makings
  <2>4. CASE \E d \in Folders : Creating(d) /\ Under(row[d].path, row[e].path)
    BY <1>5, <1>7, <2>2, <2>3, <2>4
  <2>5. CASE key[e].status = "SYNCING" /\ key[e].path = row[e].path /\ ~Under(old, row[e].path)
    BY <1>5, <2>2, <2>3, <2>5
  <2>6. CASE key[e].status = "SYNCING" /\ key[e].path = row[e].path /\ Under(old, row[e].path)
    <3>1. row[e].path \in Paths
      BY <2>3, RowPaths
    <3>2. PICK c \in Folders : row[c].state = "ACTIVE" /\ row[c].path = old
      BY <1>3, <2>3, <2>6, RowPaths
    <3>3. CASE Creating(c)
      BY <1>5, <1>7, <2>2, <2>3, <2>6, <3>2, <3>3
    <3>4. CASE ~Creating(c)
      <4>1. old = new
        BY <1>9, <3>2, <3>4 DEF Made, In
      <4>2. Rebased(row[e].path, old, new) = row[e].path
        BY <2>6, <3>1, <4>1, RebasedSelf
      <4>3. key'[e] = [status |-> "SYNCING", path |-> row[e].path]
        BY <1>5, <2>6, <4>2
      <4> QED BY <1>5, <2>2, <2>3, <4>3
    <3> QED BY <3>3, <3>4
  <2>7. CASE call[j].step # "event"
    BY <1>5, <2>2, <2>3, <2>7
  <2> QED BY <2>3, <2>4, <2>5, <2>6, <2>7
<1>15. FreeInPlace'
  <2> SUFFICES ASSUME NEW g \in Folders, Made(g)', \A k \in Calls : Unfinished(k)' => ~In(job'[k].new, row'[g].path)
               PROVE  key'[g].status = "AVAILABLE" /\ key'[g].path = row'[g].path /\ row'[g].path \in dirs'
    BY DEF FreeInPlace
  <2>1. Made(g) /\ row[g].state = "ACTIVE" /\ \A k \in Calls \ {i} : Unfinished(k) => ~In(job[k].new, row[g].path)
    BY <1>5, <1>6, <1>7 DEF Made
  <2>2. row[g].path \in Paths
    BY <2>1, RowPaths
  <2>3. CASE ~In(new, row[g].path)
    <3>1. \A k \in Calls : Unfinished(k) => ~In(job[k].new, row[g].path)
      BY <1>4, <2>1, <2>3
    <3>2. key[g].status = "AVAILABLE" /\ key[g].path = row[g].path /\ row[g].path \in dirs
      BY <2>1, <3>1 DEF Ready, Sync, FreeInPlace
    <3>3. ~Under(old, key[g].path)
      BY <1>9, <2>1, <2>3, <3>2 DEF In
    <3> QED BY <1>5, <3>2, <3>3
  <2>4. CASE new = row[g].path
    <3>1. g = f
      BY <1>8, <2>1, <2>4, RowPaths DEF Made
    <3> QED BY <1>5, <1>8, <3>1
  <2>5. CASE Under(new, row[g].path)
    <3> DEFINE b == Rebased(row[g].path, new, old)
    <3>1. key[g].status = "AVAILABLE" /\ key[g].path = b /\ row[g].path \in dirs
      BY <1>2, <1>3, <1>4, <2>1, <2>5 DEF Ready, Sync, Carried, Before, Arrived
    <3>2. Under(old, b) /\ Rebased(b, old, new) = row[g].path
      BY <2>2, <2>5, RebasedUnder, RebasedBack
    <3> HIDE DEF b
    <3>3. key'[g] = [status |-> "AVAILABLE", path |-> row[g].path]
      BY <1>5, <3>1, <3>2
    <3> QED BY <1>5, <3>1, <3>3
  <2> QED BY <2>3, <2>4, <2>5 DEF In
<1>16. dirs' \subseteq Paths
  BY <1>5 DEF Ready, Sync
<1> QED BY <1>11, <1>12, <1>13, <1>14, <1>15, <1>16 DEF Sync

-----------------------------------------------------------------------------
(* Every step keeps the directories and the storage rows in step.          *)

\* At the beginning every folder is in its place.
LEMMA InitSync == Init => Sync
<1> SUFFICES ASSUME Init PROVE Sync
  OBVIOUS
<1>1. /\ \A i \in Calls : ~Making(i) /\ ~Unfinished(i)
      /\ \A f : ~Creating(f)
  BY PlainTypes DEF Init, Making, Unfinished, Creating
<1>2. JobPaths /\ JobsApart /\ JobShapes /\ JobRows /\ Vacated /\ Carried /\ NothingInNew /\ Makings
  BY <1>1 DEF JobPaths, JobsApart, JobShapes, JobRows, Vacated, Carried, NothingInNew, Makings
<1>3. FreeInPlace
  <2>1. ASSUME NEW f \in Folders, Made(f)
        PROVE  key[f].status = "AVAILABLE" /\ key[f].path = row[f].path /\ row[f].path \in dirs
    <3>1. row[f].state = "ACTIVE"
      BY <2>1 DEF Made
    <3>2. Home[f] # NoKey
      BY <3>1 DEF Init, NoRow
    <3> QED BY <3>2 DEF Init
  <2> QED BY <2>1 DEF FreeInPlace
<1>4. dirs \subseteq Paths
  <2>1. \A f \in Ids : HomePath[f] \in Seq(STRING)
    BY TreeAssumption
  <2>2. \A s \in Seq(STRING) : s \in Paths
    BY DEF Paths, Letters
  <2> QED BY <2>1, <2>2, RootPath DEF Init, Ids
<1> QED BY <1>2, <1>3, <1>4 DEF Sync

\* Every step that is neither torn, mangled nor crossed keeps Sync.
LEMMA SyncStep ==
  ASSUME TypeInv, Known, Working, TreeInv, SyncInv, [Next]_vars
  PROVE  SyncInv'
<1> SUFFICES ASSUME ~torn', ~mangled', ~crossed' PROVE Sync'
  BY DEF SyncInv, Quiet
<1>1. ~torn /\ ~mangled /\ ~crossed
  BY FlagsStay, CrossedStays
<1>2. Ready
  BY <1>1, RowsFit DEF Ready, TreeInv, SyncInv, Quiet
<1>3. Fit(row') /\ TreeOf(row')
  <2>1. TypeInv' /\ Known' /\ TreeInv'
    BY TypeStep, KnownStep, TreeStep
  <2>2. (TypeInv /\ Known => Fit(row))'
    BY RowsFit, PTL
  <2> QED BY <2>1, <2>2 DEF TreeInv
<1>4. CASE UNCHANGED vars
  <2>1. UNCHANGED <<row, key, dirs, call, job>>
    BY <1>4 DEF vars
  <2>2. \A k \in Calls : Unfinished(k) => job[k].step # "status"
    BY <1>2 DEF Ready, Sync, JobShapes
  <2> QED BY <1>2, <2>1, <2>2, NoCalls, NoJobs, Still
<1>5. ASSUME NEW i \in Calls, Worker(i) PROVE Sync'
  <2>1. ~Revert(i) /\ ~RevertStatus(i)
    BY <1>2, NoRevert, NoRevertStatus
  <2>2. ~KeysNotSaved(i)
    BY <1>2, KeysNotSavedDoes DEF Ready
  <2> QED BY <1>2, <1>5, <2>1, <2>2, RunSync, NasStepSync, SaveKeySync, SaveKeysBelowSync, RunFailsSync
          DEF Worker
<1>6. ASSUME NEW i \in Calls, Command(i) \/ LockMove(i) \/ Update(i) \/ CommandFails(i)
      PROVE  Sync'
  BY <1>2, <1>6, CommandSync
<1>7. ASSUME NEW i \in Calls, CreateRow(i) \/ CreateKey(i) \/ CreateEvent(i) PROVE Sync'
  BY <1>2, <1>3, <1>7, CreateRowSync, CreateKeySync, CreateEventSync
<1>8. ASSUME NEW i \in Calls, Commit(i) \/ CommitTrash(i) PROVE Sync'
  BY <1>2, <1>3, <1>8, CommitSync, CommitTrashSync
<1>9. CASE Crash
  BY <1>2, <1>9, CrashSync
<1> QED BY <1>4, <1>5, <1>6, <1>7, <1>8, <1>9 DEF Next

\* FolderIsWherePathSays in terms of the model: a settled folder is made, and no unfinished job
\* leads to it.
LEMMA SyncInPlace == TypeInv /\ Known /\ Working /\ TreeInv /\ SyncInv => FolderIsWherePathSays
<1> SUFFICES ASSUME TypeInv, Known, Working, TreeInv, SyncInv, Quiet, NEW f \in Folders, Settled(f)
             PROVE  InPlace(f)
  BY DEF FolderIsWherePathSays, Quiet
<1>1. Ready
  BY RowsFit DEF Ready, TreeInv, SyncInv, Quiet
<1>2. row[f].state = "ACTIVE"
  BY RowOfFacts DEF Settled, Active
<1>3. ~Creating(f)
  BY DEF Settled, Creating, Making, UnderWay
<1>4. \A k \in Calls : Unfinished(k) => ~In(job[k].new, row[f].path)
  <2>1. row[f].path \in Paths
    BY <1>1, <1>2, RowPaths
  <2>2. \A k \in Calls : Unfinished(k) => job[k].new \in Paths
    BY <1>1 DEF Ready, Sync, JobPaths
  <2> QED BY <2>1, <2>2, InLeads DEF Settled
<1>5. key[f].status = "AVAILABLE" /\ key[f].path = row[f].path /\ row[f].path \in dirs
  BY <1>1, <1>2, <1>3, <1>4 DEF Ready, Sync, FreeInPlace, Made
<1>6. key[f] = [status |-> key[f].status, path |-> key[f].path]
  BY DEF TypeInv, KeysTyped, KeyType
<1> QED BY <1>5, <1>6 DEF InPlace

-----------------------------------------------------------------------------
(* The theorems.                                                           *)

\* The rows, keys, commands and jobs of the folders keep their types, and no job
\* gets more runs than MaxAttempts.
THEOREM TypeCorrect == Spec => []TypeOK
<1>1. Spec => []TypeInv
  BY InitTypes, TypeStep, PTL DEF Spec
<1> QED BY <1>1, TypeInvOK, PTL

\* The paths of the active folders are those of one tree, whatever commands, jobs and
\* crashes interleave, as long as no command used what it had read too late, no job
\* turned back a move that was not the last one, and REPLACE hit no more than the
\* prefix of the paths below (folder-command.service.ts, folder.repository.ts).
THEOREM TreeHolds == Spec => []TreeMatchesPaths
<1>1. TypeInv /\ Known /\ TreeInv /\ [Next]_vars => TypeInv' /\ Known' /\ TreeInv'
  BY TypeStep, KnownStep, TreeStep
<1>2. Init => TypeInv /\ Known /\ TreeInv
  BY InitTypes, InitKnown, InitTree
<1> QED BY <1>1, <1>2, TreeIsTree, PTL DEF Spec

\* Once the jobs of a folder and of the folders above it have run, its storage row is AVAILABLE
\* with the path of the folder, where its directory is, whatever commands, jobs, retries and
\* crashes interleave, unless a command was torn or crossed, an event outlived its transaction
\* included, or REPLACE hit too much (folder-rename.handler.ts, folder-command.service.ts).
THEOREM FoldersAreInPlace == Spec => []FolderIsWherePathSays
<1> DEFINE IInv == TypeInv /\ Known /\ Working /\ TreeInv /\ SyncInv
<1>1. Init => IInv
  BY InitTypes, InitKnown, InitWorking, InitTree, InitSync DEF SyncInv
<1>2. IInv /\ [Next]_vars => IInv'
  BY TypeStep, KnownStep, WorkingStep, TreeStep, SyncStep
<1>3. IInv => FolderIsWherePathSays
  BY SyncInPlace
<1> HIDE DEF IInv
<1> QED BY <1>1, <1>2, <1>3, PTL DEF Spec
=============================================================================
