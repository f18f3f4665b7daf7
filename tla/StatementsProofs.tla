-------------------------- MODULE StatementsProofs --------------------------
(***************************************************************************)
(* What the comparison of statements is worth, for all statements: when it *)
(* holds, and when it is as good as comparing what the policies grant.     *)
(***************************************************************************)
EXTENDS Statements, FiniteSetTheorems, TLAPS

StatementSpec == [resource : STRING, action : Seq(STRING)]

\* No action and no resource is named twice.
NoRepeats(actions) == \A i, j \in DOMAIN actions : actions[i] = actions[j] => i = j

Unambiguous(statement) ==
    /\ \A i \in DOMAIN statement : NoRepeats(statement[i].action)
    /\ \A i, j \in DOMAIN statement : statement[i].resource = statement[j].resource => i = j

-----------------------------------------------------------------------------
(* As many places that all differ reach every place there is. *)
LEMMA Pigeons ==
    ASSUME NEW n \in Nat, NEW f \in [1..n -> 1..n], \A i, j \in 1..n : f[i] = f[j] => i = j
    PROVE  \A j \in 1..n : \E i \in 1..n : f[i] = j
<1>1. f \in Injection(1..n, 1..n)
  BY DEF Injection, IsInjective
<1>2. IsFiniteSet(1..n)
  <2>1. 1 \in Int /\ n \in Int
    OBVIOUS
  <2> QED
    BY <2>1, FS_Interval, Zenon
<1>3. f \in Surjection(1..n, 1..n)
  BY <1>1, <1>2, FS_Injection
<1> QED
  BY <1>3 DEF Surjection

(* Two lists of as many actions: when no action of the first is named twice, *)
(* having each of them in the second one is having the same actions.         *)
LEMMA SameActions ==
    ASSUME NEW a \in StatementSpec, NEW b \in StatementSpec, NoRepeats(a.action), IsSame(a, b)
    PROVE  Permits(a) = Permits(b)
<1> DEFINE n == Len(a.action)
<1>1. n \in Nat /\ DOMAIN a.action = 1..n /\ DOMAIN b.action = 1..n
  BY DEF IsSame, StatementSpec
<1>2. \A i \in 1..n : \E j \in 1..n : a.action[i] = b.action[j]
  BY <1>1 DEF IsSame
<1> HIDE DEF n
<1>3. PICK f \in [1..n -> 1..n] : \A i \in 1..n : a.action[i] = b.action[f[i]]
  <2> DEFINE g == [i \in 1..n |-> CHOOSE j \in 1..n : a.action[i] = b.action[j]]
  <2>1. \A i \in 1..n : g[i] \in 1..n /\ a.action[i] = b.action[g[i]]
    BY <1>2
  <2>2. g \in [1..n -> 1..n]
    BY <2>1
  <2> QED
    BY <2>1, <2>2
<1>4. \A i, j \in 1..n : f[i] = f[j] => i = j
  <2>1. \A i, j \in 1..n : a.action[i] = a.action[j] => i = j
    BY <1>1, Zenon DEF NoRepeats
  <2> SUFFICES ASSUME NEW i \in 1..n, NEW j \in 1..n, f[i] = f[j] PROVE i = j
    OBVIOUS
  <2>2. a.action[i] = b.action[f[i]] /\ a.action[j] = b.action[f[j]]
    BY <1>3
  <2> QED
    BY <2>1, <2>2, Zenon
<1>5. \A j \in 1..n : \E i \in 1..n : f[i] = j
  BY <1>1, <1>4, Pigeons
<1>6. \A j \in 1..n : \E i \in 1..n : b.action[j] = a.action[i]
  <2> SUFFICES ASSUME NEW j \in 1..n PROVE \E i \in 1..n : b.action[j] = a.action[i]
    OBVIOUS
  <2>1. PICK i \in 1..n : f[i] = j
    BY <1>5
  <2>2. a.action[i] = b.action[f[i]]
    BY <1>3
  <2> QED
    BY <2>1, <2>2
<1>7. a.resource = b.resource
  BY DEF IsSame
<1> QED
  BY <1>1, <1>2, <1>6, <1>7 DEF Permits

(* A document only allows: what it grants is what its statements permit. *)
LEMMA DocumentGrants ==
    ASSUME NEW s \in Seq(StatementSpec)
    PROVE  Grants(NewPolicyDocument(s)) = UNION {Permits(s[i]) : i \in DOMAIN s}
<1> DEFINE d == NewPolicyDocument(s)
<1>1. DOMAIN d = DOMAIN s
  BY DEF NewPolicyDocument
<1>2. ASSUME NEW i \in DOMAIN s
      PROVE  d[i].effect = "Allow" /\ Permits(d[i]) = Permits(s[i])
  BY DEF NewPolicyDocument, Permits
<1>3. {i \in DOMAIN d : d[i].effect = "Allow"} = DOMAIN s /\ {i \in DOMAIN d : d[i].effect = "Deny"} = {}
  BY <1>1, <1>2
<1>4. Grants(d) = UNION {Permits(d[i]) : i \in DOMAIN s} \ UNION {Permits(d[i]) : i \in {}}
  BY <1>3 DEF Grants
<1>5. UNION {Permits(d[i]) : i \in {}} = {}
  OBVIOUS
<1>6. UNION {Permits(d[i]) : i \in DOMAIN s} = UNION {Permits(s[i]) : i \in DOMAIN s}
  BY <1>2
<1> QED
  BY <1>4, <1>5, <1>6

(***************************************************************************)
(* What is written on AWS is found equal when it is read back, so an       *)
(* update that succeeded is not repeated (NewPolicyDocumentString,         *)
(* GetStatement and StatementEquals).                                      *)
(***************************************************************************)
THEOREM WrittenIsFoundEqual ==
    ASSUME NEW s \in Seq(StatementSpec)
    PROVE  StatementEquals(s, StatementSpecs(NewPolicyDocument(s)))
<1> DEFINE t == StatementSpecs(NewPolicyDocument(s))
<1>1. DOMAIN s = 1..Len(s) /\ Len(s) \in Nat
  OBVIOUS
<1>2. DOMAIN t = 1..Len(s)
  BY <1>1 DEF StatementSpecs, NewPolicyDocument
<1>3. Len(t) = Len(s)
  BY <1>1, <1>2 DEF StatementSpecs
<1>4. ASSUME NEW i \in DOMAIN s
      PROVE  s[i] \in StatementSpec /\ t[i].resource = s[i].resource /\ t[i].action = s[i].action
  BY <1>4 DEF StatementSpecs, NewPolicyDocument, ToSpec
<1>5. ASSUME NEW i \in DOMAIN s
      PROVE  IsSame(s[i], t[i])
  BY <1>4, <1>5 DEF IsSame
<1> QED
  BY <1>1, <1>2, <1>3, <1>5 DEF StatementEquals

(***************************************************************************)
(* The comparison counts, and does not look at which of the statements on  *)
(* AWS are met twice.  When the spec names no resource twice, and no       *)
(* action twice in a statement, it tells every "meaningful difference"     *)
(* (StatementEquals, IsSame): equal statements grant the same.             *)
(***************************************************************************)
THEOREM EqualGrantsTheSame ==
    ASSUME NEW a \in Seq(StatementSpec), NEW b \in Seq(StatementSpec),
           Unambiguous(a), StatementEquals(a, b)
    PROVE  Grants(NewPolicyDocument(a)) = Grants(NewPolicyDocument(b))
<1> DEFINE n == Len(a)
<1>1. n \in Nat /\ DOMAIN a = 1..n /\ DOMAIN b = 1..n
  BY DEF StatementEquals
<1>2. \A i \in 1..n : \E j \in 1..n : IsSame(a[i], b[j])
  BY <1>1 DEF StatementEquals
<1>3. \A i \in 1..n : a[i] \in StatementSpec /\ b[i] \in StatementSpec
  BY <1>1
<1> HIDE DEF n
<1>4. PICK f \in [1..n -> 1..n] : \A i \in 1..n : IsSame(a[i], b[f[i]])
  <2> DEFINE g == [i \in 1..n |-> CHOOSE j \in 1..n : IsSame(a[i], b[j])]
  <2>1. \A i \in 1..n : g[i] \in 1..n /\ IsSame(a[i], b[g[i]])
    BY <1>2
  <2>2. g \in [1..n -> 1..n]
    BY <2>1
  <2> QED
    BY <2>1, <2>2
<1>5. \A i, j \in 1..n : f[i] = f[j] => i = j
  <2>1. \A i \in 1..n : a[i].resource = b[f[i]].resource
    BY <1>4 DEF IsSame
  <2>2. \A i, j \in 1..n : a[i].resource = a[j].resource => i = j
    BY <1>1 DEF Unambiguous
  <2> QED
    BY <2>1, <2>2, Zenon
<1>6. \A j \in 1..n : \E i \in 1..n : f[i] = j
  BY <1>1, <1>5, Pigeons
<1>7. \A i \in 1..n : Permits(a[i]) = Permits(b[f[i]])
  BY <1>1, <1>3, <1>4, SameActions DEF Unambiguous
<1>8. {Permits(a[i]) : i \in 1..n} = {Permits(b[j]) : j \in 1..n}
  <2>1. ASSUME NEW i \in 1..n
        PROVE  \E j \in 1..n : Permits(a[i]) = Permits(b[j])
    <3>1. f[i] \in 1..n
      OBVIOUS
    <3> QED
      BY <1>7, <3>1
  <2>2. ASSUME NEW j \in 1..n
        PROVE  \E i \in 1..n : Permits(b[j]) = Permits(a[i])
    <3>1. PICK i \in 1..n : f[i] = j
      BY <1>6
    <3>2. Permits(a[i]) = Permits(b[f[i]])
      BY <1>7
    <3> QED
      BY <3>1, <3>2
  <2> QED
    BY <2>1, <2>2
<1> QED
  BY <1>1, <1>8, DocumentGrants

=============================================================================
