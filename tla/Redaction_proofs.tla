--------------------------- MODULE Redaction_proofs ---------------------------
(* For every message and every set of overlapping findings: redaction keeps   *)
(* the innocent text, and removes every finding whole when none has a tail.   *)
EXTENDS Redaction, FiniteSetTheorems, TLAPS

USE RedactionAssumption

LEMMA FindingBounds ==
    ASSUME NEW f \in Finding
    PROVE  /\ f.start \in Int /\ f.end \in Int /\ f.kind \in Int
           /\ 0 <= f.start /\ f.start < Length /\ f.end <= Length
BY DEF Finding

LEMMA InitRedaction == RedactInit => RedactionInv
<1> SUFFICES ASSUME RedactInit PROVE RedactionInv
  OBVIOUS
<1>1. RedactionTypeOK
  BY DEF RedactInit, RedactionTypeOK, Text
<1>2. LoopInv
  BY DEF RedactInit, LoopInv, Text
<1>3. CoveredInv
  BY DEF RedactInit, CoveredInv
<1> QED
  BY <1>1, <1>2, <1>3 DEF RedactionInv

(* While scanning nothing has been copied, so a new finding disturbs nothing. *)
LEMMA ScanStep == RedactionInv /\ Scan => RedactionInv'
<1> SUFFICES ASSUME RedactionInv, Scan PROVE RedactionInv'
  OBVIOUS
<1> USE DEF RedactionInv
<1>1. PICK f \in Finding :
         /\ f.start < f.end
         /\ \A g \in findings : g.kind < f.kind
                                  \/ (g.kind = f.kind /\ g.end <= f.start)
         /\ findings' = findings \cup {f}
  BY DEF Scan
<1>2. /\ pc = "scan" /\ rest = {} /\ cursor = 0 /\ kept = {}
      /\ UNCHANGED <<rest, cursor, kept, pc>>
  BY DEF Scan, LoopInv
<1>3. RedactionTypeOK'
  <2>1. (findings \subseteq Finding /\ rest \subseteq findings)'
    BY <1>1, <1>2 DEF RedactionTypeOK
  <2>2. (\A a \in findings : a.start < a.end)'
    BY <1>1 DEF RedactionTypeOK
  <2>3. (\A a, b \in findings : a.kind = b.kind =>
                                   a = b \/ a.end <= b.start \/ b.end <= a.start)'
    <3>1. \A g \in findings : g.kind # f.kind \/ g.end <= f.start
      BY <1>1, FindingBounds DEF RedactionTypeOK
    <3> QED
      BY <1>1, <3>1, FindingBounds DEF RedactionTypeOK
  <2> QED
    BY <1>2, <2>1, <2>2, <2>3 DEF RedactionTypeOK
<1>4. LoopInv'
  BY <1>2, <1>1 DEF LoopInv, Text
<1>5. CoveredInv'
  BY <1>2 DEF CoveredInv
<1> QED
  BY <1>3, <1>4, <1>5

LEMMA JudgeStep == RedactionInv /\ (Reject \/ StartRedact) => RedactionInv'
<1> SUFFICES ASSUME RedactionInv, Reject \/ StartRedact PROVE RedactionInv'
  OBVIOUS
<1> USE DEF RedactionInv
<1>1. /\ pc = "scan" /\ rest = {} /\ cursor = 0 /\ kept = {}
      /\ UNCHANGED <<findings, cursor, kept>>
      /\ pc' \in {"rejected", "redact"}
      /\ rest' = IF pc' = "redact" THEN findings ELSE rest
  BY DEF Reject, StartRedact, LoopInv
<1>2. RedactionTypeOK'
  BY <1>1 DEF RedactionTypeOK
<1>3. LoopInv'
  <2>1. CASE pc' = "redact"
    <3>1. ~IsEntirelySecret'
      BY <1>1, <2>1 DEF Reject, StartRedact, IsEntirelySecret, Occurrences
    <3> QED
      BY <1>1, <2>1, <3>1 DEF LoopInv, Text
  <2>2. CASE pc' = "rejected"
    <3>1. IsEntirelySecret'
      BY <1>1, <2>2 DEF Reject, StartRedact, IsEntirelySecret, Occurrences
    <3> QED
      BY <1>1, <2>2, <3>1 DEF LoopInv, Text
  <2> QED
    BY <1>1, <2>1, <2>2
<1>4. CoveredInv'
  BY <1>1 DEF CoveredInv
<1> QED
  BY <1>2, <1>3, <1>4

(* Findings that agree on Before both ways are the same finding.              *)
LEMMA BeforeAntisymmetric ==
    ASSUME RedactionTypeOK, NEW f \in findings, NEW g \in findings,
           Before(f, g), Before(g, f)
    PROVE  f = g
BY FindingBounds DEF RedactionTypeOK, Before

LEMMA SameVerdict ==
    ASSUME UNCHANGED findings
    PROVE  IsEntirelySecret' <=> IsEntirelySecret
BY DEF IsEntirelySecret, Occurrences

LEMMA SkipStep == RedactionInv /\ Skip => RedactionInv'
<1> SUFFICES ASSUME RedactionInv, Skip PROVE RedactionInv'
  OBVIOUS
<1> USE DEF RedactionInv
<1>1. PICK f \in Finding : /\ NextFinding(f) /\ f.start < cursor
                           /\ rest' = rest \ {f}
  BY DEF Skip
<1>2. /\ pc = "redact" /\ UNCHANGED <<findings, cursor, kept, pc>>
      /\ f \in rest /\ f \in findings
  BY <1>1 DEF Skip, NextFinding, RedactionTypeOK
<1>3. RedactionTypeOK'
  BY <1>1, <1>2 DEF RedactionTypeOK
<1>4. LoopInv'
  BY <1>1, <1>2, SameVerdict DEF LoopInv, NextFinding, RedactionTypeOK
<1>5. CoveredInv'
  <2>1. PICK g \in findings \ rest : cursor = g.end
    BY <1>1, <1>2, FindingBounds DEF LoopInv
  <2>2. NoTails => f.end <= cursor
    BY <1>1, <1>2, <2>1 DEF NoTails, LoopInv
  <2> QED
    BY <1>1, <1>2, <2>2 DEF CoveredInv, NoTails
<1> QED
  BY <1>3, <1>4, <1>5

LEMMA ReplaceStep == RedactionInv /\ Replace => RedactionInv'
<1> SUFFICES ASSUME RedactionInv, Replace PROVE RedactionInv'
  OBVIOUS
<1> USE DEF RedactionInv
<1>1. PICK f \in Finding : /\ NextFinding(f) /\ f.start >= cursor
                           /\ rest' = rest \ {f}
                           /\ kept' = kept \cup (cursor .. f.start - 1)
                           /\ cursor' = f.end
  BY DEF Replace
<1>2. /\ pc = "redact" /\ UNCHANGED <<findings, pc>>
      /\ f \in rest /\ f \in findings /\ cursor \in 0 .. Length
      /\ f.start < f.end
  BY <1>1 DEF Replace, NextFinding, RedactionTypeOK
<1>3. /\ f.start \in Int /\ f.end \in Int /\ 0 <= f.start
      /\ f.start < Length /\ f.end <= Length
  BY FindingBounds
<1>4. RedactionTypeOK'
  <2>1. kept' \subseteq Text
    <3>1. cursor .. f.start - 1 \subseteq Text
      BY <1>2, <1>3 DEF Text
    <3> QED
      BY <1>1, <3>1 DEF RedactionTypeOK
  <2>2. cursor' \in 0 .. Length
    BY <1>1, <1>2, <1>3
  <2> QED
    BY <1>1, <1>2, <2>1, <2>2 DEF RedactionTypeOK
<1>5. LoopInv'
  <2>1. \A p \in kept' : p < cursor'
    BY <1>1, <1>2, <1>3 DEF LoopInv, RedactionTypeOK, Text
  <2>2. \A p \in Text : p < cursor' =>
          p \in kept' \/ \E g \in findings : p \in Span(g)
    <3> TAKE p \in Text
    <3> HAVE p < cursor'
    <3>1. CASE p < cursor
      BY <1>1, <3>1 DEF LoopInv
    <3>2. CASE cursor <= p /\ p < f.start
      BY <1>1, <1>2, <1>3, <3>2 DEF Text
    <3>3. CASE f.start <= p
      BY <1>1, <1>2, <1>3, <3>3 DEF Span, Text
    <3> QED
      BY <1>2, <1>3, <3>1, <3>2, <3>3 DEF Text
  <2>3. \A g \in findings \ rest', h \in rest' : Before(g, h)
    BY <1>1, <1>2 DEF LoopInv, NextFinding
  <2>4. \A g \in findings \ rest' : g.start < cursor'
    <3> TAKE g \in findings \ rest'
    <3>1. CASE g = f
      BY <1>1, <1>2, <3>1
    <3>2. CASE g \in findings \ rest
      <4>1. g.start < cursor /\ g.start \in Int
        BY <1>2, <3>2, FindingBounds DEF LoopInv, RedactionTypeOK
      <4> QED
        BY <1>1, <1>2, <1>3, <4>1
    <3> QED
      BY <1>1, <3>1, <3>2
  <2> QED
    BY <1>1, <1>2, <2>1, <2>2, <2>3, <2>4, SameVerdict DEF LoopInv
<1>6. CoveredInv'
  <2> SUFFICES ASSUME NoTails
               PROVE  /\ \A g \in findings \ rest' : g.end <= cursor'
                      /\ \A g \in findings : Span(g) \cap kept' = {}
    BY <1>2 DEF CoveredInv, NoTails
  <2>1. \A g \in findings \ rest : g.end <= cursor /\ g.end \in Int
    BY <1>2, FindingBounds DEF CoveredInv, RedactionTypeOK
  <2>2. \A g \in findings \ rest' : g.end <= cursor'
    BY <1>1, <1>2, <1>3, <2>1
  <2>3. \A g \in findings : Span(g) \cap kept' = {}
    <3> TAKE g \in findings
    <3>0. g.start \in Int /\ g.end \in Int
      BY FindingBounds DEF RedactionTypeOK
    <3>1. Span(g) \cap kept = {}
      BY <1>2 DEF CoveredInv
    <3>2. Span(g) \cap (cursor .. f.start - 1) = {}
      <4>1. CASE g \in rest
        <5>1. f.start <= g.start
          BY <1>1, <1>3, <3>0, <4>1 DEF NextFinding, Before
        <5> QED
          BY <1>2, <1>3, <3>0, <5>1 DEF Span
      <4>2. CASE g \notin rest
        BY <1>2, <1>3, <2>1, <3>0, <4>2 DEF Span
      <4> QED
        BY <4>1, <4>2
    <3> QED
      BY <1>1, <3>1, <3>2
  <2> QED
    BY <2>2, <2>3
<1> QED
  BY <1>4, <1>5, <1>6

LEMMA FinishStep == RedactionInv /\ Finish => RedactionInv'
<1> SUFFICES ASSUME RedactionInv, Finish PROVE RedactionInv'
  OBVIOUS
<1> USE DEF RedactionInv
<1>1. /\ pc = "redact" /\ rest = {} /\ pc' = "stored"
      /\ kept' = kept \cup (cursor .. Length - 1)
      /\ UNCHANGED <<findings, rest, cursor>> /\ cursor \in 0 .. Length
  BY DEF Finish, AfterLast, RedactionTypeOK
<1>2. RedactionTypeOK'
  BY <1>1 DEF RedactionTypeOK, Text
<1>3. LoopInv'
  <2>1. \A p \in Text : p \in kept' \/ \E g \in findings : p \in Span(g)
    BY <1>1 DEF LoopInv, Text
  <2> QED
    BY <1>1, <2>1, SameVerdict DEF LoopInv
<1>4. CoveredInv'
  <2> SUFFICES ASSUME NoTails, NEW g \in findings
               PROVE  g.end <= cursor /\ Span(g) \cap kept' = {}
    BY <1>1 DEF CoveredInv, NoTails
  <2>1. g.start \in Int /\ g.end \in Int
    BY FindingBounds DEF RedactionTypeOK
  <2>2. g.end <= cursor /\ Span(g) \cap kept = {}
    BY <1>1 DEF CoveredInv
  <2> QED
    BY <1>1, <2>1, <2>2 DEF Span
<1> QED
  BY <1>2, <1>3, <1>4

(* At every step of redact's loop the text before the cursor is kept or       *)
(* inside a finding, and those left start no earlier than those dealt with:   *)
(* the inductive invariant behind the theorems below.                         *)
THEOREM RedactionInductive == RedactionSpec => []RedactionInv
<1>1. RedactionInv /\ [RedactNext]_redactVars => RedactionInv'
  <2>1. RedactionInv /\ UNCHANGED redactVars => RedactionInv'
    BY DEF RedactionInv, RedactionTypeOK, LoopInv, CoveredInv, NoTails, redactVars,
           IsEntirelySecret, Occurrences
  <2> QED
    BY <2>1, ScanStep, JudgeStep, SkipStep, ReplaceStep, FinishStep DEF RedactNext
<1> QED
  BY InitRedaction, <1>1, PTL DEF RedactionSpec

(* For every message, whatever the patterns report: no character outside the  *)
(* findings is lost (redact).                                                 *)
THEOREM InnocentTextIsKept == RedactionSpec => []InnocentTextKept
<1>1. RedactionInv => InnocentTextKept
  <2> SUFFICES ASSUME RedactionInv, pc = "stored", NEW p \in Text,
                      ~ \E f \in findings : p \in Span(f)
               PROVE  p \in kept
    BY DEF InnocentTextKept, Covered
  <2> QED
    BY DEF RedactionInv, LoopInv
<1> QED
  BY RedactionInductive, <1>1, PTL

(* For every message whose findings have no tails: nothing of any finding is  *)
(* stored (redact).                                                           *)
THEOREM SecretsAreRemoved == RedactionSpec => []NoSecretKeptWithoutTails
<1>1. RedactionInv => NoSecretKeptWithoutTails
  BY DEF RedactionInv, CoveredInv, NoSecretKeptWithoutTails, NoSecretKept
<1> QED
  BY RedactionInductive, <1>1, PTL

(* Every position found is counted, at most once by each pattern.             *)
LEMMA CountedBounds ==
    ASSUME RedactionTypeOK
    PROVE  /\ Covered \subseteq Text /\ IsFiniteSet(Text)
           /\ Cardinality(Text) = Length
           /\ Cardinality(Covered) \in Nat /\ Cardinality(Occurrences) \in Nat
           /\ Cardinality(Covered) <= Cardinality(Occurrences)
           /\ Cardinality(Occurrences) <= Patterns * Cardinality(Covered)
<1>0. /\ Patterns \in Nat
      /\ \A f \in findings : /\ f.start \in Int /\ f.end \in Int
                             /\ f.kind \in 1 .. Patterns
                             /\ 0 <= f.start /\ f.end <= Length
  BY DEF RedactionTypeOK, Finding
<1>1. Covered \subseteq Text
  BY <1>0 DEF Covered, Span, Text
<1>2. IsFiniteSet(Text) /\ Cardinality(Text) = Length
  BY FS_Interval DEF Text
<1>3. IsFiniteSet(Covered)
  BY <1>1, <1>2, FS_Subset
<1>4. \A h \in Occurrences : h[1] \in findings /\ h[2] \in Span(h[1])
                           /\ h = <<h[1], h[2]>> /\ h[2] \in Covered
  BY DEF Occurrences, Covered
<1>5. \A h, k \in Occurrences :
        h[2] = k[2] /\ h[1].kind = k[1].kind => h = k
  <2> SUFFICES ASSUME NEW h \in Occurrences, NEW k \in Occurrences,
                      h[2] = k[2], h[1].kind = k[1].kind
               PROVE  h[1] = k[1]
    BY <1>4
  <2>1. /\ h[2] \in Span(h[1]) /\ h[2] \in Span(k[1])
        /\ h[1] \in findings /\ k[1] \in findings
    BY <1>4
  <2> QED
    BY <1>0, <2>1 DEF Span, RedactionTypeOK
<1> DEFINE Pairs == (1 .. Patterns) \X Covered
           pair == [h \in Occurrences |-> <<h[1].kind, h[2]>>]
<1>6. pair \in Injection(Occurrences, Pairs)
  <2>1. pair \in [Occurrences -> Pairs]
    BY <1>0, <1>4
  <2>2. \A h, k \in Occurrences : pair[h] = pair[k] => h = k
    BY <1>5
  <2> QED
    BY <2>1, <2>2 DEF Injection, IsInjective
<1>7. /\ IsFiniteSet(1 .. Patterns) /\ Cardinality(1 .. Patterns) = Patterns
  BY <1>0, FS_Interval
<1>8. /\ IsFiniteSet(Pairs)
      /\ Cardinality(Pairs) = Patterns * Cardinality(Covered)
  BY <1>3, <1>7, FS_Product
<1>9. IsFiniteSet(Occurrences) /\ Cardinality(Occurrences) <= Cardinality(Pairs)
  <2> HIDE DEF Pairs, pair
  <2> QED
    BY <1>6, <1>8, FS_Injection
<1> DEFINE place == [h \in Occurrences |-> h[2]]
<1>10. place \in Surjection(Occurrences, Covered)
  <2>1. place \in [Occurrences -> Covered]
    BY <1>4
  <2>2. \A p \in Covered : \E h \in Occurrences : place[h] = p
    <3> SUFFICES ASSUME NEW f \in findings, NEW p \in Span(f)
                 PROVE  \E h \in Occurrences : place[h] = p
      BY DEF Covered
    <3>1. <<f, p>> \in Occurrences
      BY DEF Occurrences
    <3> QED
      BY <3>1
  <2> QED
    BY <2>1, <2>2 DEF Surjection
<1>11. Cardinality(Covered) <= Cardinality(Occurrences)
  <2> HIDE DEF place
  <2> QED
    BY <1>9, <1>10, FS_Surjection
<1> QED
  BY <1>1, <1>2, <1>3, <1>8, <1>9, <1>11, FS_CardinalityType

(* For every message, however its findings overlap: no more than four fifths  *)
(* of what is stored has been taken out, and what is rejected has its share   *)
(* in findings (is_entirely_secret, then redact).                             *)
THEOREM VerdictsFit == RedactionSpec => []VerdictFits
<1>1. RedactionInv /\ pc = "rejected" =>
        5 * Patterns * Cardinality(Covered) >= 4 * Length
  <2> SUFFICES ASSUME RedactionTypeOK, 5 * Cardinality(Occurrences) >= 4 * Length
               PROVE  5 * Patterns * Cardinality(Covered) >= 4 * Length
    BY DEF RedactionInv, LoopInv, IsEntirelySecret
  <2>1. /\ Patterns * Cardinality(Covered) \in Nat
        /\ 5 * (Patterns * Cardinality(Covered)) >= 4 * Length
    BY CountedBounds
  <2>2. 5 * Patterns * Cardinality(Covered) = 5 * (Patterns * Cardinality(Covered))
    BY CountedBounds
  <2> QED
    BY <2>1, <2>2
<1>2. RedactionInv /\ pc = "stored" => 5 * Cardinality(kept) > Length
  <2> SUFFICES ASSUME RedactionInv, pc = "stored"
               PROVE  5 * Cardinality(kept) > Length
    OBVIOUS
  <2>1. RedactionTypeOK /\ kept \subseteq Text /\ Text \ Covered \subseteq kept
    BY DEF RedactionInv, RedactionTypeOK, LoopInv, Covered
  <2>2. /\ findings # {} => 5 * Cardinality(Occurrences) < 4 * Length
        /\ findings = {} => Cardinality(Occurrences) = 0
    <3>1. findings = {} => Occurrences = {}
      BY DEF Occurrences
    <3>2. ~IsEntirelySecret
      BY DEF RedactionInv, LoopInv
    <3>3. Cardinality(Occurrences) \in Nat
      BY <2>1, CountedBounds
    <3>4. findings = {} => Cardinality(Occurrences) = 0
      BY <3>1, FS_EmptySet
    <3> QED
      BY <3>2, <3>3, <3>4 DEF IsEntirelySecret
  <2>3. /\ IsFiniteSet(kept) /\ IsFiniteSet(Text \ Covered)
        /\ Cardinality(Text \ Covered) <= Cardinality(kept)
        /\ Cardinality(kept) \in Nat
    BY <2>1, CountedBounds, FS_Subset, FS_CardinalityType
  <2>4. Cardinality(Text \ Covered) = Length - Cardinality(Covered)
    <3>1. Text \cap Covered = Covered
      BY <2>1, CountedBounds
    <3>2. Cardinality(Text \ Covered)
            = Cardinality(Text) - Cardinality(Text \cap Covered)
      BY <2>1, CountedBounds, FS_Difference
    <3> QED
      BY <2>1, <3>1, <3>2, CountedBounds
  <2> QED
    BY <2>1, <2>2, <2>3, <2>4, CountedBounds
<1> QED
  BY RedactionInductive, <1>1, <1>2, PTL DEF VerdictFits
=============================================================================
