------------------------------ MODULE Redaction ------------------------------
(* The secrets filter on one message, before it is stored: scan runs the      *)
(* patterns one after the other, is_entirely_secret decides whether to reject *)
(* the message, and redact replaces what was found.  The text is its          *)
(* positions 0 .. Length - 1; what it says matters only to the patterns.      *)
EXTENDS Integers, FiniteSets

CONSTANTS
    Length,        \* characters of the message, without outer white space
    Patterns,      \* scan's patterns are 1 .. Patterns, in the order they run
    MaxFindings    \* bound: findings in one message

ASSUME RedactionAssumption ==
    Length \in Nat \ {0} /\ Patterns \in Nat /\ MaxFindings \in Nat

VARIABLES
    findings,      \* the spans reported
    rest,          \* findings redact has still to look at
    cursor,        \* the text before it has been dealt with
    kept,          \* the positions copied to the redacted text
    pc             \* "scan", "redact", "rejected" or "stored"

redactVars == <<findings, rest, cursor, kept, pc>>

Finding == [kind : 1 .. Patterns, start : 0 .. Length - 1, end : 1 .. Length]

Span(f) == f.start .. f.end - 1

Text == 0 .. Length - 1

(* Mutant: the findings are sorted by where they end.                         *)
Before_ByEnd(f, g) == f.end < g.end \/ (f.end = g.end /\ f.kind <= g.kind)

(* sorted(findings, key=start), which leaves the order of the patterns among  *)
(* findings that start together.                                              *)
Before(f, g) == f.start < g.start \/ (f.start = g.start /\ f.kind <= g.kind)

(* finditer reports the matches of one pattern from left to right, disjoint;  *)
(* those of two patterns may overlap in any way.                              *)
Scan ==
    /\ pc = "scan" /\ Cardinality(findings) < MaxFindings
    /\ \E f \in Finding :
         /\ f.start < f.end
         /\ \A g \in findings : g.kind < f.kind
                                  \/ (g.kind = f.kind /\ g.end <= f.start)
         /\ findings' = findings \cup {f}
    /\ UNCHANGED <<rest, cursor, kept, pc>>

(* Mutant: one finding is enough to reject the message.                       *)
IsEntirelySecret_AnyFinding == findings # {}

(* The positions in some finding, and each as often as it is in one.          *)
Covered == UNION {Span(f) : f \in findings}
Occurrences == UNION {{f} \X Span(f) : f \in findings}

(* is_entirely_secret: the lengths of the findings add up to at least 0.8 of  *)
(* the message.                                                               *)
IsEntirelySecret ==
    findings # {} /\ 5 * Cardinality(Occurrences) >= 4 * Length

(* ingest answers 422 and stores nothing.                                     *)
Reject ==
    /\ pc = "scan" /\ IsEntirelySecret
    /\ pc' = "rejected"
    /\ UNCHANGED <<findings, rest, cursor, kept>>

(* ingest goes on to redact; a message without findings is stored whole,      *)
(* which is what the loop below does of no findings.                          *)
StartRedact ==
    /\ pc = "scan" /\ ~IsEntirelySecret
    /\ pc' = "redact"
    /\ rest' = findings
    /\ UNCHANGED <<findings, cursor, kept>>

NextFinding(f) == f \in rest /\ \A g \in rest : Before(f, g)

(* A finding that starts before the cursor is passed over.                    *)
Skip ==
    /\ pc = "redact"
    /\ \E f \in Finding : /\ NextFinding(f) /\ f.start < cursor
                          /\ rest' = rest \ {f}
    /\ UNCHANGED <<findings, cursor, kept, pc>>

(* The text up to the finding is copied and the finding replaced.             *)
Replace ==
    /\ pc = "redact"
    /\ \E f \in Finding : /\ NextFinding(f) /\ f.start >= cursor
                          /\ rest' = rest \ {f}
                          /\ kept' = kept \cup (cursor .. f.start - 1)
                          /\ cursor' = f.end
    /\ UNCHANGED <<findings, pc>>

(* Mutant: the text after the last finding is forgotten.                      *)
AfterLast_Forgotten == {}

AfterLast == cursor .. Length - 1

(* The text after the last finding is copied and the message stored.          *)
Finish ==
    /\ pc = "redact" /\ rest = {}
    /\ kept' = kept \cup AfterLast
    /\ pc' = "stored"
    /\ UNCHANGED <<findings, rest, cursor>>

RedactInit ==
    /\ findings = {} /\ rest = {} /\ cursor = 0 /\ kept = {}
    /\ pc = "scan"

RedactNext == Scan \/ Reject \/ StartRedact \/ Skip \/ Replace \/ Finish

RedactionSpec == RedactInit /\ [][RedactNext]_redactVars
------------------------------------------------------------------------------
(* Redacting loses no text outside the findings (redact).                     *)
InnocentTextKept ==
    pc = "stored" => Text \ Covered \subseteq kept

(* What is stored contains nothing of any finding: the promise of redact's    *)
(* docstring, and of its comment that an overlapping match is covered.        *)
NoSecretKept ==
    pc = "stored" => \A f \in findings : Span(f) \cap kept = {}

(* When is that comment right: no finding runs on past the end of another     *)
(* that begins no later than it.                                              *)
NoTails ==
    \A f, g \in findings : Before(f, g) /\ g.start < f.end => g.end <= f.end

(* Then nothing of any finding is stored, nested and adjacent findings        *)
(* included (redact).                                                         *)
NoSecretKeptWithoutTails == NoTails => NoSecretKept

(* The test adds up the findings of all patterns, and a position found by     *)
(* several counts several times.  However the findings overlap, a message is  *)
(* not stored with a fifth or less of it left: one that is a secret as a      *)
(* whole is rejected; and one with fewer than 4/(5 * Patterns) of it in       *)
(* findings is stored (is_entirely_secret, then redact).                      *)
VerdictFits ==
    /\ pc = "stored" => 5 * Cardinality(kept) > Length
    /\ pc = "rejected" => 5 * Patterns * Cardinality(Covered) >= 4 * Length
------------------------------------------------------------------------------
(* The inductive invariant.  The text before the cursor is either kept or     *)
(* inside a finding replaced, one that starts no later than those left.       *)
RedactionTypeOK ==
    /\ findings \subseteq Finding /\ rest \subseteq findings
    /\ \A f \in findings : f.start < f.end
    /\ \A f, g \in findings :
         f.kind = g.kind => f = g \/ f.end <= g.start \/ g.end <= f.start
    /\ cursor \in 0 .. Length
    /\ kept \subseteq Text
    /\ pc \in {"scan", "redact", "rejected", "stored"}

LoopInv ==
    /\ pc = "scan" => rest = {} /\ cursor = 0 /\ kept = {}
    /\ pc # "stored" => \A p \in kept : p < cursor
    /\ \A p \in Text : p < cursor \/ pc = "stored" =>
         p \in kept \/ \E f \in findings : p \in Span(f)
    /\ \A f \in findings \ rest, g \in rest : Before(f, g)
    /\ cursor = 0 \/ \E f \in findings \ rest : cursor = f.end
    /\ pc \in {"redact", "stored"} => \A f \in findings \ rest : f.start < cursor
    /\ pc = "stored" => rest = {}
    /\ pc = "rejected" => IsEntirelySecret
    /\ pc \in {"redact", "stored"} => ~IsEntirelySecret

(* Without tails the findings dealt with end before the cursor.               *)
CoveredInv ==
    NoTails /\ pc \in {"redact", "stored"} =>
      /\ \A f \in findings \ rest : f.end <= cursor
      /\ \A f \in findings : Span(f) \cap kept = {}

RedactionInv == RedactionTypeOK /\ LoopInv /\ CoveredInv
=============================================================================
