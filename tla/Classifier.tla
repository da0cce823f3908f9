------------------------------ MODULE Classifier ------------------------------
(* The prototype that may one day replace the judge of the write gate: a      *)
(* multinomial naive Bayes classifier over the words of a candidate, trained  *)
(* on logged decisions.  Sums of logarithms are compared as products of       *)
(* fractions.                                                                 *)
EXTENDS Integers, SequencesExt, FiniteSetsExt

CONSTANTS
    Words,         \* words of the candidates
    Candidates,    \* texts, as sequences of words
    MaxExamples,   \* bound: examples trained on
    Never          \* 1 / Never is the prior of a label without examples

ASSUME ClassifierAssumption ==
    /\ Candidates \subseteq Seq(Words)
    /\ MaxExamples \in Nat /\ Never \in Nat \ {0}

VARIABLES
    docs,          \* _doc_counts
    counts,        \* _word_counts
    totals,        \* _word_totals
    vocab,         \* _vocab
    trained        \* the examples trained on, in order: texts and labels

classVars == <<docs, counts, totals, vocab, trained>>
------------------------------------------------------------------------------
Occurs(w, text) == Cardinality({i \in DOMAIN text : text[i] = w})

(* Mutant: a word that occurs twice in a text is counted once.                *)
Counted_Once(text) == [w \in Words |-> IF Contains(text, w) THEN 1 ELSE 0]

(* What the loop over a text adds to the counts of its words.                 *)
Counted(text) == [w \in Words |-> Occurs(w, text)]

(* Mutant: the words are counted under the other label.                       *)
CountedUnder_Other(label) == ~label

CountedUnder(label) == label

(* One example of train: a row of write_gate_decision, candidate and kept.    *)
(* The judge may have decided differently about the same text before.         *)
Train ==
    /\ Len(trained) < MaxExamples
    /\ \E text \in Candidates, label \in BOOLEAN :
         /\ docs' = [docs EXCEPT ![label] = @ + 1]
         /\ vocab' = vocab \cup Range(text)
         /\ counts' = [counts EXCEPT ![CountedUnder(label)] =
                         [w \in Words |-> @[w] + Counted(text)[w]]]
         /\ totals' = [totals EXCEPT ![label] = @ + Len(text)]
         /\ trained' = Append(trained, <<text, label>>)

ClassInit ==
    /\ docs = [l \in BOOLEAN |-> 0] /\ totals = docs
    /\ counts = [l \in BOOLEAN |-> [w \in Words |-> 0]]
    /\ vocab = {} /\ trained = <<>>

ClassSpec == ClassInit /\ [][Train]_classVars

Known == Max({Cardinality(vocab), 1})

(* The factors of a label: its prior and, Laplace-smoothed, each word's share *)
(* of the label's words.  A fraction is <<numerator, denominator>>.           *)
Prior(l) ==
    IF docs[l] = 0 THEN <<1, Never>> ELSE <<docs[l], docs[TRUE] + docs[FALSE]>>

Factors(l, text) ==
    <<Prior(l)>> \o [i \in DOMAIN text |->
                       <<counts[l][text[i]] + 1, totals[l] + Known>>]

Product(fractions, part) ==
    LET upTo[n \in 0 .. Len(fractions)] ==
          IF n = 0 THEN 1 ELSE fractions[n][part] * upTo[n - 1]
    IN  upTo[Len(fractions)]

(* TRUE's score minus FALSE's, over a positive denominator.                   *)
Lead(text) ==
    LET k == Factors(TRUE, text)  d == Factors(FALSE, text) IN
      Product(k, 1) * Product(d, 2) - Product(d, 1) * Product(k, 2)

(* What predict may answer: the better label, TRUE if the factors are the     *)
(* same; equal products of other factors fall to the rounding of logarithms.  *)
Predict(text) ==
    IF Lead(text) > 0 \/ Factors(TRUE, text) = Factors(FALSE, text) THEN {TRUE}
    ELSE IF Lead(text) < 0 THEN {FALSE} ELSE BOOLEAN
------------------------------------------------------------------------------
(* The examples of label l, and every place of a word in them.                *)
Mine(l)   == {i \in DOMAIN trained : trained[i][2] = l}
Places(l) == UNION {{i} \X DOMAIN trained[i][1] : i \in Mine(l)}

(* What the classifier knows is what one pass over its examples would count,  *)
(* in whatever order and however often they came: train may be called again   *)
(* as decisions are logged.                                                   *)
CountersExact ==
    /\ \A l \in BOOLEAN :
         /\ docs[l] = Cardinality(Mine(l))
         /\ totals[l] = Cardinality(Places(l))
         /\ \A w \in Words : counts[l][w] =
              Cardinality({at \in Places(l) : trained[at[1]][1][at[2]] = w})
    /\ vocab = {w \in Words : counts[TRUE][w] + counts[FALSE][w] > 0}

(* Another example of a text whose words are all known never turns an answer  *)
(* that was right for it into a wrong one.  A text with a new word may fare   *)
(* worse: its word enlarges the vocabulary, which weakens every share.        *)
LearnsWhatItIsTold ==
    [][\A text \in Candidates, label \in BOOLEAN :
         /\ trained' = Append(trained, <<text, label>>) /\ Range(text) \subseteq vocab
         /\ Predict(text) = {label}
         => Predict(text)' = {label}]_classVars
------------------------------------------------------------------------------
(* The inductive invariant of the counters.                                   *)
CountersInv ==
    /\ docs \in [BOOLEAN -> Nat] /\ totals \in [BOOLEAN -> Nat]
    /\ counts \in [BOOLEAN -> [Words -> Nat]]
    /\ trained \in Seq(Candidates \X BOOLEAN)
    /\ \A l \in BOOLEAN : IsFiniteSet(Mine(l)) /\ IsFiniteSet(Places(l))
    /\ CountersExact
=============================================================================
