--------------------------- MODULE LanguageModel ---------------------------
(***************************************************************************)
(* The query of the language model: the sliding window of                  *)
(* lm_fast_query_proxy_local::execute_query over the walk that             *)
(* generic_trie_base::execute makes in the matrix of sub-m-grams.  A model *)
(* is a record: the log-probability of each of its m-grams, the back-off   *)
(* weight of those that have one, and what its bitmap hash cache lets      *)
(* through.  Words are 1-based here, an m-gram is a sequence of words.     *)
(***************************************************************************)
EXTENDS Integers, Sequences, SequencesExt

CONSTANTS
  Words,       \* the words of the models and of the sentences
  LmMax,       \* LM_M_GRAM_LEVEL_MAX
  UnkWord,     \* UNKNOWN_WORD_ID: a word the model does not know
  ZeroWeight   \* ZERO_LOG_PROB_WEIGHT: nothing below it is added to a joint

ASSUME LmMaxAssumption == LmMax \in Nat \ {0, 1}
ASSUME UnkWordAssumption == UnkWord \in Words

\* A loaded model has a payload for the unknown word.
LmFields(lm) ==
  /\ <<UnkWord>> \in DOMAIN lm.prob
  /\ \A gram \in DOMAIN lm.prob : lm.prob[gram] \in Int
  /\ \A gram \in DOMAIN lm.back : lm.back[gram] \in Int

\* What the loading of an ARPA file asserts of its m-grams: the context of each
\* is there, and only what is there has a back-off weight.  Where the bitmap
\* sorts out the m-grams that begin or end in the unknown word, the file has none.
LmClosed(lm) ==
  /\ DOMAIN lm.back \subseteq DOMAIN lm.prob
  /\ \A gram \in DOMAIN lm.prob : Len(gram) > 1 =>
       /\ Front(gram) \in DOMAIN lm.prob
       /\ lm.cached => gram[1] # UnkWord /\ Last(gram) # UnkWord

MinOf(a, b) == IF a <= b THEN a ELSE b

\* Is the m-gram w[b..e] worth a look-up?  The bitmap may let an absent one
\* through (a collision of hashes), it never stops a present one.
IsMGramPotentiallyPresent(lm, w, b, e) ==
  lm.cached => /\ w[b] # UnkWord /\ w[e] # UnkWord
               /\ SubSeq(w, b, e) \in DOMAIN lm.prob \cup lm.collisions

\* The m-gram w[b..e] is looked up in the cache first, then in the trie.
Found(lm, w, b, e) ==
  IsMGramPotentiallyPresent(lm, w, b, e) /\ SubSeq(w, b, e) \in DOMAIN lm.prob

BackOff(lm, w, b, e) ==
  IF SubSeq(w, b, e) \in DOMAIN lm.back THEN lm.back[SubSeq(w, b, e)] ELSE 0

\* A uni-gram always has a payload, the unknown word's if it has to be.
UniGramProb(lm, w, e) ==
  IF <<w[e]>> \in DOMAIN lm.prob THEN lm.prob[<<w[e]>>] ELSE lm.prob[<<UnkWord>>]

\* Down the column of the m-grams that end in word e, from row `from`: the row
\* of the first one that is found, or of the uni-gram.
RowFound(lm, w, from, e) ==
  CHOOSE r \in from..e : /\ r = e \/ Found(lm, w, r, e)
                         /\ \A q \in from..(r - 1) : ~Found(lm, w, q, e)

\* What the column adds up: the back-off weight of every context that is left
\* on the way down, and the probability of what was found.
ColumnProb(lm, w, from, e) ==
  LET r == RowFound(lm, w, from, e)
  IN SumFunction([q \in from..(r - 1) |-> BackOff(lm, w, q, e - 1)])
     + IF r = e THEN UniGramProb(lm, w, e) ELSE lm.prob[SubSeq(w, r, e)]

\* execute_query: the joint log-probability of the words from minLevel on,
\* each given at most LmMax - 1 words before it, and the level that the next
\* query over these words and more has to begin with.  The first window covers
\* the columns up to LmMax, and the walk enters a column in the row where it
\* left the one before; then the window slides on word by word.
ExecuteQuery(lm, w, minLevel) ==
  LET first[e \in minLevel..Len(w)] ==
        CASE e >= LmMax + 1 -> e - LmMax + 1
          [] e = minLevel /\ e <= LmMax -> 1
          [] OTHER -> RowFound(lm, w, first[e - 1], e - 1)
      probs == [e \in minLevel..Len(w) |-> ColumnProb(lm, w, first[e], e)]
  IN [cost |-> SumFunctionOnSet(probs, {e \in minLevel..Len(w) : probs[e] >= ZeroWeight}),
      level |-> MinOf(MinOf(Len(w), LmMax) + 1, LmMax)]

\* The whole-phrase query the builder of the translation model makes.
Execute(lm, w) == ExecuteQuery(lm, w, 1).cost
=============================================================================
