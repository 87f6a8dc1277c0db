------------------------------ MODULE Decoder ------------------------------
(***************************************************************************)
(* The translation of one sentence: sentence_decoder queries the models    *)
(* PhraseTables loaded, computes the future costs, and multi_stack expands *)
(* the hypotheses level by level, the ones that cover the same number of   *)
(* source words competing for the places of one StackLevel.  Meanwhile the *)
(* task may be told to stop, and the administrator's console may change    *)
(* the decoder's parameters, which all decoders read as they go.  Source   *)
(* words are numbered from 0, as in the code.  Scores are integers.        *)
(***************************************************************************)
EXTENDS PhraseTables, StackLevel

CONSTANTS
  MaxTargetLen,        \* TM_MAX_TARGET_PHRASE_LEN
  MaxWords,            \* MAX_WORDS_PER_SENTENCE
  CapacityValues,      \* 2^32: a stack capacity is a uint32_t
  MaxConsoleCommands   \* bound on set_decoder_params

ASSUME BoundsType ==
  /\ MaxTargetLen \in Nat /\ MaxWords \in Nat /\ MaxConsoleCommands \in Nat
  /\ CapacityValues \in Nat \ {0}

VARIABLES
  pc,         \* what the decoder does next
  isStop,     \* m_is_stop
  params,     \* m_de_params, shared with the console
  commands,   \* how often the console has changed the parameters
  isDist,     \* the template parameter chosen by perform_translation
  limitDropped, \* the console gave a search that has a limit a negative one (history)
  sentData,   \* sentence_data_map: span -> its source entry
  future,     \* sentence_data_map: span -> its future cost
  rmQuery,    \* rm_query: uid -> reordering weights
  levels,     \* multi_stack::m_levels
  currLevel, currPos,   \* the level and the state in it that are expanded
  offered,    \* level -> all states ever given to its add_state (history)
  result      \* how translate ended, and the path of the best state

decoderVars == <<pc, isStop, params, commands, isDist, limitDropped, sentData, future, rmQuery,
                 levels, currLevel, currPos, offered, result>>
vars == <<tableVars, decoderVars>>

NumWords == Len(inst.sentence)
Positions == 0..(NumWords - 1)
Spans == {s \in Positions \X Positions : s[1] <= s[2]}
Length(s) == s[2] - s[1] + 1
SourcePhrase(s) == SubSeq(inst.sentence, s[1] + 1, s[2] + 1)
LastWords(words, n) == SubSeq(words, Len(words) - MinOf(Len(words), n) + 1, Len(words))
MaxSetOf(S) == CHOOSE x \in S : \A y \in S : y <= x
FirstOf(n) == IF n > 0 THEN 1..n ELSE {}
Abs(x) == IF x < 0 THEN -x ELSE x

NoResult == [kind |-> "none", path |-> <<>>]
Ended(kind, path) == /\ result' = [kind |-> kind, path |-> path]
                     /\ pc' = "done"

Init ==
  /\ TablesInit
  /\ pc = "idle" /\ isStop = FALSE /\ commands = 0 /\ isDist = FALSE
  /\ limitDropped = FALSE
  /\ params = inst.params
  /\ sentData = <<>> /\ future = <<>> /\ rmQuery = <<>>
  /\ levels = <<>> /\ currLevel = 0 /\ currPos = 1 /\ offered = <<>>
  /\ result = NoResult

\* The loading of the models, before there are any requests.
LoadTables == TablesNext /\ UNCHANGED decoderVars

-----------------------------------------------------------------------------
(* The phases before the search *)

\* translate(): an empty sentence and one that is too long are refused.
Translate ==
  /\ phase = "ready" /\ pc = "idle"
  /\ IF NumWords \in 1..MaxWords
     THEN pc' = "query_tm" /\ UNCHANGED result
     ELSE Ended("failed", <<>>)
  /\ UNCHANGED <<tableVars, isStop, params, commands, isDist, limitDropped, sentData, future,
                 rmQuery, levels, currLevel, currPos, offered>>

\* Between its phases translate() returns, with no target, if it has to stop.
Stopped ==
  /\ isStop /\ pc \in {"future", "query_rm", "perform"}
  /\ Ended("empty", <<>>)
  /\ UNCHANGED <<tableVars, isStop, params, commands, isDist, limitDropped, sentData, future,
                 rmQuery, levels, currLevel, currPos, offered>>

QueryTranslationModel ==
  /\ pc = "query_tm" /\ pc' = "future"
  /\ sentData' = [s \in Spans |-> IF Length(s) <= inst.maxPhraseLen
                                  THEN GetSourceEntry(SourcePhrase(s)) ELSE NoElement]
  /\ UNCHANGED <<tableVars, isStop, params, commands, isDist, limitDropped, future, rmQuery,
                 levels, currLevel, currPos, offered, result>>

\* initialize_future_costs: a phrase without a translation has the undefined
\* cost, unless it is a word.
InitialCost(s) ==
  IF sentData[s] # NoElement /\ (sentData[s].known \/ Length(s) = 1)
  THEN sentData[s].minCost ELSE UnknownCost

\* The best way to cut a span, each part at its own initial cost at most.
ComputeFutureCosts ==
  /\ pc = "future" /\ ~isStop /\ pc' = "query_rm"
  /\ future' =
       LET cost[s \in Spans] ==
             MaxSetOf({InitialCost(s)} \cup
                      {cost[<<s[1], m>>] + cost[<<m + 1, s[2]>>] : m \in s[1]..(s[2] - 1)})
       IN cost
  /\ UNCHANGED <<tableVars, isStop, params, commands, isDist, limitDropped, sentData, rmQuery,
                 levels, currLevel, currPos, offered, result>>

\* The uids of the pairs that the query of the translation model found.
QueriedUids ==
  UNION {{sentData[s].targets[i].uid : i \in 1..Len(sentData[s].targets)} :
           s \in {t \in Spans : sentData[t] # NoElement}}

QueryReorderingModel ==
  /\ pc = "query_rm" /\ ~isStop /\ pc' = "perform"
  /\ rmQuery' = [uid \in QueriedUids |-> GetReordering(uid)]
  /\ UNCHANGED <<tableVars, isStop, params, commands, isDist, limitDropped, sentData, future,
                 levels, currLevel, currPos, offered, result>>

-----------------------------------------------------------------------------
(* The reordering weights: the TO half of an entry's, then the FROM half.  *)
(* Orientations beyond a half's length share its last weight.              *)

Orientations == [monotone |-> 1, swap |-> 2, discont_left |-> 3, discont_right |-> 4]
ToWeights(weights) == SubSeq(weights, 1, Len(weights) \div 2)
FromWeights(weights) == SubSeq(weights, Len(weights) \div 2 + 1, Len(weights))
GetWeight(half, orient) == half[MinOf(Orientations[orient], Len(half))]

GetReorderingOrientation(prevBegin, prevEnd, nextBegin, nextEnd) ==
  IF nextBegin < prevEnd
  THEN IF prevBegin - nextEnd = 1 THEN "swap" ELSE "discont_left"
  ELSE IF nextBegin - prevEnd = 1 THEN "monotone" ELSE "discont_right"

-----------------------------------------------------------------------------
(* The hypotheses.  frame is the circular queue of the last target words,  *)
(* history the part of it that recombination and the language model see,   *)
(* fncs where the search for the first uncovered word begins, path the     *)
(* phrases of the state and its parents.                                   *)

FrameCapacity == LmMax - 1 + MaxTargetLen
PushBack(frame, words) == LastWords(frame \o words, FrameCapacity)

RootState ==
  [begin |-> -1, end |-> -1, level |-> 0, fncs |-> 0, covered |-> {},
   frame |-> BeginTag, history |-> LastWords(BeginTag, LmMax - 1), lmLevel |-> 1,
   from |-> FromWeights(RmEntry(BeginTag, BeginTag)),
   partial |-> 0, total |-> 0, path |-> <<>>]

\* Mutant: the words of the history are scored again.
LmQueryAll(prev, words) ==
  ExecuteQuery(inst.lm, LastWords(prev.frame, LmMax - 1) \o words, 1)

\* get_lm_cost: the new words, given the last LmMax - 1 words before them.
LmQuery(prev, words) ==
  ExecuteQuery(inst.lm, LastWords(prev.frame, LmMax - 1) \o words, prev.lmLevel)

LinDistCost(prev, begin) == params.penalty * (- Abs(begin - prev.end - 1))

LexRmCost(prev, begin, end, weights) ==
  LET orient == GetReorderingOrientation(prev.begin, prev.end, begin, end)
  IN GetWeight(prev.from, orient) + GetWeight(ToWeights(weights), orient)

\* compute_total_score: the costs of the maximal uncovered spans are added.
UncoveredSpans(covered) ==
  {s \in Spans : /\ \A i \in s[1]..s[2] : i \notin covered
                 /\ s[1] - 1 \in covered \cup {-1}
                 /\ s[2] + 1 \in covered \cup {NumWords}}
FutureCost(covered) == SumFunctionOnSet(future, UncoveredSpans(covered))

PhraseState(prev, fncs, span, target) ==
  LET covered == prev.covered \cup span[1]..span[2]
      lm == LmQuery(prev, target.words)
      weights == rmQuery[target.uid]
      frame == PushBack(prev.frame, target.words)
      partial == prev.partial + target.weight + lm.cost + LinDistCost(prev, span[1])
                 + LexRmCost(prev, span[1], span[2], weights)
  IN [begin |-> span[1], end |-> span[2], level |-> prev.level + Length(span),
      fncs |-> fncs, covered |-> covered, frame |-> frame,
      history |-> LastWords(frame, LmMax - 1), lmLevel |-> lm.level,
      from |-> FromWeights(weights), partial |-> partial,
      total |-> partial + FutureCost(covered),
      path |-> Append(prev.path, [span |-> span, target |-> target])]

\* The state for </s>: its position is that after the last word.
EndState(prev) ==
  LET lm == LmQuery(prev, EndTag)
      weights == RmEntry(EndTag, EndTag)
      frame == PushBack(prev.frame, EndTag)
      score == prev.partial + lm.cost + LinDistCost(prev, NumWords)
               + LexRmCost(prev, NumWords, NumWords, weights)
  IN [prev EXCEPT !.begin = NumWords, !.end = NumWords, !.level = @ + 1,
                  !.fncs = NumWords - 1, !.frame = frame,
                  !.history = LastWords(frame, LmMax - 1), !.lmLevel = lm.level,
                  !.from = FromWeights(weights), !.partial = score, !.total = score]

-----------------------------------------------------------------------------
(* The search *)

\* Mutant: words without translations are not copied.
ExpandsKnown(covered, span) ==
  /\ span[2] < NumWords /\ \A i \in span[1]..span[2] : i \notin covered
  /\ sentData[span].known

\* expand_length: the phrases that begin in an uncovered word are the word
\* itself, and longer ones that have translations, up to the next covered word.
Expands(covered, span) ==
  /\ span[2] < NumWords /\ \A i \in span[1]..span[2] : i \notin covered
  /\ Length(span) = 1 \/ sentData[span].known

\* expand_from_first_non_covered: first to the right of the last phrase, as far
\* as the distortion limit allows at this moment, then to the left of it, down
\* to the first uncovered word.
StatesAfter(s) ==
  LET firstNc == CHOOSE p \in s.fncs..(NumWords - 1) :
                   p \notin s.covered /\ \A q \in s.fncs..(p - 1) : q \in s.covered
      maxRight == IF isDist THEN MinOf(NumWords - 1, firstNc + params.distLimit)
                            ELSE NumWords - 1
      right == [i \in FirstOf(maxRight - s.end) |-> s.end + i]
      left == [i \in FirstOf(s.begin - firstNc) |-> s.begin - i]
      begins == right \o left
      fncsFor(span) == IF span[1] = firstNc THEN span[2] + 1 ELSE firstNc
      translations(span) == [i \in 1..Len(sentData[span].targets) |->
                               PhraseState(s, fncsFor(span), span, sentData[span].targets[i])]
      translationsFrom(p) ==
        FlattenSeq([length \in 1..inst.maxPhraseLen |->
                      IF Expands(s.covered, <<p, p + length - 1>>)
                      THEN translations(<<p, p + length - 1>>) ELSE <<>>])
  IN FlattenSeq([i \in 1..Len(begins) |-> translationsFrom(begins[i])])

\* stack_state::expand, which gives all it makes to the levels they belong to.
NewStates(s) ==
  IF Cardinality(s.covered) = NumWords THEN <<EndState(s)>> ELSE StatesAfter(s)

AddStates(stack, states, ps) ==
  FoldLeft(LAMBDA ls, s : [ls EXCEPT ![s.level] = AddState(@, s, ps)], stack, states)

\* perform_translation: whether the distortion is limited is decided here, once
\* and for all; the limit itself is read later.
PerformTranslation ==
  /\ pc = "perform" /\ ~isStop /\ pc' = "expand"
  /\ isDist' = (params.distLimit >= 0)
  /\ levels' = AddStates([l \in 0..(NumWords + 1) |-> EmptyLevel], <<RootState>>, params)
  /\ offered' = [l \in 0..(NumWords + 1) |-> IF l = 0 THEN {RootState} ELSE {}]
  /\ currLevel' = 0 /\ currPos' = 1
  /\ UNCHANGED <<tableVars, isStop, params, commands, limitDropped, sentData, future, rmQuery, result>>

\* One state is expanded.  The parameters are read once here, for all the states
\* that this makes; in the code only the limit is, and a command that comes in
\* the middle changes the capacity, the threshold and the penalty for the rest.
ExpandState ==
  /\ pc = "expand" /\ ~isStop /\ currLevel <= NumWords
  /\ currPos <= Len(levels[currLevel].states)
  /\ LET new == NewStates(levels[currLevel].states[currPos])
     IN /\ levels' = AddStates(levels, new, params)
        /\ offered' = [l \in DOMAIN offered |-> offered[l] \cup {s \in ToSet(new) : s.level = l}]
  /\ currPos' = currPos + 1
  /\ UNCHANGED <<tableVars, pc, isStop, params, commands, isDist, limitDropped, sentData, future,
                 rmQuery, currLevel, result>>

NextLevel ==
  /\ pc = "expand" /\ ~isStop /\ currLevel <= NumWords
  /\ currPos > Len(levels[currLevel].states)
  /\ currLevel' = currLevel + 1 /\ currPos' = 1
  /\ UNCHANGED <<tableVars, pc, isStop, params, commands, isDist, limitDropped, sentData, future,
                 rmQuery, levels, offered, result>>

\* get_best_trans throws when no state covers the sentence; a decoder that was
\* told to stop gives the source sentence back then.
GetBestTrans ==
  /\ pc = "expand" /\ (isStop \/ currLevel > NumWords)
  /\ LET final == levels[NumWords + 1].states
     IN CASE final # <<>> -> Ended("translated", final[1].path)
          [] final = <<>> -> Ended(IF isStop THEN "source" ELSE "failed", <<>>)
  /\ UNCHANGED <<tableVars, isStop, params, commands, isDist, limitDropped, sentData, future,
                 rmQuery, levels, currLevel, currPos, offered>>

-----------------------------------------------------------------------------
(* The others *)

\* trans_task::cancel, at any time.
Stop ==
  /\ pc \notin {"idle", "done"} /\ ~isStop /\ inst.mayStop
  /\ isStop' = TRUE
  /\ UNCHANGED <<tableVars, pc, params, commands, isDist, limitDropped, sentData, future, rmQuery,
                 levels, currLevel, currPos, offered, result>>

\* The value that a command sets: a capacity becomes unsigned.
NewValue(command) == IF command.name = "capacity" THEN command.value % CapacityValues
                                                  ELSE command.value

\* Mutant: the new parameters are not checked.
SetDecoderParamsUnchecked(command) ==
  /\ pc \notin {"idle", "done"} /\ commands < MaxConsoleCommands
  /\ params' = [params EXCEPT ![command.name] = NewValue(command)]
  /\ commands' = commands + 1
  /\ UNCHANGED <<tableVars, pc, isStop, isDist, limitDropped, sentData, future, rmQuery, levels,
                 currLevel, currPos, offered, result>>

\* One command of the console changes one parameter of the running decoders.
\* finalize() has checked a threshold and a capacity, not a limit.
SetDecoderParams(command) ==
  /\ pc \notin {"idle", "done"} /\ commands < MaxConsoleCommands
  /\ command.name = "capacity" => NewValue(command) > 0
  /\ command.name = "threshold" => command.value < 0
  /\ params' = [params EXCEPT ![command.name] = NewValue(command)]
  /\ limitDropped' = (limitDropped \/ (isDist /\ command.name = "distLimit" /\ command.value < 0))
  /\ commands' = commands + 1
  /\ UNCHANGED <<tableVars, pc, isStop, isDist, sentData, future, rmQuery, levels,
                 currLevel, currPos, offered, result>>

DecoderStep ==
  \/ Translate
  \/ Stopped
  \/ QueryTranslationModel
  \/ ComputeFutureCosts
  \/ QueryReorderingModel
  \/ PerformTranslation
  \/ ExpandState
  \/ NextLevel
  \/ GetBestTrans

\* Nothing is left to do: the models could not be loaded, or the decoder is done.
Terminated == (phase = "failed" \/ pc = "done") /\ UNCHANGED vars

Next ==
  \/ LoadTables
  \/ DecoderStep
  \/ Stop
  \/ \E command \in inst.console : SetDecoderParams(command)
  \/ Terminated

Spec == Init /\ [][Next]_vars

-----------------------------------------------------------------------------
(* Properties *)

Unstarted == phase # "ready" \/ pc \in {"idle", "query_tm", "future", "query_rm", "perform"}
Decoding == pc = "expand" \/ (pc = "done" /\ levels # <<>>)

TypeOK ==
  /\ phase \in {"tm", "convert", "count", "build", "ready", "failed"}
  /\ line \in Nat /\ rmCount \in 0..Len(inst.rmFile)
  /\ toConvert \subseteq DOMAIN lists
  /\ pc \in {"idle", "query_tm", "future", "query_rm", "perform", "expand", "done"}
  /\ isStop \in BOOLEAN /\ isDist \in BOOLEAN /\ limitDropped \in BOOLEAN
  /\ commands \in 0..MaxConsoleCommands
  /\ params \in [distLimit : Int, threshold : Int, capacity : Nat \ {0}, penalty : Int]
  /\ Decoding => /\ DOMAIN future = Spans /\ DOMAIN levels = 0..(NumWords + 1)
                 /\ currLevel \in 0..(NumWords + 1) /\ currPos \in Nat \ {0}
  /\ result.kind \in {"none", "translated", "source", "empty", "failed"}
  /\ pc = "done" <=> result # NoResult

\* The capacities there have been: a level is only cut when a state comes in.
Capacities == {inst.params.capacity} \cup
              {NewValue(c) : c \in {d \in inst.console : d.name = "capacity"}}

\* Some state of the level stands for s, and is no worse.
Dominated(s, l) ==
  \E i \in 1..Len(levels[l].states) :
    SameSubproblem(levels[l].states[i], s) /\ levels[l].states[i].total >= s.total

\* The list of a level survives every insertion, recombination and pruning: it
\* is ordered, holds one state per sub-problem, all of them of this level's
\* coverage and above its bound, and never more than a capacity allowed.  And
\* the beam loses nothing it should keep, whatever the order in which the
\* states came (until the console changes the parameters): each state that was
\* ever given to a level is there, or was recombined into a state that is no
\* worse, or falls below the bound that the level's best state sets, or a full
\* level holds no worse state.
LevelsKeepBest ==
  Decoding => \A l \in DOMAIN levels :
    LET states == levels[l].states
        best == states[1].total
    IN /\ \E capacity \in Capacities : Len(states) <= capacity
       /\ \A i \in 1..Len(states) :
            /\ states[i].level = l /\ states[i].total >= levels[l].bound
            /\ Cardinality(states[i].covered) = MinOf(l, NumWords)
            /\ \A j \in (i + 1)..Len(states) :
                 states[i].total >= states[j].total /\ ~SameSubproblem(states[i], states[j])
       /\ commands = 0 => \A s \in offered[l] :
            /\ states # <<>> /\ best >= s.total /\ levels[l].bound = best + params.threshold
            /\ \/ Dominated(s, l)
               \/ s.total < levels[l].bound
               \/ Len(states) = params.capacity /\ Last(states).total >= s.total

-----------------------------------------------------------------------------
(* Reference definitions: a derivation is the sequence of its phrases.     *)

\* Katz back-off, by the length k of the context, of the word at position i.
KatzProb(lm, w, i) ==
  LET prob[k \in 0..MinOf(i - 1, LmMax - 1)] ==
        CASE k = 0 -> UniGramProb(lm, w, i)
          [] k > 0 /\ SubSeq(w, i - k, i) \in DOMAIN lm.prob -> lm.prob[SubSeq(w, i - k, i)]
          [] OTHER -> prob[k - 1] + (IF SubSeq(w, i - k, i - 1) \in DOMAIN lm.back
                                     THEN lm.back[SubSeq(w, i - k, i - 1)] ELSE 0)
  IN prob[MinOf(i - 1, LmMax - 1)]

SumUpTo(n, f(_)) == SumFunction([i \in 1..n |-> f(i)])

\* The span before the i-th phrase; the one after the last is that of </s>.
SpanAt(path, i) ==
  CASE i = 0 -> <<-1, -1>>
    [] i = Len(path) + 1 -> <<NumWords, NumWords>>
    [] OTHER -> path[i].span
UidAt(path, i) ==
  CASE i = 0 -> <<BeginTag, BeginTag>>
    [] i = Len(path) + 1 -> <<EndTag, EndTag>>
    [] OTHER -> path[i].target.uid

\* Is the step from span s to span t a swap, a jump, or none of them?
OrientationOf(s, t) ==
  CASE t[1] = s[2] + 1 -> "monotone"
    [] t[2] = s[1] - 1 -> "swap"
    [] t[1] > s[2] + 1 -> "discont_right"
    [] OTHER           -> "discont_left"

\* The score of a derivation's first `steps` phrases, </s> counting as one.
DerivationScore(path, steps) ==
  LET phraseWords == FlattenSeq([i \in 1..Len(path) |-> path[i].target.words])
      words == BeginTag \o phraseWords \o (IF steps > Len(path) THEN EndTag ELSE <<>>)
      clipped(i) == IF KatzProb(inst.lm, words, i) >= ZeroWeight
                    THEN KatzProb(inst.lm, words, i) ELSE 0
      tm(i) == path[i].target.weight
      distance(i) == Abs(SpanAt(path, i)[1] - SpanAt(path, i - 1)[2] - 1)
      reordering(i) ==
        LET orient == OrientationOf(SpanAt(path, i - 1), SpanAt(path, i))
        IN GetWeight(FromWeights(GetReordering(UidAt(path, i - 1))), orient)
           + GetWeight(ToWeights(GetReordering(UidAt(path, i))), orient)
  IN IF steps = 0 THEN 0
     ELSE SumUpTo(Len(words), clipped) + SumUpTo(Len(path), tm)
          - inst.params.penalty * SumUpTo(steps, distance) + SumUpTo(steps, reordering)

\* The best cutting of the uncovered words into phrases, left to right.
BestCutting(covered) ==
  LET best[p \in 0..NumWords] ==
        CASE p = NumWords -> 0
          [] p \in covered -> best[p + 1]
          [] OTHER -> MaxSetOf({InitialCost(<<p, e>>) + best[e + 1] :
                        e \in {x \in Positions : x >= p /\ \A i \in p..x : i \notin covered}})
  IN best[0]

CoveredBy(path) == UNION {path[i].span[1]..path[i].span[2] : i \in 1..Len(path)}

\* A state's scores, accumulated over its parents with the language model
\* asked for a few words at a time, are those of its derivation as a whole:
\* every target word, <s> and </s> included, is scored once in its full
\* context, and the estimate is the best cutting of the rest.  (The console
\* may change the penalty underneath.)
ScoreIsDerivationScore ==
  Decoding /\ commands = 0 => \A l \in DOMAIN levels : \A i \in 1..Len(levels[l].states) :
    LET s == levels[l].states[i]
        steps == Len(s.path) + (IF l = NumWords + 1 THEN 1 ELSE 0)
    IN /\ s.covered = CoveredBy(s.path)
       /\ s.partial = DerivationScore(s.path, steps)
       /\ l > 0 => s.total = s.partial + BestCutting(s.covered)

\* All ways to translate the sentence: a phrase begins in an uncovered word at
\* most the distortion limit after the first uncovered one.
Extensions(path) ==
  LET open == Positions \ CoveredBy(path)
      first == CHOOSE p \in open : \A q \in open : p <= q
      spans == {s \in Spans : /\ s[1]..s[2] \subseteq open
                              /\ Length(s) <= inst.maxPhraseLen
                              /\ isDist => s[1] <= first + inst.params.distLimit
                              /\ Length(s) = 1 \/ sentData[s].known}
  IN IF open = {} THEN {path}
     ELSE UNION {{Append(path, [span |-> s, target |-> sentData[s].targets[i]]) :
                    i \in 1..Len(sentData[s].targets)} : s \in spans}
Derivations ==
  FoldLeft(LAMBDA paths, i : UNION {Extensions(p) : p \in paths},
           {<<>>}, [i \in 1..NumWords |-> i])

NothingPruned == \A l \in DOMAIN levels : \A s \in offered[l] : Dominated(s, l)
FoundBest ==
  \A path \in Derivations :
    levels[NumWords + 1].states[1].total >= DerivationScore(path, Len(path) + 1)

\* stack_state::operator==: "the states are equal if the solve the same
\* sub-problem", so that dropping the worse one cannot lose the best translation.
RecombinationKeepsBest ==
  result.kind = "translated" /\ ~isStop /\ commands = 0 /\ NothingPruned => FoundBest

\* The search is exact when nothing is pruned, if the reordering model does not
\* tell a swap from a jump to the left: recombination forgets where the last
\* phrase began.
ReorderingClasses == Len(inst.rmFile[1].weights) \div 2
BestTranslation == ReorderingClasses <= 2 => RecombinationKeepsBest

\* A decoder that nobody stops, and whose search keeps its distortion limit,
\* ends with a translation, whatever is pruned and recombined, whatever capacity,
\* threshold and penalty the console sets, and to whatever length it sets the
\* limit (to a negative one only where the search began without a limit): every
\* source word is translated once, by a translation that the tables keep for the
\* phrase, or copied if there is none.
UnstoppedTranslates ==
  pc = "done" /\ ~isStop /\ ~limitDropped /\ NumWords \in 1..MaxWords =>
    /\ result.kind = "translated"
    /\ CoveredBy(result.path) = Positions
    /\ \A i \in 1..Len(result.path) :
         LET s == result.path[i].span
         IN /\ \A j \in 1..(i - 1) : result.path[j].span[2] < s[1] \/ s[2] < result.path[j].span[1]
            /\ \E k \in 1..Len(GetSourceEntry(SourcePhrase(s)).targets) :
                 result.path[i].target = GetSourceEntry(SourcePhrase(s)).targets[k]

\* "A negative value means no distortion limit" (data/server-1-10.000.9001.cfg),
\* so that a search that nobody stops ends with a translation when the console
\* takes the limit away as well.  perform_translation chose whether there is
\* a limit before, and the search goes on with a negative one.
NegativeLimitIsNoLimit ==
  pc = "done" /\ ~isStop /\ NumWords \in 1..MaxWords => result.kind = "translated"
=============================================================================
