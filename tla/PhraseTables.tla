---------------------------- MODULE PhraseTables ----------------------------
(***************************************************************************)
(* The loading of the translation and the reordering models at the start   *)
(* of the translation server: tm_basic_builder reads the phrase table,     *)
(* keeps the best translations of every source phrase and stores them in a *)
(* hash map; rm_basic_builder reads the reordering table twice, to count   *)
(* and then to store the entries of the pairs that the translation model   *)
(* kept.  The files, the language model and the parameters are one         *)
(* instance, chosen initially.  A phrase's uid is the phrase itself (the   *)
(* hashes that make uids are taken not to collide).                        *)
(***************************************************************************)
EXTENDS FixedHashMap, LanguageModel, Functions

CONSTANTS
  Instances,      \* what the server can be started with, see InstanceFields
  NoPhrase,       \* no source phrase read yet
  UnkPhrase,      \* UNK, as a source and as a target of the reordering table
  BeginTag,       \* <s>, as a phrase of the reordering table
  EndTag          \* </s>

\* What finalize() lets the decoder's parameters be.
DecoderParams == [distLimit : Int, threshold : {t \in Int : t < 0}, capacity : Nat \ {0}, penalty : Int]

\* The files' lines are parsed; a reordering entry has one to four weights for
\* each half, and they all have as many (NUMBER_OF_RM_FEATURES).
InstanceFields(i) ==
  /\ i.tmFile \in Seq([source : Seq(Words), words : Seq(Words), weight : Int, passes : BOOLEAN])
  /\ i.rmFile \in Seq([source : Seq(Words), target : Seq(Words), weights : Seq(Int)])
  /\ \A k \in 1..Len(i.rmFile) : /\ Len(i.rmFile[k].weights) \in {2, 4, 6, 8}
                                 /\ Len(i.rmFile[k].weights) = Len(i.rmFile[1].weights)
  /\ LmFields(i.lm)
  /\ i.transLimit \in Nat /\ i.unkWeight \in Int
  /\ i.maxPhraseLen \in Nat \ {0} /\ i.sentence \in Seq(Words) /\ i.params \in DecoderParams
  /\ \A c \in i.console : c.name \in {"distLimit", "threshold", "capacity", "penalty"} /\ c.value \in Int

ASSUME InstancesAssumption == \A i \in Instances : InstanceFields(i)
ASSUME PhrasesAssumption == {UnkPhrase, BeginTag, EndTag} \subseteq Seq(Words)
\* <s> and </s> are one word each.
TagsAreWords == Len(BeginTag) = 1 /\ Len(EndTag) = 1

\* A translation, a source entry and the weights of a reordering entry.
Uids == Seq(Words) \X Seq(Words)
Targets == [words : Seq(Words), weight : Int, lmWeight : Int, uid : Uids]
Entries == [targets : Seq(Targets), known : BOOLEAN, minCost : Int]
ASSUME NoElementAssumption == NoElement \notin Entries \cup Seq(Int)

\* ordered_list::CAPACITY_THRESHOLD: a limit not above it means no limit.
CAPACITY_THRESHOLD == 2

\* SOURCES_BUCKETS_FACTOR of both models.
SOURCES_BUCKETS_FACTOR == 3

VARIABLES
  inst,      \* the instance: files, language model, parameters, sentence
  phase,     \* "tm", "convert", "count", "build", "ready" or "failed"
  line,      \* the next line of the file that is read
  source,    \* source_str: the source phrase of the previous line
  lists,     \* m_data: source phrase -> its list of translations, best first
  tmData,    \* tm_basic_model::m_tm_data
  toConvert, \* the lists convert_tm_data has still to store
  rmCount,   \* rm_basic_builder::m_num_entries
  rmData     \* rm_basic_model::m_rm_data

tableVars == <<inst, phase, line, source, lists, tmData, toConvert, rmCount, rmData>>

\* A line of the phrase table as the builder sees it: the target's words, the
\* sum of its weights, and whether its probabilities pass m_min_tran_prob.
TmLine(l) == [words |-> l.words, weight |-> l.weight,
              lmWeight |-> Execute(inst.lm, l.words),
              uid |-> <<l.source, l.words>>]

\* tm_tmp_target_entry::operator<.
TotalPlus(t) == t.weight + t.lmWeight

\* ordered_list::add_elemenent: after the leading elements that are greater,
\* then the last one is dropped if there are too many.
AddToList(list, t, limit) ==
  LET greater == {i \in 1..Len(list) : \A j \in 1..i : TotalPlus(t) < TotalPlus(list[j])}
      longer == InsertAt(list, Cardinality(greater) + 1, t)
  IN IF limit > CAPACITY_THRESHOLD /\ Len(longer) > limit
     THEN SubSeq(longer, 1, limit) ELSE longer

\* The source entry made of a list: its cost is that of the best translation.
UnknownCost == -2300
SourceEntry(targets, known) ==
  LET costs == {UnknownCost} \cup {TotalPlus(targets[i]) : i \in 1..Len(targets)}
  IN [targets |-> targets, known |-> known,
      minCost |-> CHOOSE c \in costs : \A d \in costs : d <= c]

\* set_unk_entry: one translation, the unknown word.
UnkEntry == SourceEntry(<<[words |-> <<UnkWord>>, weight |-> inst.unkWeight,
                           lmWeight |-> inst.lm.prob[<<UnkWord>>],
                           uid |-> <<UnkPhrase, UnkPhrase>>]>>, FALSE)

\* tm_basic_model::get_source_entry, without and with the UNK entry.
KnownSource(s) == GetElement(tmData, s)
GetSourceEntry(s) == IF KnownSource(s) = NoElement THEN UnkEntry ELSE KnownSource(s)

TablesInit ==
  /\ inst \in Instances
  /\ phase = "tm" /\ line = 1 /\ source = NoPhrase
  /\ lists = <<>> /\ toConvert = {} /\ rmCount = 0
  /\ tmData = NewMap(SOURCES_BUCKETS_FACTOR, 0)
  /\ rmData = NewMap(SOURCES_BUCKETS_FACTOR, 0)

\* One line of the phrase table.  When the source phrase changes, the list of
\* the previous one is dropped if nothing passed, and a list is opened or,
\* if the phrase was seen before, taken up again.
ReadTmLine ==
  LET l == inst.tmFile[line]
      emptied == {s \in DOMAIN lists : s = source /\ s # l.source /\ lists[s] = <<>>}
      kept == Restrict(lists, DOMAIN lists \ emptied)
      opened == [s \in DOMAIN kept \cup {l.source} |->
                   IF s \in DOMAIN kept THEN kept[s] ELSE <<>>]
  IN /\ phase = "tm" /\ line <= Len(inst.tmFile)
     /\ lists' = IF l.passes
                 THEN [opened EXCEPT ![l.source] = AddToList(@, TmLine(l), inst.transLimit)]
                 ELSE opened
     /\ source' = l.source /\ line' = line + 1
     /\ UNCHANGED <<inst, phase, tmData, toConvert, rmCount, rmData>>

\* set_num_entries: the hash map gets its final size.
SetTmEntries ==
  /\ phase = "tm" /\ line > Len(inst.tmFile)
  /\ tmData' = NewMap(SOURCES_BUCKETS_FACTOR, Cardinality(DOMAIN lists))
  /\ toConvert' = DOMAIN lists
  /\ phase' = "convert"
  /\ UNCHANGED <<inst, line, source, lists, rmCount, rmData>>

\* One list is stored (an empty one is only deleted), in the map's own order.
ConvertEntry(s) ==
  /\ phase = "convert" /\ s \in toConvert
  /\ \A t \in toConvert : inst.mapOrder[s] <= inst.mapOrder[t]
  /\ tmData' = IF lists[s] = <<>> THEN tmData
               ELSE AddNewElement(tmData, s, SourceEntry(lists[s], TRUE))
  /\ toConvert' = toConvert \ {s}
  /\ UNCHANGED <<inst, phase, line, source, lists, rmCount, rmData>>

\* The reordering builder begins with its counting pass.
StartCounting ==
  /\ phase = "convert" /\ toConvert = {}
  /\ phase' = "count" /\ line' = 1 /\ rmCount' = 0
  /\ UNCHANGED <<inst, source, lists, tmData, toConvert, rmData>>

\* A reordering line is kept if its source and its target are known to the
\* translation model or are one of the special phrases.
Specials == {UnkPhrase, BeginTag, EndTag}
HasTarget(s, t) == /\ KnownSource(s) # NoElement
                   /\ \E i \in 1..Len(KnownSource(s).targets) :
                        KnownSource(s).targets[i].uid = <<s, t>>
IsGoodPair(l) == /\ KnownSource(l.source) # NoElement \/ l.source \in Specials
                 /\ HasTarget(l.source, l.target) \/ l.target \in Specials

CountRmLine ==
  /\ phase = "count" /\ line <= Len(inst.rmFile)
  /\ rmCount' = IF IsGoodPair(inst.rmFile[line]) THEN rmCount + 1 ELSE rmCount
  /\ line' = line + 1
  /\ UNCHANGED <<inst, phase, source, lists, tmData, toConvert, rmData>>

SetRmEntries ==
  /\ phase = "count" /\ line > Len(inst.rmFile)
  /\ rmData' = NewMap(SOURCES_BUCKETS_FACTOR, rmCount)
  /\ phase' = "build" /\ line' = 1
  /\ UNCHANGED <<inst, source, lists, tmData, toConvert, rmCount>>

BuildRmLine ==
  /\ phase = "build" /\ line <= Len(inst.rmFile)
  /\ LET l == inst.rmFile[line]
     IN rmData' = IF IsGoodPair(l)
                  THEN AddNewElement(rmData, <<l.source, l.target>>, l.weights)
                  ELSE rmData
  /\ line' = line + 1
  /\ UNCHANGED <<inst, phase, source, lists, tmData, toConvert, rmCount>>

\* find_unk_entry, find_begin_end_entries: without any of the three the
\* server does not start.
RmEntry(s, t) == GetElement(rmData, <<s, t>>)
FindSpecialEntries ==
  /\ phase = "build" /\ line > Len(inst.rmFile)
  /\ phase' = IF NoElement \in {RmEntry(p, p) : p \in Specials}
              THEN "failed" ELSE "ready"
  /\ UNCHANGED <<inst, line, source, lists, tmData, toConvert, rmCount, rmData>>

\* rm_query::get_reordering for a pair of the translation model, by its uid.
GetReordering(uid) ==
  LET entry == GetElement(rmData, uid)
  IN IF entry = NoElement THEN RmEntry(UnkPhrase, UnkPhrase) ELSE entry

TablesNext ==
  \/ ReadTmLine
  \/ SetTmEntries
  \/ \E s \in toConvert : ConvertEntry(s)
  \/ StartCounting
  \/ CountRmLine
  \/ SetRmEntries
  \/ BuildRmLine
  \/ FindSpecialEntries

-----------------------------------------------------------------------------
(* Properties of the loaded models *)

\* The lines of the phrase table that pass, for a source phrase.
PassingLines(s) == {i \in 1..Len(inst.tmFile) : inst.tmFile[i].passes /\ inst.tmFile[i].source = s}

\* A list of translations holds those that the lines with the given indexes
\* make, best first: the best transLimit of them, or all of them if the limit is
\* not above CAPACITY_THRESHOLD, which is then no limit.
HoldsBest(targets, passing) ==
  /\ \A i, j \in 1..Len(targets) : i < j => TotalPlus(targets[i]) >= TotalPlus(targets[j])
  /\ Len(targets) = IF inst.transLimit > CAPACITY_THRESHOLD
                    THEN MinOf(inst.transLimit, Cardinality(passing))
                    ELSE Cardinality(passing)
  /\ \A j \in 1..Len(targets) : \E i \in passing : targets[j] = TmLine(inst.tmFile[i])
  /\ \A i \in passing :
       \/ \E j \in 1..Len(targets) : targets[j] = TmLine(inst.tmFile[i])
       \/ TotalPlus(TmLine(inst.tmFile[i])) <= TotalPlus(Last(targets))

\* The sources' hash maps: whatever the order of the lines, the order of the
\* conversion and the collisions of hashes, the entry that is found for a
\* source phrase holds its best transLimit translations (all of them, if the
\* limit is 2 or less: see TargetsWithinLimit), best first, with the cost of the
\* best (if not below the undefined cost), and none is found for a phrase without
\* a translation.  Of the pairs that have reordering weights exactly those of
\* kept translations are found, with the weights of the first line; the counting
\* pass counted what the building pass stored, so that the buckets suffice; and
\* the start is only refused if a special phrase is missing in the reordering
\* file.
TablesMatchFiles ==
  /\ phase = "failed" =>
       \E p \in Specials : \A i \in 1..Len(inst.rmFile) :
         <<inst.rmFile[i].source, inst.rmFile[i].target>> # <<p, p>>
  /\ phase = "ready" =>
    /\ \A s \in {inst.tmFile[i].source : i \in 1..Len(inst.tmFile)} :
         LET entry == KnownSource(s)
         IN IF PassingLines(s) = {} THEN entry = NoElement
            ELSE /\ entry # NoElement /\ HoldsBest(entry.targets, PassingLines(s))
                 /\ entry.minCost = LET best == TotalPlus(entry.targets[1])
                                    IN IF best < UnknownCost THEN UnknownCost ELSE best
    /\ Len(rmData.elems) = rmCount
    /\ \A i \in 1..Len(inst.rmFile) :
         LET l == inst.rmFile[i]
             earlier == {j \in 1..i : inst.rmFile[j].source = l.source /\ inst.rmFile[j].target = l.target}
         IN IF IsGoodPair(l)
            THEN earlier = {i} => RmEntry(l.source, l.target) = l.weights
            ELSE RmEntry(l.source, l.target) = NoElement

\* What the builder's sanity checks say of every source entry that it stores: a
\* phrase has no more translations than m_trans_limit, if that is not 0.  A list
\* with a limit of 1 or 2 keeps them all.
TargetsWithinLimit ==
  inst.transLimit > 0 => \A i \in 1..Len(inst.tmFile) :
    LET entry == KnownSource(inst.tmFile[i].source)
    IN entry # NoElement => Len(entry.targets) <= inst.transLimit
=============================================================================
