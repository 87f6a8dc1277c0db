----------------------------- MODULE MCDecoder -----------------------------
(***************************************************************************)
(* The decoder on small instances: a phrase table of ten lines over three  *)
(* known source words, a language model of order 3, sentences of up to     *)
(* three words (four are too many), and the parameters varied around it.   *)
(***************************************************************************)
EXTENDS Decoder, TLC

MCWords == {"a", "b", "c", "d", "w", "x", "y", "z", "unk", "<s>", "</s>"}
MCUnkPhrase == <<"unk">>
MCBeginTag == <<"<s>">>
MCEndTag == <<"</s>">>

\* All pairs collide, and all sources of one length; the walk from the last
\* bucket goes on in the first.
MCZeroWeight == -230

MCHash(key) == 14 + Len(key)

Line(s, words, weight) == [source |-> s, words |-> words, weight |-> weight, passes |-> TRUE]

\* The lines of a source need not be together; some do not pass.
MCTmFile ==
  << Line(<<"a">>, <<"x">>, -10), Line(<<"a">>, <<"y">>, -12), Line(<<"a">>, <<"z">>, -15),
     Line(<<"a">>, <<"x", "y">>, -1),
     [Line(<<"c">>, <<"y">>, -1) EXCEPT !.passes = FALSE],
     Line(<<"b">>, <<"y">>, -8),
     Line(<<"b", "c">>, <<"y", "z">>, -24),
     [Line(<<"a", "b">>, <<"x">>, -1) EXCEPT !.passes = FALSE],
     Line(<<"c">>, <<"z">>, -9), Line(<<"a">>, <<"x">>, -10) >>

\* Reordering weights by the number of their classes; a swap and a jump to the
\* left differ from three classes on.
Half(n, m, s, l, r) == SubSeq(<<m, s, l, r>>, 1, n)
RmLine(n, s, t, m) ==
  [source |-> s, target |-> t,
   weights |-> Half(n, m, m - 1, m - 6, m - 4) \o Half(n, m - 1, m - 2, m - 7, m - 5)]
MCRmFile(n) ==
  << RmLine(n, MCUnkPhrase, MCUnkPhrase, -5), RmLine(n, MCBeginTag, MCBeginTag, -1),
     RmLine(n, <<"a">>, <<"x">>, -2), RmLine(n, <<"a">>, <<"w">>, -9),
     RmLine(n, <<"b">>, <<"y">>, -1), RmLine(n, <<"c">>, <<"z">>, -3),
     RmLine(n, <<"b", "c">>, <<"y", "z">>, -3), RmLine(n, <<"d">>, MCUnkPhrase, -3),
     RmLine(n, MCEndTag, MCEndTag, -2), RmLine(n, <<"a">>, <<"z">>, -6) >>

\* Two orders in which m_data may be walked.
MCSources == {MCTmFile[i].source : i \in 1..Len(MCTmFile)}
MCOrder == [s \in MCSources |-> CASE s = <<"a">> -> 1 [] s = <<"b">> -> 2 [] s = <<"c">> -> 3
                                  [] s = <<"b", "c">> -> 4 [] OTHER -> 5]
MCReverse == [s \in MCSources |-> 6 - MCOrder[s]]

MCLm ==
  [prob |-> (<<"unk">> :> -70) @@ (<<"<s>">> :> -99) @@ (<<"</s>">> :> -30) @@
            (<<"x">> :> -40) @@ (<<"y">> :> -20) @@ (<<"z">> :> -25) @@
            (<<"<s>", "y">> :> -5) @@ (<<"y", "z">> :> -6) @@ (<<"z", "x">> :> -7) @@
            (<<"x", "</s>">> :> -3) @@ (<<"<s>", "y", "z">> :> -4) @@ (<<"y", "z", "x">> :> -5),
   back |-> (<<"<s>">> :> -2) @@ (<<"x">> :> -3) @@ (<<"y">> :> -4) @@ (<<"z">> :> -1) @@
            (<<"y", "z">> :> -2) @@ (<<"<s>", "y">> :> -3) @@ (<<"z", "x">> :> -1),
   cached |-> TRUE,
   collisions |-> {<<"x", "y">>, <<"<s>", "x">>}]

\* A model in which the word before the last decides between y and x y.
MCTrigramLm ==
  [MCLm EXCEPT !.collisions = {},
     !.prob = (<<"<s>", "x">> :> -10) @@ (<<"x", "y">> :> -8) @@ (<<"x", "y", "y">> :> -1) @@ @]

Params(d, t, c, p) == [distLimit |-> d, threshold |-> t, capacity |-> c, penalty |-> p]
Wide == Params(-1, -10000, 100, 3)

Base ==
  [tmFile |-> MCTmFile, mapOrder |-> MCOrder, rmFile |-> MCRmFile(2), lm |-> MCLm, transLimit |-> 3,
   unkWeight |-> -50, maxPhraseLen |-> 2, sentence |-> <<"a", "b", "c">>,
   params |-> Wide, mayStop |-> FALSE, console |-> {}]

Sentences == {<<"a", "b", "c">>, <<"b", "d">>, <<"c", "b", "a">>}

\* The beam: exhaustive, narrow, and cut by the threshold.
Searches ==
  {[Base EXCEPT !.sentence = s, !.params = Params(d, t, c, 3)] :
     s \in Sentences, d \in {-1, 0, 1}, t \in {-20, -10000}, c \in {1, 2, 100}}

\* The models: no limit on translations, longer phrases, no cache, an unknown
\* word that is too improbable to count, a translation below the undefined cost,
\* other numbers of reordering weights.
Models ==
  {[Base EXCEPT !.transLimit = 2, !.mapOrder = MCReverse], [Base EXCEPT !.maxPhraseLen = 1],
   [Base EXCEPT !.maxPhraseLen = 3, !.sentence = <<"d", "b", "c">>],
   [Base EXCEPT !.lm.cached = FALSE, !.params.distLimit = 2],
   [Base EXCEPT !.lm.prob[<<"unk">>] = -240, !.sentence = <<"d", "a">>],
   [Base EXCEPT !.tmFile[9].weight = -2400],
   [Base EXCEPT !.lm = MCTrigramLm, !.transLimit = 2, !.sentence = <<"a", "b">>],
   [Base EXCEPT !.rmFile = MCRmFile(1)], [Base EXCEPT !.rmFile = MCRmFile(4)],
   [Base EXCEPT !.rmFile = Tail(MCRmFile(2))],
   [Base EXCEPT !.sentence = <<>>], [Base EXCEPT !.sentence = <<"a", "a", "a", "a">>]}

\* Stops and console commands, a negative limit among them for a search without
\* a limit and for one that has it.  A negative capacity is a huge one.
MCCapacityValues == 1000
Command(n, v) == [name |-> n, value |-> v]
Disturbed ==
  {[Base EXCEPT !.mayStop = TRUE, !.sentence = <<"b", "c">>],
   [Base EXCEPT !.params = Params(1, -30, 3, 3), !.sentence = <<"c", "b">>,
      !.console = {Command("distLimit", 0), Command("capacity", 1), Command("capacity", 0), Command("penalty", -5)}],
   [Base EXCEPT !.console = {Command("distLimit", -2), Command("threshold", -1)}],
   [Base EXCEPT !.params = Params(1, -30, 2, 3), !.sentence = <<"a", "b">>,
      !.console = {Command("distLimit", -1), Command("capacity", -1)}]}

MCOne == {Base}
MCInstances == Searches \cup Models \cup Disturbed

\* A translation limit that the lists do not take.
MCSmallTransLimit == {[Base EXCEPT !.transLimit = 2]}

\* The console takes the distortion limit away.
MCNegativeLimit == {[Base EXCEPT !.params.distLimit = 1, !.console = {Command("distLimit", -1)}]}

\* Three classes of reordering: enough to tell a swap from a jump.
MCThreeClasses == {[Base EXCEPT !.rmFile = MCRmFile(3)]}

\* What the theorems on the search suppose of the models' data.
ASSUME ScoresAssumption == TagsAreWords /\ \A i \in Instances : LmClosed(i.lm)
=============================================================================
