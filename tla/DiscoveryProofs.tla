--------------------------- MODULE DiscoveryProofs ---------------------------
(***************************************************************************)
(* The search for any number of auctions, attempts, stalls and crashes,    *)
(* and the analysis for any number of other auctions and pieces of text:   *)
(* HiddenForAReason, StreamIsWellFormed and the types of both.             *)
(***************************************************************************)
EXTENDS Discovery, FiniteSetTheorems, SequenceTheorems, TLAPS

-----------------------------------------------------------------------------
(* The search.                                                              *)

\* A job that may still run has an attempt and a stall left; only the job of an
\* auction that was created exists; and a job is done when its vector is stored.
Jobs ==
  \A a \in Auctions :
    /\ job[a] \in {"none", "offline", "waiting", "active"} =>
         tries[a] < Attempts /\ stalls[a] <= MaxStalls
    /\ status[a] = "none" => job[a] = "none"
    /\ job[a] = "done" => vector[a]

SearchInv == TypeOK /\ Jobs

LEMMA InitSearchInv == Init => SearchInv
BY SearchAssumption DEF Init, SearchInv, TypeOK, Jobs

LEMMA AuctionSearchInv ==
  ASSUME SearchInv, NEW a \in Auctions,
         CreateAuction(a) \/ Activate(a) \/ EndAuction(a) \/ Reconnect(a) \/ TakeJob(a)
  PROVE  SearchInv'
<1> USE DEF SearchInv, TypeOK, Jobs, searchVars, jobVars
<1>1. CASE CreateAuction(a) BY <1>1 DEF CreateAuction
<1>2. CASE Activate(a) BY <1>2 DEF Activate
<1>3. CASE EndAuction(a) BY <1>3 DEF EndAuction
<1>4. CASE Reconnect(a) BY <1>4 DEF Reconnect
<1>5. CASE TakeJob(a) BY <1>5 DEF TakeJob
<1> QED BY <1>1, <1>2, <1>3, <1>4, <1>5

LEMMA WorkerSearchInv ==
  ASSUME SearchInv, NEW a \in Auctions, StoreEmbedding(a) \/ AttemptFails(a)
  PROVE  SearchInv'
<1> USE SearchAssumption DEF SearchInv, TypeOK, Jobs, searchVars
<1>1. CASE StoreEmbedding(a) BY <1>1 DEF StoreEmbedding
<1>2. CASE AttemptFails(a) BY <1>2 DEF AttemptFails
<1> QED BY <1>1, <1>2

LEMMA CrashSearchInv ==
  ASSUME SearchInv, WorkerCrashes \/ ApiCrashes
  PROVE  SearchInv'
<1> USE SearchAssumption DEF SearchInv, TypeOK, Jobs, searchVars
<1>1. CASE WorkerCrashes BY <1>1 DEF WorkerCrashes
<1>2. CASE ApiCrashes BY <1>2 DEF ApiCrashes
<1> QED BY <1>1, <1>2

LEMMA QuerySearchInv ==
  ASSUME SearchInv, StartSearch \/ EmbedQuery \/ RunQuery \/ QueryFails
  PROVE  SearchInv'
BY DEF SearchInv, TypeOK, Jobs, jobVars, StartSearch, EmbedQuery, RunQuery, Searchable,
       QueryFails

LEMMA NextSearchInv == SearchInv /\ [Next]_vars => SearchInv'
<1> SUFFICES ASSUME SearchInv, [Next]_vars PROVE SearchInv'
  OBVIOUS
<1>1. CASE UNCHANGED vars
  BY <1>1 DEF SearchInv, TypeOK, Jobs, vars, jobVars, searchVars
<1> QED
  BY <1>1, AuctionSearchInv, WorkerSearchInv, CrashSearchInv, QuerySearchInv DEF Next

\* The inductive invariant, whatever crashes, stalls and fails.
THEOREM SearchInvariant == Spec => []SearchInv
BY InitSearchInv, NextSearchInv, PTL DEF Spec

\* embedding.worker.ts and search.ts: an active auction is hidden from a search only when
\* there is an OpenAI key and its embedding job has not finished.
THEOREM HiddenForAReasonAlways == Spec => []HiddenForAReason
<1>1. SearchInv => HiddenForAReason
  BY DEF SearchInv, TypeOK, Jobs, HiddenForAReason, Searchable
<1> QED BY <1>1, SearchInvariant, PTL

-----------------------------------------------------------------------------
(* The analysis.                                                            *)

Events == {"start", "text", "done", "error", "end"}

\* What a client has been written: the head and some text; then a verdict and the end;
\* or, when it left before, the end alone.
Opening(s, n) == s[1] = "start" /\ \A i \in 2 .. n : s[i] = "text"
Flowing(s) == Len(s) >= 1 /\ Len(s) <= MaxTexts + 1 /\ Opening(s, Len(s))
Told(s) ==
  /\ Len(s) >= 3 /\ Len(s) <= MaxTexts + 3 /\ Opening(s, Len(s) - 2)
  /\ s[Len(s) - 1] \in {"done", "error"} /\ s[Len(s)] = "end"
Cut(s) ==
  /\ Len(s) >= 2 /\ Len(s) <= MaxTexts + 2 /\ Opening(s, Len(s) - 1)
  /\ s[Len(s)] = "end"

\* What has been written at each step, and what had been when the client left.
Writing ==
  /\ step \in {"new", "refused"} => sent = <<>> /\ gone = <<>>
  /\ step \in {"row", "bids", "similar", "stream"} => Flowing(sent) /\ gone \in {<<>>, sent}
  /\ step = "ended" =>
       \/ Told(sent) /\ gone \in {<<>>, sent}
       \/ Flowing(sent) /\ gone = sent
       \/ Cut(sent) /\ Len(gone) = Len(sent) - 1

StreamInv ==
  /\ StreamTypeOK
  /\ sent \in Seq(Events) /\ gone \in Seq(Events)
  /\ Writing

LEMMA InitStreamInv == StreamInit => StreamInv
<1> SUFFICES ASSUME StreamInit PROVE StreamInv
  OBVIOUS
<1>1. RowsOf(<<>>) = {} BY DEF RowsOf
<1>2. Cardinality({}) = 0 BY FS_EmptySet
<1>3. StreamTypeOK
  BY <1>1, <1>2, AnalysisAssumption DEF StreamInit, StreamTypeOK
<1> QED BY <1>3 DEF StreamInit, StreamInv, Writing

\* What the steps of the handler write.
LEMMA TextCount ==
  ASSUME NEW s \in Seq(Events), Flowing(s)
  PROVE  Cardinality({i \in DOMAIN s : s[i] = "text"}) = Len(s) - 1
<1> DEFINE texts == {i \in DOMAIN s : s[i] = "text"}
<1>1. DOMAIN s = 1 .. Len(s) /\ Len(s) \in Nat BY LenProperties
<1>2. texts = 2 .. Len(s)
  BY <1>1 DEF Flowing, Opening
<1> HIDE DEF texts
<1>3. Cardinality(2 .. Len(s)) = IF 2 > Len(s) THEN 0 ELSE Len(s) - 2 + 1
  BY <1>1, FS_Interval
<1>4. Cardinality(texts) = Len(s) - 1 BY <1>1, <1>2, <1>3 DEF Flowing
<1> QED BY <1>4 DEF texts

\* Fails ends a stream under way, and tells a client that is there.
LEMMA FailsEnds ==
  ASSUME StreamInv, step \in {"row", "bids", "similar", "stream"}, Fails
  PROVE  /\ sent' \in Seq(Events) /\ Len(sent') <= MaxTexts + 3 /\ Len(gone) <= Len(sent')
         /\ IF Connected THEN Told(sent') ELSE Cut(sent') /\ Len(gone) = Len(sent') - 1
<1>1. sent \in Seq(Events) /\ Len(sent) \in Nat /\ Flowing(sent) /\ gone \in {<<>>, sent}
  BY LenProperties DEF StreamInv, Writing
<1> DEFINE told == Append(sent, "error")
<1>2. /\ told \in Seq(Events) /\ Len(told) = Len(sent) + 1
      /\ \A i \in 1 .. Len(sent) : told[i] = sent[i]
      /\ told[Len(sent) + 1] = "error"
  BY <1>1, AppendProperties DEF Events
<1> HIDE DEF told
<1>3. CASE Connected
  <2>1. sent' = Append(told, "end") BY <1>3 DEF Fails, Written, told
  <2>2. /\ sent' \in Seq(Events) /\ Len(sent') = Len(sent) + 2
        /\ \A i \in 1 .. Len(sent) + 1 : sent'[i] = told[i]
        /\ sent'[Len(sent) + 2] = "end"
    BY <1>1, <1>2, <2>1, AppendProperties DEF Events
  <2>3. \A i \in 1 .. Len(sent) : sent'[i] = sent[i] BY <1>1, <1>2, <2>2
  <2>4. sent'[Len(sent) + 1] = "error" BY <1>1, <1>2, <2>2
  <2>5. Told(sent') BY <1>1, <2>2, <2>3, <2>4, AnalysisAssumption DEF Told, Flowing, Opening
  <2> QED BY <1>1, <1>3, <2>2, <2>5 DEF Told, Connected
<1>4. CASE ~Connected
  <2>1. sent' = Append(sent, "end") /\ gone = sent
    BY <1>1, <1>4 DEF Fails, Written, Connected
  <2>2. /\ sent' \in Seq(Events) /\ Len(sent') = Len(sent) + 1
        /\ \A i \in 1 .. Len(sent) : sent'[i] = sent[i]
        /\ sent'[Len(sent) + 1] = "end"
    BY <1>1, <2>1, AppendProperties DEF Events
  <2>3. Cut(sent') BY <1>1, <2>2, AnalysisAssumption DEF Cut, Flowing, Opening
  <2> QED BY <1>1, <1>4, <2>1, <2>2, <2>3, AnalysisAssumption DEF Cut
<1> QED BY <1>3, <1>4

LEMMA ReadsStreamInv ==
  ASSUME StreamInv, Start \/ FetchAuction \/ FetchBids \/ StreamFails
  PROVE  StreamInv'
<1> USE DEF data, ranking
<1>1. CASE Start
  <2>1. sent = <<>> /\ gone = <<>> /\ Connected
    BY <1>1 DEF Start, StreamInv, Writing, Connected
  <2>2. CASE step' = "refused" /\ sent' = sent
    BY <1>1, <2>1, <2>2 DEF Start, StreamInv, StreamTypeOK, Writing
  <2>3. CASE step' = "row" /\ sent' = Written("start")
    <3>1. sent' = <<"start">> BY <2>1, <2>3 DEF Written
    <3>2. sent' \in Seq(Events) /\ Len(sent') = 1 /\ sent'[1] = "start" BY <3>1 DEF Events
    <3>3. Flowing(sent') BY <3>2, AnalysisAssumption DEF Flowing, Opening
    <3>4. /\ UNCHANGED <<subject, vectors, matching, sem, lex, similar, gone>>
          /\ gone = <<>> /\ Len(gone) = 0
      BY <1>1, <2>1 DEF Start
    <3>5. StreamTypeOK'
      <4>1. Len(sent') <= MaxTexts + 3 /\ Len(gone') <= Len(sent')
        BY <3>2, <3>4, AnalysisAssumption
      <4> QED BY <2>3, <3>4, <4>1 DEF StreamInv, StreamTypeOK
    <3> QED BY <2>3, <3>2, <3>3, <3>4, <3>5 DEF StreamInv, Writing
  <2> QED BY <1>1, <2>2, <2>3 DEF Start
<1>2. CASE (FetchAuction \/ FetchBids \/ StreamFails) /\ Fails
  <2>1. step \in {"row", "bids", "similar", "stream"} /\ UNCHANGED <<data, ranking, gone>>
    BY <1>2 DEF FetchAuction, FetchBids, StreamFails
  <2>2. step' = "ended" BY <1>2 DEF Fails
  <2>3. /\ sent' \in Seq(Events) /\ Len(sent') <= MaxTexts + 3 /\ Len(gone) <= Len(sent')
        /\ IF Connected THEN Told(sent') ELSE Cut(sent') /\ Len(gone) = Len(sent') - 1
    BY <1>2, <2>1, FailsEnds
  <2>4. StreamTypeOK' BY <2>1, <2>2, <2>3 DEF StreamInv, StreamTypeOK
  <2> QED BY <2>1, <2>2, <2>3, <2>4 DEF StreamInv, Writing, Connected
<1>3. CASE (FetchAuction \/ FetchBids) /\ ~Fails
  BY <1>3 DEF FetchAuction, FetchBids, StreamInv, StreamTypeOK, Writing
<1> QED BY <1>1, <1>2, <1>3 DEF StreamFails

\* A ranking has at most as many rows as its limit allows.
LEMMA RankingRows ==
  ASSUME NEW rows, IsFiniteSet(rows), NEW limit \in Nat, NEW s \in Rankings(rows, limit)
  PROVE  /\ RowsOf(s) \subseteq rows
         /\ IsFiniteSet(RowsOf(s)) /\ Cardinality(RowsOf(s)) <= limit
<1>1. Cardinality(rows) \in Nat BY FS_CardinalityType
<1>2. PICK n \in Nat : n <= limit /\ s \in [1 .. n -> rows]
  BY <1>1 DEF Rankings
<1>3. RowsOf(s) \subseteq rows /\ s \in [1 .. n -> RowsOf(s)]
  BY <1>2 DEF RowsOf
<1>4. s \in Surjection(1 .. n, RowsOf(s))
  BY <1>2, <1>3 DEF Surjection, RowsOf
<1>5. IsFiniteSet(1 .. n) /\ Cardinality(1 .. n) = IF 1 > n THEN 0 ELSE n - 1 + 1
  BY <1>2, FS_Interval
<1>6. IsFiniteSet(RowsOf(s)) /\ Cardinality(RowsOf(s)) <= Cardinality(1 .. n)
  BY <1>4, <1>5, FS_Surjection
<1>7. Cardinality(RowsOf(s)) \in Nat BY <1>6, FS_CardinalityType
<1> QED BY <1>2, <1>3, <1>5, <1>6, <1>7

LEMMA SimilarStreamInv == ASSUME StreamInv, FindSimilar PROVE StreamInv'
<1>1. /\ UNCHANGED <<subject, vectors, matching, sent, gone>>
      /\ step = "similar" /\ step' = "stream"
  BY DEF FindSimilar, data
<1>2. IsFiniteSet(vectors) /\ IsFiniteSet(matching)
  BY AnalysisAssumption, FS_Subset DEF StreamInv, StreamTypeOK
<1>3. PerSignal \in Nat /\ TopN \in Nat BY AnalysisAssumption
<1>4. /\ RowsOf(sem') \subseteq vectors /\ RowsOf(lex') \subseteq matching
      /\ similar' \subseteq RowsOf(sem') \cup RowsOf(lex') /\ Cardinality(similar') <= TopN
  <2>1. RowsOf(<<>>) = {} BY DEF RowsOf
  <2>2. Cardinality({}) = 0 BY FS_EmptySet
  <2>3. CASE /\ sem' \in Rankings(vectors, PerSignal) /\ lex' \in Rankings(matching, PerSignal)
             /\ similar' \in Fused(sem', lex')
    BY <1>2, <1>3, <2>3, RankingRows DEF Fused
  <2>4. CASE sem' = <<>> /\ lex' \in Rankings(matching, TopN) /\ similar' = RowsOf(lex')
    BY <1>2, <1>3, <2>1, <2>4, RankingRows
  <2>5. CASE sem' = <<>> /\ lex' = <<>> /\ similar' = {}
    BY <1>3, <2>1, <2>2, <2>5
  <2> QED BY <2>3, <2>4, <2>5 DEF FindSimilar
<1>5. StreamTypeOK' BY <1>1, <1>4 DEF StreamInv, StreamTypeOK
<1> QED BY <1>1, <1>5 DEF StreamInv, Writing

LEMMA TextStreamInv == ASSUME StreamInv, StreamText PROVE StreamInv'
<1>1. /\ step = "stream" /\ UNCHANGED <<subject, vectors, matching, step, sem, lex, similar, gone>>
      /\ Texts < MaxTexts /\ sent' = Written("text")
  BY DEF StreamText, data, ranking
<1>2. /\ sent \in Seq(Events) /\ Len(sent) \in Nat /\ Flowing(sent) /\ gone \in {<<>>, sent}
      /\ MaxTexts \in Nat
  BY <1>1, LenProperties, AnalysisAssumption DEF StreamInv, Writing
<1>3. CASE ~Connected
  <2>1. sent' = sent BY <1>1, <1>3 DEF Written
  <2> QED BY <1>1, <2>1 DEF StreamInv, StreamTypeOK, Writing
<1>4. CASE Connected
  <2>1. sent' = Append(sent, "text") /\ gone = <<>> BY <1>1, <1>4 DEF Written, Connected
  <2>2. /\ sent' \in Seq(Events) /\ Len(sent') = Len(sent) + 1
        /\ \A i \in 1 .. Len(sent) : sent'[i] = sent[i]
        /\ sent'[Len(sent) + 1] = "text"
    BY <1>2, <2>1, AppendProperties DEF Events
  <2>3. Len(sent) - 1 < MaxTexts BY <1>1, <1>2, TextCount DEF Texts
  <2>4. Flowing(sent') BY <1>2, <2>2, <2>3 DEF Flowing, Opening
  <2>5. Len(sent') <= MaxTexts + 3 /\ Len(gone') <= Len(sent')
    BY <1>1, <1>2, <2>1, <2>2, <2>3
  <2>6. StreamTypeOK' BY <1>1, <2>5 DEF StreamInv, StreamTypeOK
  <2> QED BY <1>1, <2>1, <2>2, <2>4, <2>6 DEF StreamInv, Writing
<1> QED BY <1>3, <1>4

LEMMA DoneStreamInv == ASSUME StreamInv, StreamDone PROVE StreamInv'
<1>1. /\ step = "stream" /\ step' = "ended"
      /\ UNCHANGED <<subject, vectors, matching, sem, lex, similar, gone>>
      /\ sent' = IF Connected THEN sent \o <<"done", "end">> ELSE sent
  BY DEF StreamDone, data, ranking
<1>2. /\ sent \in Seq(Events) /\ Len(sent) \in Nat /\ Flowing(sent) /\ gone \in {<<>>, sent}
      /\ MaxTexts \in Nat
  BY <1>1, LenProperties, AnalysisAssumption DEF StreamInv, Writing
<1>3. CASE ~Connected
  <2>1. sent' = sent /\ gone = sent BY <1>1, <1>2, <1>3 DEF Connected
  <2> QED BY <1>1, <1>2, <2>1 DEF StreamInv, StreamTypeOK, Writing
<1>4. CASE Connected
  <2>1. sent' = sent \o <<"done", "end">> /\ gone = <<>> BY <1>1, <1>4 DEF Connected
  <2>2. <<"done", "end">> \in Seq(Events) /\ Len(<<"done", "end">>) = 2 BY DEF Events
  <2>3. /\ sent' \in Seq(Events) /\ Len(sent') = Len(sent) + 2
        /\ \A i \in 1 .. Len(sent) : sent'[i] = sent[i]
        /\ sent'[Len(sent) + 1] = "done" /\ sent'[Len(sent) + 2] = "end"
    BY <1>2, <2>1, <2>2, ConcatProperties
  <2>4. Told(sent') BY <1>2, <2>3 DEF Told, Flowing, Opening
  <2>5. Len(sent') <= MaxTexts + 3 /\ Len(gone') <= Len(sent')
    BY <1>1, <1>2, <2>1, <2>3, <2>4 DEF Told
  <2>6. StreamTypeOK' BY <1>1, <2>5 DEF StreamInv, StreamTypeOK
  <2> QED BY <1>1, <2>1, <2>3, <2>4, <2>6 DEF StreamInv, Writing
<1> QED BY <1>3, <1>4

LEMMA LeavesStreamInv == ASSUME StreamInv, ClientLeaves PROVE StreamInv'
<1>1. /\ step \notin {"new", "refused"} /\ gone = <<>> /\ gone' = sent
      /\ UNCHANGED <<subject, vectors, matching, step, sem, lex, similar, sent>>
  BY DEF ClientLeaves, data, ranking, Connected
<1>2. Len(sent) \in Nat BY LenProperties DEF StreamInv
<1>3. StreamTypeOK' BY <1>1, <1>2 DEF StreamInv, StreamTypeOK
<1>4. Writing'
  BY <1>1, <1>2 DEF StreamInv, StreamTypeOK, Writing, Cut
<1> QED BY <1>1, <1>3, <1>4 DEF StreamInv

LEMMA NextStreamInv == StreamInv /\ [StreamNext]_streamVars => StreamInv'
<1> SUFFICES ASSUME StreamInv, [StreamNext]_streamVars PROVE StreamInv'
  OBVIOUS
<1>1. CASE UNCHANGED streamVars
  BY <1>1 DEF streamVars, StreamInv, StreamTypeOK, Writing
<1> QED
  BY <1>1, ReadsStreamInv, SimilarStreamInv, TextStreamInv, DoneStreamInv, LeavesStreamInv
  DEF StreamNext

\* The inductive invariant, whatever fails and whenever the client leaves.
THEOREM StreamInvariant == StreamSpec => []StreamInv
BY InitStreamInv, NextStreamInv, PTL DEF StreamSpec

\* analysis.service.ts and routes/analysis.ts: a stream begins with 'start' and is ended
\* once, behind its one verdict, and a client that left is written nothing.
THEOREM StreamIsWellFormedAlways == StreamSpec => []StreamIsWellFormed
<1>1. StreamInv => StreamIsWellFormed
  <2> SUFFICES ASSUME StreamInv PROVE StreamIsWellFormed
    OBVIOUS
  <2> DEFINE At1(event) == {i \in DOMAIN sent : sent[i] = event}
             verdicts == At1("done") \cup At1("error")
  <2>1. /\ sent \in Seq(Events) /\ Len(sent) \in Nat /\ DOMAIN sent = 1 .. Len(sent)
        /\ gone \in Seq(Events) /\ Len(gone) \in Nat
    BY LenProperties DEF StreamInv
  <2>2. \/ sent = <<>> /\ gone = <<>>
        \/ Flowing(sent) /\ gone \in {<<>>, sent}
        \/ Told(sent) /\ gone \in {<<>>, sent}
        \/ Cut(sent) /\ Len(gone) = Len(sent) - 1
    <3>1. step \in {"new", "row", "bids", "similar", "stream", "ended", "refused"}
      BY DEF StreamInv, StreamTypeOK
    <3> QED BY <3>1 DEF StreamInv, Writing
  <2>3. /\ sent # <<>> => sent[1] = "start"
        /\ verdicts \subseteq {Len(sent) - 1} /\ At1("end") \subseteq {Len(sent)}
        /\ ~Connected => \A i \in Len(gone) + 1 .. Len(sent) : sent[i] = "end"
    <3>1. CASE sent = <<>> /\ gone = <<>> BY <2>1, <3>1 DEF Connected
    <3>2. CASE Flowing(sent) /\ gone \in {<<>>, sent}
      BY <2>1, <3>2 DEF Flowing, Opening, Connected
    <3>3. CASE Told(sent) /\ gone \in {<<>>, sent}
      BY <2>1, <3>3 DEF Told, Opening, Connected
    <3>4. CASE Cut(sent) /\ Len(gone) = Len(sent) - 1
      BY <2>1, <3>4 DEF Cut, Opening
    <3> QED BY <2>2, <3>1, <3>2, <3>3, <3>4
  <2>4. Cardinality(verdicts) <= 1
    <3> HIDE DEF verdicts
    <3>1. IsFiniteSet({Len(sent) - 1}) /\ Cardinality({Len(sent) - 1}) = 1 BY FS_Singleton
    <3> QED BY <2>3, <3>1, FS_Subset
  <2>5. step = "ended" /\ Connected =>
          Len(sent) >= 2 /\ sent[Len(sent)] = "end" /\ Len(sent) - 1 \in verdicts
    BY <2>1 DEF StreamInv, Writing, Connected, Told, Flowing, Cut
  <2> QED BY <2>3, <2>4, <2>5 DEF StreamIsWellFormed
<1> QED BY <1>1, StreamInvariant, PTL

-----------------------------------------------------------------------------
(* Both.                                                                    *)

\* The state of jobs, searches and streams is well formed at any time.
THEOREM DiscoveryTypes == DiscoverySpec => []DiscoveryTypeOK
<1>1. SearchInv /\ StreamInv => DiscoveryTypeOK
  BY DEF SearchInv, StreamInv, DiscoveryTypeOK
<1> QED BY <1>1, SearchInvariant, StreamInvariant, PTL DEF DiscoverySpec
=============================================================================
