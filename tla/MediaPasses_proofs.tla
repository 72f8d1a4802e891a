-------------------------- MODULE MediaPasses_proofs --------------------------
(***************************************************************************)
(* Theorems about the passes over videos and recordings, for any tables,   *)
(* tools, pictures, batch sizes and limits, and any number of workers.     *)
(*                                                                         *)
(* First what a pass may find: whatever is missing, one that leaves no     *)
(* preview names a reason.  Then the backfill: the rows it has met and     *)
(* those of the page at hand are those up to its cursor that have needed   *)
(* it all along, each once.                                                *)
(***************************************************************************)
EXTENDS MediaPasses, FiniteSetTheorems, WellFoundedInduction, SequenceTheorems, TLAPS

\* A row says that a pass has saved it by its preview or its reason.
Tells(row) ==
    IF row.tried THEN row.preview = 0 => row.reason # ""
    ELSE row.preview = 0 /\ row.reason = ""

RowsTell == \A i \in DOMAIN rows : Tells(rows[i])

\* The backfill is at work on one row of its page, or between two.
AtWork == job["backfill"] # NoJob =>
              pass # NoPass /\ pass.at = "running" /\ job["backfill"] \in pass.chunk

MetOnce ==
    /\ IsInjective(pass.visited)
    /\ \A k \in DOMAIN pass.visited : pass.visited[k] <= pass.cursor
    /\ \A next \in pass.chunk :
          /\ next.row <= pass.cursor /\ next.row \in DOMAIN rows
          /\ \A k \in DOMAIN pass.visited : pass.visited[k] # next.row
    /\ \A one, other \in pass.chunk : one.row = other.row => one = other

WithinAllowance ==
    IsFiniteSet(pass.chunk) /\ Len(pass.visited) + Cardinality(pass.chunk) <= pass.total

Met(i) == \/ \E k \in DOMAIN pass.visited : pass.visited[k] = i
          \/ \E next \in pass.chunk : next.row = i

\* Rows that have needed the pass since it began need it still, and those up
\* to the cursor have been met.
SteadyMet ==
    \A i \in pass.steady :
        /\ i \in DOMAIN rows /\ media[i] = pass.kind /\ Candidate(rows[i], pass.degraded)
        /\ i <= pass.cursor => Met(i)

DoneCovers ==
    pass.at = "done" => /\ pass.chunk = {}
                        /\ Len(pass.visited) = pass.total \/ \A i \in pass.steady : Met(i)

PassOK == pass # NoPass => MetOnce /\ WithinAllowance /\ SteadyMet /\ DoneCovers

Inv == TypeOK /\ RowsTell /\ AtWork /\ PassOK

-----------------------------------------------------------------------------
(* Least and greatest.                                                      *)

LEMMA LeastOf ==
    ASSUME NEW S \in SUBSET Nat, S # {}
    PROVE  \E m \in S : \A q \in S : m <= q
<1> DEFINE R == OpToRel(<, Nat)
<1>1. IsWellFoundedOn(R, Nat)
  BY NatLessThanWellFounded
<1>2. \A x, y \in Nat : x < y => <<x, y>> \in R
  BY DEF OpToRel
<1> HIDE DEF R
<1>3. PICK m \in S : \A q \in S : <<q, m>> \notin R
  BY <1>1, WFMin
<1>4. \A q \in S : ~(q < m)
  BY <1>2, <1>3
<1> QED  BY <1>4

LEMMA MinIsLeast ==
    ASSUME NEW S \in SUBSET Nat, S # {}
    PROVE  Min(S) \in S /\ \A q \in S : Min(S) <= q
BY LeastOf DEF Min

LEMMA MaxIsGreatest ==
    ASSUME NEW n \in Nat, NEW S \in SUBSET (1..n), S # {}
    PROVE  Max(S) \in S /\ \A q \in S : Max(S) >= q
<1> DEFINE Bounds_ == {k \in Nat : \A q \in S : q <= k}
<1>1. n \in Bounds_ /\ Bounds_ \in SUBSET Nat
  OBVIOUS
<1>2. PICK m \in Bounds_ : \A k \in Bounds_ : m <= k
  BY <1>1, LeastOf
<1>3. m \in S
  <2> SUFFICES ASSUME m \notin S PROVE FALSE
    OBVIOUS
  <2>1. \A q \in S : q \in Nat /\ q <= m /\ q # m
    BY <1>2
  <2>2. PICK x \in S : TRUE
    OBVIOUS
  <2>3. m \in Nat /\ x \in Nat /\ x <= m /\ x \in 1..n
    BY <1>2, <2>1, <2>2
  <2>4. m - 1 \in Nat
    BY <2>2, <2>3
  <2>5. \A q \in S : q <= m - 1
    BY <2>1, <2>3
  <2> QED  BY <1>2, <2>3, <2>4, <2>5
<1>4. \E x \in S : \A q \in S : x >= q
  BY <1>2, <1>3
<1> QED  BY <1>4 DEF Max

-----------------------------------------------------------------------------
(* What a pass makes of a file.                                             *)

Reasons == {"", "tool", "decoder_missing", "encode_failed", "preview_over_budget"}

\* A preview that is not there has a reason.
Reasoned(p) == /\ p.preview \in Nat /\ p.reason \in Reasons
               /\ p.preview = 0 => p.reason # ""

Picture == [png : Nat, webp : Seq(Nat \ {0})]

LEMMA RefusalIsReasoned ==
    \A reason \in Reasons \ {""} : Reasoned(Refusal(reason))
BY DEF Reasoned, Refusal, Preview

LEMMA PreviewIsReasoned ==
    \A bytes \in Nat \ {0} : Reasoned(Preview(bytes, ""))
BY DEF Reasoned, Preview, Reasons

\* A preview that is encoded is within the budget and not empty; one that is
\* refused says why.
LEMMA EncodeIsReasoned ==
    ASSUME NEW tools, NEW frame, frame.png \in Nat, frame.webp \in Seq(Nat \ {0})
    PROVE  Reasoned(EncodePreview(tools, frame))
<1> DEFINE fits == {q \in DOMAIN frame.webp : frame.webp[q] <= tools.budget}
<1>1. CASE ~tools.libvips
  BY <1>1, RefusalIsReasoned DEF EncodePreview, Reasoned, Preview, Reasons
<1>2. CASE tools.libvips /\ frame.webp = <<>>
  BY <1>2, RefusalIsReasoned DEF EncodePreview, Reasons
<1>3. CASE tools.libvips /\ frame.webp # <<>> /\ fits = {}
  BY <1>3, RefusalIsReasoned DEF EncodePreview, Reasons
<1>4. CASE tools.libvips /\ frame.webp # <<>> /\ fits # {}
  <2>1. fits \in SUBSET Nat
    OBVIOUS
  <2>2. Min(fits) \in fits
    BY <1>4, <2>1, MinIsLeast
  <2>3. \A q \in DOMAIN frame.webp : frame.webp[q] \in Nat \ {0}
    OBVIOUS
  <2>4. PICK bytes \in Nat \ {0} : frame.webp[Min(fits)] = bytes
    BY <2>2, <2>3
  <2>5. EncodePreview(tools, frame) = Preview(bytes, "")
    BY <1>4, <2>4 DEF EncodePreview
  <2>6. Reasoned(Preview(bytes, ""))
    BY PreviewIsReasoned
  <2> QED  BY <2>5, <2>6
<1> QED  BY <1>1, <1>2, <1>3, <1>4

LEMMA DrawingsAre ==
    ASSUME NEW tools, NEW drawing \in Drawings(tools)
    PROVE  drawing.png \in Nat /\ drawing.webp \in Seq(Nat \ {0})
<1>1. drawing = NoDrawing \/ drawing \in Frames
  BY DEF Drawings
<1>2. CASE drawing = NoDrawing
  BY <1>2, EmptySeq DEF NoDrawing
<1> QED  BY <1>1, <1>2, FramesAssumption

\* The first size that decides was drawn.
LEMMA WaveformIsReasoned ==
    ASSUME NEW tools, NEW drawings \in [1..WaveformSizes -> Drawings(tools)]
    PROVE  Reasoned(RenderWaveform(tools, drawings))
<1> DEFINE encoded == [s \in DOMAIN drawings |->
                         IF drawings[s] = NoDrawing THEN Refusal("tool")
                         ELSE EncodePreview(tools, drawings[s])]
           decides == {s \in DOMAIN encoded : encoded[s].reason # "preview_over_budget"}
<1>1. RenderWaveform(tools, drawings) =
          IF decides = {} THEN Refusal("preview_over_budget") ELSE encoded[Min(decides)]
  BY DEF RenderWaveform
<1>2. ASSUME NEW s \in DOMAIN drawings PROVE Reasoned(encoded[s])
  <2>1. drawings[s] \in Drawings(tools)
    OBVIOUS
  <2>2. Reasoned(EncodePreview(tools, drawings[s]))
    BY <2>1, DrawingsAre, EncodeIsReasoned
  <2>3. Reasoned(Refusal("tool"))
    BY RefusalIsReasoned DEF Reasons
  <2> QED  BY <2>2, <2>3
<1>3. decides \in SUBSET Nat /\ decides \subseteq DOMAIN drawings
  <2>1. DOMAIN drawings = 1..WaveformSizes /\ DOMAIN encoded = DOMAIN drawings
    OBVIOUS
  <2>2. \A s \in 1..WaveformSizes : s \in Nat
    OBVIOUS
  <2> QED  BY <2>1, <2>2
<1> HIDE DEF decides
<1>4. decides # {} => Min(decides) \in DOMAIN drawings
  BY <1>3, MinIsLeast
<1>5. Reasoned(Refusal("preview_over_budget"))
  BY RefusalIsReasoned DEF Reasons
<1> HIDE DEF encoded
<1> QED  BY <1>1, <1>2, <1>4, <1>5

\* What a pass saves: a column that is left out, or its new value.
Finding(found) ==
    /\ found.processed \in BOOLEAN
    /\ found.duration = <<>> \/ found.duration = <<TRUE>> \/ found.duration = <<FALSE>>
    /\ found.reason \in Reasons \cup {"source_missing"}
    /\ \/ found.preview = <<>> /\ found.reason # ""
       \/ \E size \in Nat : found.preview = <<size>> /\ (size = 0 => found.reason # "")

LEMMA ProbesAre ==
    ASSUME NEW tools, NEW probe \in Probes(tools)
    PROVE  probe.ok \in BOOLEAN /\ probe.duration \in BOOLEAN
<1>1. probe \in [ok : {TRUE}, duration : BOOLEAN] \/ probe = [ok |-> FALSE, duration |-> FALSE]
  BY DEF Probes
<1>2. CASE probe \in [ok : {TRUE}, duration : BOOLEAN]
  BY <1>2
<1>3. CASE probe = [ok |-> FALSE, duration |-> FALSE]
  <2>1. probe.ok = FALSE
    BY <1>3, Zenon
  <2>2. probe.duration = FALSE
    BY <1>3, Zenon
  <2> QED  BY <2>1, <2>2
<1> QED  BY <1>1, <1>2, <1>3

LEMMA FirstReason ==
    ASSUME NEW probe, NEW reason \in Reasons
    PROVE  /\ First(ProbeReason(probe), reason) \in Reasons
           /\ reason # "" => First(ProbeReason(probe), reason) # ""
BY DEF First, ProbeReason, Reasons

\* A column that is written has one of two values.
LEMMA ColumnIs ==
    ASSUME NEW flag \in BOOLEAN
    PROVE  <<flag>> = <<TRUE>> \/ <<flag>> = <<FALSE>>
<1>1. CASE flag = TRUE
  BY <1>1
<1>2. CASE flag = FALSE
  BY <1>2
<1> QED  BY <1>1, <1>2

LEMMA VideoFinds ==
    ASSUME NEW tools, NEW read \in BOOLEAN, NEW probe \in Probes(tools),
           NEW drawing \in Drawings(tools)
    PROVE  Finding(ProcessVideo(tools, read, probe, drawing))
<1> DEFINE poster == IF drawing = NoDrawing THEN Refusal("tool") ELSE WritePoster(tools, drawing)
           found == ProcessVideo(tools, read, probe, drawing)
           flag == probe.duration \/ read
<1>1. Reasoned(poster)
  <2>1. Reasoned(Refusal("tool"))
    BY RefusalIsReasoned DEF Reasons
  <2>2. Reasoned(EncodePreview(tools, drawing))
    BY DrawingsAre, EncodeIsReasoned
  <2> QED  BY <2>1, <2>2 DEF WritePoster
<1>2. drawing = NoDrawing => poster.reason # ""
  BY DEF Refusal, Preview
<1> HIDE DEF poster
<1>3. found.processed \in BOOLEAN
  BY ProbesAre DEF ProcessVideo
<1>4. found.duration = <<>> \/ found.duration = <<TRUE>> \/ found.duration = <<FALSE>>
  <2>1. flag \in BOOLEAN
    OBVIOUS
  <2> HIDE DEF flag
  <2>2. found.duration = IF probe.ok THEN <<flag>> ELSE <<>>
    BY DEF ProcessVideo, flag
  <2> HIDE DEF found
  <2>3. <<flag>> = <<TRUE>> \/ <<flag>> = <<FALSE>>
    BY <2>1, ColumnIs
  <2> QED  BY <2>2, <2>3
<1>5. found.preview = IF drawing = NoDrawing THEN <<>> ELSE <<poster.preview>>
  BY DEF ProcessVideo, poster
<1>6. found.reason = First(ProbeReason(probe), poster.reason)
  BY DEF ProcessVideo, poster
<1> HIDE DEF found
<1>7. poster.preview \in Nat /\ poster.reason \in Reasons /\ (poster.preview = 0 => poster.reason # "")
  BY <1>1 DEF Reasoned
<1>8. found.reason \in Reasons /\ (poster.reason # "" => found.reason # "")
  BY <1>6, <1>7, FirstReason
<1>9. \/ found.preview = <<>> /\ found.reason # ""
      \/ \E bytes \in Nat : found.preview = <<bytes>> /\ (bytes = 0 => found.reason # "")
  BY <1>2, <1>5, <1>7, <1>8
<1>10. found.reason \in Reasons \cup {"source_missing"}
  BY <1>8
<1>11. Finding(found)
  BY <1>3, <1>4, <1>9, <1>10 DEF Finding
<1> QED  BY <1>11 DEF found

LEMMA AudioFinds ==
    ASSUME NEW tools, NEW probe \in Probes(tools),
           NEW drawings \in [1..WaveformSizes -> Drawings(tools)]
    PROVE  Finding(ExtractMetadata(tools, probe, drawings))
<1> DEFINE waveform == RenderWaveform(tools, drawings)
           found == ExtractMetadata(tools, probe, drawings)
<1>1. waveform.preview \in Nat /\ waveform.reason \in Reasons
      /\ (waveform.preview = 0 => waveform.reason # "")
  BY WaveformIsReasoned DEF Reasoned
<1> HIDE DEF waveform
<1>2. found.processed = FALSE /\ found.duration = IF probe.duration THEN <<TRUE>> ELSE <<>>
  BY DEF ExtractMetadata
<1>3. found.preview = <<waveform.preview>>
  BY DEF ExtractMetadata, waveform
<1>4. found.reason = First(ProbeReason(probe), waveform.reason)
  BY DEF ExtractMetadata, waveform
<1> HIDE DEF found
<1>5. found.reason \in Reasons /\ (waveform.reason # "" => found.reason # "")
  BY <1>1, <1>4, FirstReason
<1>6. Finding(found)
  BY <1>1, <1>2, <1>3, <1>5 DEF Finding
<1> QED  BY <1>6 DEF found

LEMMA MissingFinds == Finding(SourceMissing)
BY DEF Finding, SourceMissing

LEMMA FindingsFind ==
    ASSUME TypeOK, NEW i \in DOMAIN rows, NEW read \in BOOLEAN, NEW found \in FindingsOf(i, read)
    PROVE  Finding(found)
<1>1. CASE i \in lost
  BY <1>1, MissingFinds DEF FindingsOf
<1>2. CASE i \notin lost
  <2>1. media[i] \in {"video", "audio"} /\ deploy \in Deployments
    BY TablesAssumption DEF TypeOK
  <2>2. found \in Findings[deploy][media[i]][read]
    BY <1>2 DEF FindingsOf
  <2>3. CASE media[i] = "video"
    <3>1. PICK probe \in Probes(deploy), drawing \in Drawings(deploy) :
              found = ProcessVideo(deploy, read, probe, drawing)
      BY <2>1, <2>2, <2>3 DEF Findings
    <3> QED  BY <3>1, VideoFinds
  <2>4. CASE media[i] # "video"
    <3>1. PICK probe \in Probes(deploy), drawings \in [1..WaveformSizes -> Drawings(deploy)] :
              found = ExtractMetadata(deploy, probe, drawings)
      BY <2>1, <2>2, <2>4 DEF Findings
    <3> QED  BY <3>1, AudioFinds
  <2> QED  BY <2>3, <2>4
<1> QED  BY <1>1, <1>2

\* What a pass saves in a row.
LEMMA SavedTells ==
    ASSUME NEW row \in Row, NEW found, Finding(found)
    PROVE  Saved(row, found) \in Row /\ Tells(Saved(row, found))
<1> DEFINE saved == Saved(row, found)
           duration == Written(found.duration, row.duration)
           preview == Written(found.preview, row.preview)
<1>1. row.processed \in BOOLEAN /\ row.duration \in BOOLEAN /\ row.preview \in Nat
  BY DEF Row
<1>2. duration \in BOOLEAN
  <2>1. CASE found.duration = <<>>
    BY <1>1, <2>1 DEF Written
  <2>2. CASE found.duration = <<TRUE>>
    BY <2>2 DEF Written
  <2>3. CASE found.duration = <<FALSE>>
    BY <2>3 DEF Written
  <2> QED  BY <2>1, <2>2, <2>3 DEF Finding
<1>3. preview \in Nat /\ (preview = 0 => found.reason # "")
  <2>1. CASE found.preview = <<>> /\ found.reason # ""
    BY <1>1, <2>1 DEF Written
  <2>2. CASE \E bytes \in Nat : found.preview = <<bytes>> /\ (bytes = 0 => found.reason # "")
    <3>1. PICK bytes \in Nat : found.preview = <<bytes>> /\ (bytes = 0 => found.reason # "")
      BY <2>2
    <3>2. Written(<<bytes>>, row.preview) = bytes
      BY DEF Written
    <3>3. preview = bytes
      BY <3>1, <3>2
    <3> HIDE DEF preview
    <3> QED  BY <3>1, <3>3
  <2> QED  BY <2>1, <2>2 DEF Finding
<1> HIDE DEF duration, preview
<1>4. saved = [processed |-> row.processed \/ found.processed, duration |-> duration,
               preview |-> preview, reason |-> found.reason, tried |-> TRUE]
  BY DEF Saved, duration, preview
<1>5. (row.processed \/ found.processed) \in BOOLEAN
  OBVIOUS
<1>6. found.reason \in {"", "source_missing", "tool", "decoder_missing", "encode_failed",
                        "preview_over_budget"}
  BY DEF Finding, Reasons
<1> HIDE DEF saved
<1>7. saved \in Row
  BY <1>2, <1>3, <1>4, <1>5, <1>6 DEF Row
<1>8. saved.tried = TRUE /\ saved.preview = preview /\ saved.reason = found.reason
  BY <1>4
<1>9. Tells(saved)
  BY <1>3, <1>8 DEF Tells
<1> QED  BY <1>7, <1>9 DEF saved

-----------------------------------------------------------------------------
(* Pages.                                                                   *)

\* The first n of some rows: no more than n of them, with each all that come
\* before it, and some if there are any.
LEMMA FirstOnesAre ==
    ASSUME NEW size \in Nat, NEW ids \in SUBSET (1..size), NEW n \in Nat
    PROVE  LET page == FirstOnes(n, ids) IN
           /\ page \subseteq ids /\ IsFiniteSet(page) /\ Cardinality(page) \in Nat
           /\ Cardinality(page) <= n
           /\ \A i \in page, j \in ids : j < i => j \in page
           /\ n # 0 /\ ids # {} => page # {}
<1> DEFINE page == FirstOnes(n, ids)
           below(i) == {j \in ids : j < i}
<1>1. page \subseteq ids /\ \A i \in ids : i \in page <=> Cardinality(below(i)) < n
  BY DEF FirstOnes, Before
<1>2. IsFiniteSet(ids)
  <2>1. IsFiniteSet(1..size)
    BY FS_Interval
  <2> QED  BY <2>1, FS_Subset
<1>3. IsFiniteSet(page) /\ Cardinality(page) \in Nat
  BY <1>1, <1>2, FS_Subset, FS_CardinalityType
<1>4. \A i : IsFiniteSet(below(i)) /\ Cardinality(below(i)) \in Nat
  <2> TAKE i
  <2>1. below(i) \in SUBSET ids
    OBVIOUS
  <2> QED  BY <2>1, <1>2, FS_Subset, FS_CardinalityType
<1> HIDE DEF page
<1>5. \A i \in page, j \in ids : j < i => j \in page
  <2> SUFFICES ASSUME NEW i \in page, NEW j \in ids, j < i PROVE Cardinality(below(j)) < n
    BY <1>1
  <2>1. below(j) \in SUBSET below(i)
    <3>1. \A x \in ids : x < j => x < i
      BY <1>1
    <3> QED  BY <3>1
  <2>2. Cardinality(below(i)) < n /\ Cardinality(below(i)) \in Nat /\ Cardinality(below(j)) \in Nat
    BY <1>1, <1>4
  <2> HIDE DEF below
  <2>3. Cardinality(below(j)) <= Cardinality(below(i))
    BY <1>4, <2>1, FS_Subset
  <2> QED  BY <2>2, <2>3
<1>6. Cardinality(page) <= n
  <2>1. CASE page = {}
    BY <2>1, FS_EmptySet
  <2>2. CASE page # {}
    <3>1. page \in SUBSET (1..size)
      BY <1>1
    <3>2. PICK m \in page : \A q \in page : m >= q
      BY <2>2, <3>1, MaxIsGreatest
    <3>3. page \ {m} \in SUBSET below(m)
      <4>1. \A q \in page \ {m} : q \in ids /\ q < m
        BY <1>1, <3>2
      <4> QED  BY <4>1
    <3>4. Cardinality(below(m)) < n
      BY <1>1
    <3> HIDE DEF below
    <3>5. Cardinality(page \ {m}) <= Cardinality(below(m))
      BY <1>4, <3>3, FS_Subset
    <3>6. Cardinality(page \ {m}) = Cardinality(page) - 1
      BY <1>3, FS_RemoveElement
    <3> QED  BY <1>3, <1>4, <3>4, <3>5, <3>6
  <2> QED  BY <2>1, <2>2
<1>7. n # 0 /\ ids # {} => page # {}
  <2> SUFFICES ASSUME n # 0, ids # {} PROVE page # {}
    OBVIOUS
  <2>1. PICK m \in ids : \A q \in ids : m <= q
    BY LeastOf
  <2>2. below(m) = {}
    <3>1. \A q \in ids : q \in Nat /\ ~(q < m)
      BY <2>1
    <3> QED  BY <3>1
  <2>3. Cardinality(below(m)) = 0
    BY <2>2, FS_EmptySet
  <2> QED  BY <1>1, <2>1, <2>3
<1> QED  BY <1>1, <1>3, <1>5, <1>6, <1>7 DEF page

LEMMA LimitIs ==
    ASSUME NEW a \in Nat, NEW b \in Nat
    PROVE  Min({a, b}) \in Nat /\ Min({a, b}) <= a /\ Min({a, b}) <= b
           /\ (Min({a, b}) = a \/ Min({a, b}) = b)
<1>1. {a, b} \in SUBSET Nat /\ {a, b} # {}
  OBVIOUS
<1>2. Min({a, b}) \in {a, b} /\ \A q \in {a, b} : Min({a, b}) <= q
  BY <1>1, MinIsLeast
<1> QED  BY <1>2

\* No more rows are read than a page has.
LEMMA ReadOnce ==
    ASSUME NEW page, IsFiniteSet(page)
    PROVE  LET chunk == {Taken(i) : i \in page}
           IN  IsFiniteSet(chunk) /\ Cardinality(chunk) <= Cardinality(page)
<1> DEFINE chunk == {Taken(i) : i \in page}
           f == [i \in page |-> Taken(i)]
<1>1. f \in Surjection(page, chunk)
  BY DEF Surjection
<1> HIDE DEF f
<1> QED  BY <1>1, FS_Surjection

-----------------------------------------------------------------------------
LEMMA InvInit == Init => Inv
<1> SUFFICES ASSUME Init PROVE Inv
  OBVIOUS
<1>1. /\ media \in Tables /\ rows = <<>> /\ queue = {} /\ job = [p \in Processes |-> NoJob]
      /\ deploy \in Deployments /\ pass = NoPass
  BY DEF Init
<1>2. rows \in Seq(Row) /\ DOMAIN rows = {}
  BY <1>1, EmptySeq
<1>3. TypeOK
  BY <1>1, <1>2 DEF TypeOK
<1>4. "backfill" \in Processes
  BY DEF Processes
<1> QED  BY <1>1, <1>2, <1>3, <1>4 DEF Inv, RowsTell, AtWork, PassOK

\* What does not touch the rows and the pass leaves the backfill alone.
LEMMA PassStands ==
    ASSUME Inv, UNCHANGED <<media, pass>>, DOMAIN rows \subseteq DOMAIN rows',
           \A i \in DOMAIN rows : rows'[i] = rows[i]
    PROVE  PassOK'
<1> SUFFICES ASSUME pass # NoPass PROVE MetOnce' /\ WithinAllowance' /\ SteadyMet' /\ DoneCovers'
  BY DEF PassOK
<1>1. MetOnce /\ WithinAllowance /\ SteadyMet /\ DoneCovers
  BY DEF Inv, PassOK
<1>2. MetOnce'
  BY <1>1 DEF MetOnce
<1>3. WithinAllowance'
  BY <1>1 DEF WithinAllowance
<1>4. \A i : Met(i)' <=> Met(i)
  BY DEF Met
<1>5. SteadyMet'
  BY <1>1, <1>4 DEF SteadyMet
<1>6. DoneCovers'
  BY <1>1, <1>4 DEF DoneCovers
<1> QED  BY <1>2, <1>3, <1>5, <1>6

LEMMA BackfillIs ==
    ASSUME Inv
    PROVE  /\ "backfill" \in Processes
           /\ \A w \in Workers : w # "backfill" /\ w \in Processes
           /\ "web" # "backfill"
           /\ rows \in Seq(Row)
           /\ DOMAIN rows = 1..Len(rows) /\ Len(rows) \in Nat
BY WorkersAssumption DEF Processes, Inv, TypeOK

LEMMA CreateStep ==
    ASSUME Inv, Create
    PROVE  Inv'
<1> DEFINE i == Len(rows) + 1
<1>1. /\ i \in DOMAIN media /\ job["web"] = NoJob /\ rows' = Append(rows, Blank)
      /\ UNCHANGED <<media, deploy, pass>>
      /\ \/ /\ job' = [job EXCEPT !["web"] = [at |-> "taken", row |-> i, duration |-> FALSE]]
            /\ queue' = queue
         \/ /\ queue' \in {queue, queue \cup {i}}
            /\ job' = job
  BY DEF Create
<1>2. Blank \in Row /\ Tells(Blank)
  BY DEF Blank, Row, Tells
<1>3. rows \in Seq(Row) /\ DOMAIN rows = 1..Len(rows) /\ Len(rows) \in Nat
  BY BackfillIs
<1>4. /\ rows' \in Seq(Row) /\ DOMAIN rows' = 1..i /\ i \in DOMAIN rows' /\ i \in Nat
      /\ \A j \in DOMAIN rows : rows'[j] = rows[j]
      /\ rows'[i] = Blank
      /\ DOMAIN rows \subseteq DOMAIN rows'
      /\ \A j \in DOMAIN rows' : j \in DOMAIN rows \/ j = i
  BY <1>1, <1>2, <1>3, AppendProperties
<1> HIDE DEF i
<1>5. job \in [Processes -> {NoJob} \cup Job] /\ "web" \in Processes /\ "backfill" \in Processes
  BY DEF Inv, TypeOK, Processes
<1>6. [at |-> "taken", row |-> i, duration |-> FALSE] \in Job
  BY <1>4 DEF Job
<1>7. /\ job' \in [Processes -> {NoJob} \cup Job]
      /\ job'["backfill"] = job["backfill"]
      /\ \A p \in Processes : job'[p] # NoJob => job'[p] = job[p] \/ job'[p].row = i
  <2> DEFINE new == [at |-> "taken", row |-> i, duration |-> FALSE]
  <2>1. new \in Job /\ new.row = i
    BY <1>6
  <2>2. job' = job \/ job' = [job EXCEPT !["web"] = new]
    BY <1>1
  <2> HIDE DEF new
  <2> QED  BY <1>5, <2>1, <2>2
<1>8. \A p \in Processes : job'[p] # NoJob => job'[p].row \in DOMAIN rows'
  BY <1>4, <1>7 DEF Inv, TypeOK
<1>9. TypeOK'
  <2>1. DOMAIN rows' \subseteq DOMAIN media'
    BY <1>1, <1>4 DEF Inv, TypeOK
  <2>2. queue' \subseteq DOMAIN rows'
    BY <1>1, <1>4 DEF Inv, TypeOK
  <2> QED  BY <1>1, <1>4, <1>7, <1>8, <2>1, <2>2 DEF Inv, TypeOK
<1>10. RowsTell'
  <2>1. \A j \in DOMAIN rows' : Tells(rows'[j])
    BY <1>2, <1>4 DEF Inv, RowsTell
  <2> QED  BY <2>1 DEF RowsTell, Tells
<1>11. AtWork'
  BY <1>1, <1>7 DEF Inv, AtWork
<1>12. PassOK'
  BY <1>1, <1>4, PassStands
<1> QED  BY <1>9, <1>10, <1>11, <1>12 DEF Inv

\* Steps of beat, broker and deployments touch neither rows nor the pass.
LEMMA QueueStep ==
    ASSUME Inv, UNCHANGED <<media, rows, pass>>, deploy' \in Deployments,
           queue' \subseteq DOMAIN rows, job'["backfill"] = job["backfill"],
           job' \in [Processes -> {NoJob} \cup Job],
           \A p \in Processes : job'[p] # NoJob => job'[p].row \in DOMAIN rows
    PROVE  Inv'
<1>1. TypeOK'
  BY DEF Inv, TypeOK
<1>2. RowsTell' /\ AtWork'
  BY DEF Inv, RowsTell, AtWork
<1>3. PassOK'
  BY PassStands
<1> QED  BY <1>1, <1>2, <1>3 DEF Inv

LEMMA DeployStep ==
    ASSUME Inv, Deploy
    PROVE  Inv'
BY QueueStep DEF Deploy, Inv, TypeOK

LEMMA RetryStep ==
    ASSUME Inv, NEW old \in DOMAIN rows, RetryUnprocessed(old)
    PROVE  Inv'
<1>1. /\ queue' = queue \cup {i \in 1..old : Stuck(i)}
      /\ UNCHANGED <<media, rows, job, deploy, pass>>
  BY DEF RetryUnprocessed
<1>2. 1..old \subseteq DOMAIN rows
  BY BackfillIs
<1>3. queue' \subseteq DOMAIN rows
  BY <1>1, <1>2 DEF Inv, TypeOK
<1> QED  BY <1>1, <1>3, QueueStep DEF Inv, TypeOK

\* What is read of a row.
LEMMA TakenIs ==
    ASSUME Inv, NEW i \in DOMAIN rows
    PROVE  Taken(i) \in Job /\ Taken(i).row = i /\ Taken(i) # NoJob
<1>1. rows[i] \in Row /\ i \in Nat
  BY BackfillIs
<1>2. rows[i].duration \in BOOLEAN
  BY <1>1 DEF Row
<1>3. (media[i] = "video" /\ rows[i].duration) \in BOOLEAN
  BY <1>2
<1> QED  BY <1>1, <1>3 DEF Taken, Job, NoJob

LEMMA TakeStep ==
    ASSUME Inv, NEW w \in Workers, NEW i \in queue, Take(w, i)
    PROVE  Inv'
<1>1. /\ queue' = queue \ {i} /\ UNCHANGED <<media, rows, deploy, pass>>
      /\ job' = job \/ job' = [job EXCEPT ![w] = Taken(i)]
  BY DEF Take
<1>2. i \in DOMAIN rows /\ queue \subseteq DOMAIN rows
  BY DEF Inv, TypeOK
<1>3. Taken(i) \in Job /\ Taken(i).row = i
  BY <1>2, TakenIs
<1>4. w \in Processes /\ w # "backfill" /\ "backfill" \in Processes
  BY BackfillIs
<1>5. job \in [Processes -> {NoJob} \cup Job]
      /\ \A p \in Processes : job[p] # NoJob => job[p].row \in DOMAIN rows
  BY DEF Inv, TypeOK
<1>6. /\ job' \in [Processes -> {NoJob} \cup Job]
      /\ job'["backfill"] = job["backfill"]
      /\ \A p \in Processes : job'[p] # NoJob => job'[p].row \in DOMAIN rows
  BY <1>1, <1>2, <1>3, <1>4, <1>5
<1>7. queue' \subseteq DOMAIN rows /\ deploy' \in Deployments
  BY <1>1, <1>2 DEF Inv, TypeOK
<1> QED  BY <1>1, <1>6, <1>7, QueueStep

-----------------------------------------------------------------------------
(* The backfill.                                                            *)

LEMMA PassIs ==
    ASSUME Inv, pass # NoPass
    PROVE  /\ pass \in Pass
           /\ MetOnce /\ WithinAllowance /\ SteadyMet /\ DoneCovers
           /\ pass.visited \in Seq(Nat) /\ pass.chunk \subseteq Job
           /\ pass.total \in Nat /\ pass.cursor \in Nat /\ Len(pass.visited) \in Nat
           /\ Cardinality(pass.chunk) \in Nat
<1>1. pass \in Pass /\ MetOnce /\ WithinAllowance /\ SteadyMet /\ DoneCovers
  BY DEF Inv, PassOK, TypeOK
<1>2. /\ pass.visited \in Seq(Nat) /\ pass.chunk \subseteq Job
      /\ pass.total \in Nat /\ pass.cursor \in Nat
  BY <1>1 DEF Pass
<1>3. Len(pass.visited) \in Nat
  BY <1>2, LenProperties
<1>4. Cardinality(pass.chunk) \in Nat
  BY <1>1, FS_CardinalityType DEF WithinAllowance
<1> QED  BY <1>1, <1>2, <1>3, <1>4

\* A write leaves the rows that still need the pass in its sight.
LEMMA SteadyStays ==
    ASSUME Inv, pass # NoPass, media' = media, DOMAIN rows' = DOMAIN rows,
           pass'.at = pass.at, pass'.kind = pass.kind, pass'.degraded = pass.degraded,
           pass'.total = pass.total, pass'.cursor = pass.cursor,
           pass'.steady \subseteq pass.steady,
           \A j \in pass'.steady : Candidate(rows'[j], pass.degraded),
           \A j \in pass.steady : Met(j) => Met(j)',
           pass.at = "done" => pass'.chunk = pass.chunk /\ pass'.visited = pass.visited
    PROVE  SteadyMet' /\ DoneCovers'
<1>1. SteadyMet /\ DoneCovers
  BY PassIs
<1>2. SteadyMet'
  BY <1>1 DEF SteadyMet
<1>3. DoneCovers'
  BY <1>1 DEF DoneCovers
<1> QED  BY <1>2, <1>3

\* The backfill turns from a row of its page to the next.
LEMMA TurnedMeetsOnce ==
    ASSUME Inv, job["backfill"] # NoJob, DOMAIN rows' = DOMAIN rows,
           pass'.total = pass.total, pass'.cursor = pass.cursor,
           pass'.chunk = pass.chunk \ {job["backfill"]},
           pass'.visited = Append(pass.visited, job["backfill"].row)
    PROVE  MetOnce' /\ WithinAllowance' /\ \A j : Met(j) => Met(j)'
<1> DEFINE b == job["backfill"]
           n == Len(pass.visited)
<1>1. pass # NoPass /\ b \in pass.chunk
  BY DEF Inv, AtWork
<1>2. MetOnce /\ WithinAllowance
  BY <1>1, PassIs
<1>3. /\ pass.visited \in Seq(Nat) /\ n \in Nat /\ pass.total \in Nat
      /\ Cardinality(pass.chunk) \in Nat /\ b.row \in Nat
  BY <1>1, PassIs DEF Job
<1>4. /\ b.row <= pass.cursor /\ b.row \in DOMAIN rows
      /\ \A k \in DOMAIN pass.visited : pass.visited[k] # b.row
      /\ \A other \in pass.chunk : b.row = other.row => b = other
  BY <1>1, <1>2 DEF MetOnce
<1>5. /\ pass'.chunk = pass.chunk \ {b} /\ pass'.visited = Append(pass.visited, b.row)
  OBVIOUS
<1> HIDE DEF b
<1>6. /\ DOMAIN pass.visited = 1..n /\ DOMAIN pass'.visited = 1..n + 1 /\ Len(pass'.visited) = n + 1
      /\ \A k \in DOMAIN pass.visited : pass'.visited[k] = pass.visited[k]
      /\ pass'.visited[n + 1] = b.row
  BY <1>3, <1>5, AppendProperties
<1>7. /\ \A k \in DOMAIN pass'.visited : k \in DOMAIN pass.visited \/ k = n + 1
      /\ DOMAIN pass.visited \subseteq DOMAIN pass'.visited /\ n + 1 \in DOMAIN pass'.visited
  BY <1>3, <1>6
<1>8. MetOnce'
  <2>1. \A k, l \in DOMAIN pass.visited : pass.visited[k] = pass.visited[l] => k = l
    BY <1>2 DEF MetOnce, IsInjective
  <2>2. IsInjective(pass'.visited)
    BY <1>4, <1>6, <1>7, <2>1 DEF IsInjective
  <2>3. \A k \in DOMAIN pass'.visited : pass'.visited[k] <= pass'.cursor
    BY <1>2, <1>4, <1>6, <1>7 DEF MetOnce
  <2>4. \A next \in pass'.chunk : next \in pass.chunk /\ next.row # b.row
    BY <1>4, <1>5
  <2>5. \A next \in pass'.chunk :
          /\ next.row <= pass'.cursor /\ next.row \in DOMAIN rows'
          /\ \A k \in DOMAIN pass'.visited : pass'.visited[k] # next.row
    BY <1>2, <1>6, <1>7, <2>4 DEF MetOnce
  <2>6. \A one, other \in pass'.chunk : one.row = other.row => one = other
    BY <1>2, <2>4 DEF MetOnce
  <2> QED  BY <2>2, <2>3, <2>5, <2>6 DEF MetOnce
<1>9. WithinAllowance'
  <2>1. IsFiniteSet(pass.chunk) /\ n + Cardinality(pass.chunk) <= pass.total
    BY <1>2 DEF WithinAllowance
  <2>2. IsFiniteSet(pass.chunk \ {b}) /\ Cardinality(pass.chunk \ {b}) = Cardinality(pass.chunk) - 1
    BY <1>1, <2>1, FS_RemoveElement
  <2>3. Cardinality(pass'.chunk) = Cardinality(pass.chunk) - 1
    BY <1>5, <2>2
  <2>4. \A k, c, t \in Nat : k + c <= t => (k + 1) + (c - 1) <= t
    OBVIOUS
  <2>5. (n + 1) + (Cardinality(pass.chunk) - 1) <= pass.total
    BY <1>3, <2>1, <2>4
  <2>6. Len(pass'.visited) + Cardinality(pass'.chunk) <= pass'.total
    BY <1>6, <2>3, <2>5
  <2> QED  BY <1>5, <2>2, <2>6 DEF WithinAllowance
<1>10. \A j : Met(j) => Met(j)'
  <2> SUFFICES ASSUME NEW j, Met(j)
               PROVE  \/ \E k \in DOMAIN pass'.visited : pass'.visited[k] = j
                      \/ \E next \in pass'.chunk : next.row = j
    BY DEF Met
  <2>1. CASE \E k \in DOMAIN pass.visited : pass.visited[k] = j
    BY <1>6, <1>7, <2>1
  <2>2. CASE \E next \in pass.chunk : next.row = j
    BY <1>5, <1>6, <1>7, <2>2
  <2> QED  BY <2>1, <2>2 DEF Met
<1> QED  BY <1>8, <1>9, <1>10

LEMMA VisitedIs ==
    ASSUME Inv, job["backfill"] # NoJob
    PROVE  /\ pass # NoPass /\ pass.at = "running" /\ Visited \in Pass
           /\ Visited.at = pass.at /\ Visited.kind = pass.kind /\ Visited.degraded = pass.degraded
           /\ Visited.total = pass.total /\ Visited.cursor = pass.cursor
           /\ Visited.steady = pass.steady
           /\ Visited.chunk = pass.chunk \ {job["backfill"]}
           /\ Visited.visited = Append(pass.visited, job["backfill"].row)
<1>1. pass # NoPass /\ pass.at = "running" /\ job["backfill"] \in pass.chunk
  BY DEF Inv, AtWork
<1>2. pass \in Pass /\ pass.visited \in Seq(Nat) /\ pass.chunk \subseteq Job
  BY <1>1, PassIs
<1> DEFINE left == pass.chunk \ {job["backfill"]}
           met == Append(pass.visited, job["backfill"].row)
<1>3. left \in SUBSET Job
  BY <1>2
<1>4. job["backfill"].row \in Nat
  BY <1>1, <1>2 DEF Job
<1>5. met \in Seq(Nat)
  BY <1>2, <1>4, AppendProperties
<1>6. Visited = [pass EXCEPT !.chunk = left, !.visited = met]
  BY DEF Visited
<1> HIDE DEF left, met
<1>7. /\ Visited \in Pass
      /\ Visited.at = pass.at /\ Visited.kind = pass.kind /\ Visited.degraded = pass.degraded
      /\ Visited.total = pass.total /\ Visited.cursor = pass.cursor
      /\ Visited.steady = pass.steady /\ Visited.chunk = left /\ Visited.visited = met
  BY <1>2, <1>3, <1>5, <1>6 DEF Pass
<1> QED  BY <1>1, <1>7 DEF left, met

\* A process lets its job go.
LEMMA JobEnds ==
    ASSUME Inv, NEW p \in Processes, job' = [job EXCEPT ![p] = NoJob], DOMAIN rows' = DOMAIN rows
    PROVE  /\ job' \in [Processes -> {NoJob} \cup Job]
           /\ \A q \in Processes : job'[q] # NoJob => job'[q].row \in DOMAIN rows'
           /\ job'["backfill"] = IF p = "backfill" THEN NoJob ELSE job["backfill"]
<1>1. /\ job \in [Processes -> {NoJob} \cup Job]
      /\ \A q \in Processes : job[q] # NoJob => job[q].row \in DOMAIN rows
      /\ "backfill" \in Processes
  BY BackfillIs DEF Inv, TypeOK
<1> QED  BY <1>1

LEMMA FailStep ==
    ASSUME Inv, NEW p \in Processes, job[p] # NoJob, Fail(p)
    PROVE  Inv'
<1>1. /\ job' = [job EXCEPT ![p] = NoJob]
      /\ pass' = IF p = "backfill" THEN Visited ELSE pass
      /\ UNCHANGED <<media, rows, queue, deploy>>
  BY DEF Fail
<1>2. /\ job' \in [Processes -> {NoJob} \cup Job]
      /\ \A q \in Processes : job'[q] # NoJob => job'[q].row \in DOMAIN rows'
      /\ job'["backfill"] = IF p = "backfill" THEN NoJob ELSE job["backfill"]
  BY <1>1, JobEnds
<1>3. CASE p # "backfill"
  <2>1. job'["backfill"] = job["backfill"] /\ pass' = pass
    BY <1>1, <1>2, <1>3
  <2>2. queue' \subseteq DOMAIN rows /\ deploy' \in Deployments
    BY <1>1 DEF Inv, TypeOK
  <2>3. \A q \in Processes : job'[q] # NoJob => job'[q].row \in DOMAIN rows
    BY <1>1, <1>2
  <2> QED  BY <1>1, <1>2, <2>1, <2>2, <2>3, QueueStep
<1>4. CASE p = "backfill"
  <2>1. pass' = Visited /\ job["backfill"] # NoJob /\ job'["backfill"] = NoJob
    BY <1>1, <1>2, <1>4
  <2>2. /\ pass # NoPass /\ pass.at = "running" /\ pass' \in Pass
        /\ pass'.at = pass.at /\ pass'.kind = pass.kind /\ pass'.degraded = pass.degraded
        /\ pass'.total = pass.total /\ pass'.cursor = pass.cursor
        /\ pass'.steady = pass.steady
        /\ pass'.chunk = pass.chunk \ {job["backfill"]}
        /\ pass'.visited = Append(pass.visited, job["backfill"].row)
    BY <2>1, VisitedIs
  <2>3. MetOnce' /\ WithinAllowance' /\ \A j : Met(j) => Met(j)'
    BY <1>1, <2>1, <2>2, TurnedMeetsOnce
  <2>4. \A j \in pass'.steady : Candidate(rows'[j], pass.degraded)
    BY <1>1, <2>2, PassIs DEF SteadyMet
  <2>5. SteadyMet' /\ DoneCovers'
    BY <1>1, <2>2, <2>3, <2>4, SteadyStays
  <2>6. TypeOK'
    BY <1>1, <1>2, <2>2 DEF Inv, TypeOK
  <2>7. RowsTell' /\ AtWork'
    BY <1>1, <2>1 DEF Inv, RowsTell, AtWork
  <2> QED  BY <2>3, <2>5, <2>6, <2>7 DEF Inv, PassOK
<1> QED  BY <1>3, <1>4

LEMMA SaveStep ==
    ASSUME Inv, NEW p \in Processes, job[p] # NoJob, NEW found, Finding(found), Save(p, found)
    PROVE  Inv'
<1> DEFINE i == job[p].row
           row == Saved(rows[i], found)
           gone == NoLongerNeeding(i, row)
           turned == IF p = "backfill" THEN Visited ELSE pass
<1>1. /\ rows' = [rows EXCEPT ![i] = row]
      /\ job' = [job EXCEPT ![p] = NoJob]
      /\ pass' = IF pass = NoPass THEN pass ELSE [turned EXCEPT !.steady = @ \ gone]
      /\ UNCHANGED <<media, queue, deploy>>
  BY DEF Save
<1>2. i \in DOMAIN rows /\ rows[i] \in Row /\ rows \in Seq(Row)
  BY DEF Inv, TypeOK
<1>3. row \in Row /\ Tells(row)
  BY <1>2, SavedTells
<1>4. pass # NoPass => gone = IF Candidate(row, pass.degraded) THEN {} ELSE {i}
  <2>1. pass # NoPass => pass.at # "idle"
    BY PassIs DEF Pass
  <2> QED  BY <2>1 DEF NoLongerNeeding
<1> HIDE DEF i, row, gone, turned
<1>5. /\ rows' \in Seq(Row) /\ DOMAIN rows' = DOMAIN rows
      /\ \A j \in DOMAIN rows : rows'[j] = IF j = i THEN row ELSE rows[j]
  BY <1>1, <1>2, <1>3
<1>6. /\ job' \in [Processes -> {NoJob} \cup Job]
      /\ \A q \in Processes : job'[q] # NoJob => job'[q].row \in DOMAIN rows'
      /\ job'["backfill"] = IF p = "backfill" THEN NoJob ELSE job["backfill"]
  BY <1>1, <1>5, JobEnds
<1>7. RowsTell'
  <2>1. \A j \in DOMAIN rows' : Tells(rows'[j])
    BY <1>3, <1>5 DEF Inv, RowsTell
  <2> QED  BY <2>1 DEF RowsTell, Tells
<1>8. CASE pass = NoPass
  <2>1. pass' = NoPass /\ job["backfill"] = NoJob
    BY <1>1, <1>8 DEF Inv, AtWork
  <2>2. job'["backfill"] = NoJob
    BY <1>6, <2>1
  <2>3. TypeOK'
    BY <1>1, <1>5, <1>6, <2>1 DEF Inv, TypeOK
  <2> QED  BY <1>7, <2>1, <2>2, <2>3 DEF Inv, AtWork, PassOK
<1>9. CASE pass # NoPass
  <2>1. p = "backfill" => job["backfill"] # NoJob
    OBVIOUS
  <2>2. /\ turned \in Pass /\ turned.at = pass.at /\ turned.kind = pass.kind
        /\ turned.degraded = pass.degraded /\ turned.total = pass.total
        /\ turned.cursor = pass.cursor /\ turned.steady = pass.steady
    BY <1>9, <2>1, VisitedIs, PassIs DEF turned
  <2>3. pass' = [turned EXCEPT !.steady = turned.steady \ gone]
    BY <1>1, <1>9
  <2>4. (turned.steady \ gone) \in SUBSET Nat
    BY <2>2 DEF Pass
  <2>5. /\ pass' \in Pass
        /\ pass'.at = turned.at /\ pass'.kind = turned.kind
        /\ pass'.degraded = turned.degraded
        /\ pass'.total = turned.total /\ pass'.cursor = turned.cursor
        /\ pass'.chunk = turned.chunk /\ pass'.visited = turned.visited
    BY <2>2, <2>3, <2>4 DEF Pass
  <2>6. pass'.steady = pass.steady \ gone
    BY <2>2, <2>3, <2>4 DEF Pass
  <2>7. pass # NoPass /\ pass' # NoPass
    BY <1>9, <2>5 DEF Pass, NoPass
  <2>8. /\ pass'.at = pass.at /\ pass'.kind = pass.kind /\ pass'.degraded = pass.degraded
        /\ pass'.total = pass.total /\ pass'.cursor = pass.cursor
        /\ pass'.steady \subseteq pass.steady
    BY <2>2, <2>5, <2>6
  <2>9. TypeOK'
    BY <1>1, <1>5, <1>6, <2>5 DEF Inv, TypeOK
  <2>10. \A j \in pass'.steady : Candidate(rows'[j], pass.degraded)
    <3> SUFFICES ASSUME NEW j \in pass.steady \ gone PROVE Candidate(rows'[j], pass.degraded)
      BY <2>6
    <3>1. j \in DOMAIN rows /\ Candidate(rows[j], pass.degraded)
      BY <1>9, PassIs DEF SteadyMet
    <3>2. j = i => Candidate(row, pass.degraded)
      BY <1>4, <1>9
    <3> QED  BY <1>5, <3>1, <3>2
  <2>11. CASE p = "backfill"
    <3>1. /\ job["backfill"] # NoJob /\ job'["backfill"] = NoJob /\ pass.at = "running"
          /\ pass'.chunk = pass.chunk \ {job["backfill"]}
          /\ pass'.visited = Append(pass.visited, job["backfill"].row)
      BY <1>6, <2>1, <2>5, <2>11, VisitedIs DEF turned
    <3>2. MetOnce' /\ WithinAllowance' /\ \A j : Met(j) => Met(j)'
      BY <1>5, <2>8, <3>1, TurnedMeetsOnce
    <3>3. SteadyMet' /\ DoneCovers'
      BY <1>1, <1>5, <2>7, <2>8, <2>10, <3>1, <3>2, SteadyStays
    <3>4. AtWork'
      BY <3>1 DEF AtWork
    <3> QED  BY <1>7, <2>9, <3>2, <3>3, <3>4 DEF Inv, PassOK
  <2>12. CASE p # "backfill"
    <3>1. /\ job'["backfill"] = job["backfill"]
          /\ pass'.chunk = pass.chunk /\ pass'.visited = pass.visited
      BY <1>6, <2>5, <2>12 DEF turned
    <3>2. \A j : Met(j) => Met(j)'
      BY <3>1 DEF Met
    <3>3. SteadyMet' /\ DoneCovers'
      BY <1>1, <1>5, <2>7, <2>8, <2>10, <3>1, <3>2, SteadyStays
    <3>4. MetOnce' /\ WithinAllowance'
      BY <1>5, <1>9, <2>8, <3>1, PassIs DEF MetOnce, WithinAllowance
    <3>5. AtWork'
      BY <2>7, <2>8, <3>1 DEF Inv, AtWork
    <3> QED  BY <1>7, <2>9, <3>3, <3>4, <3>5 DEF Inv, PassOK
  <2> QED  BY <2>11, <2>12
<1> QED  BY <1>8, <1>9

LEMMA FinishStep ==
    ASSUME Inv, NEW p \in Processes, job[p] # NoJob, Finish(p)
    PROVE  Inv'
<1>1. PICK found \in FindingsOf(job[p].row, job[p].duration) : Save(p, found)
  BY DEF Finish
<1>2. job[p].row \in DOMAIN rows /\ job[p] \in Job /\ TypeOK
  BY DEF Inv, TypeOK
<1>3. job[p].duration \in BOOLEAN
  BY <1>2 DEF Job
<1>4. Finding(found)
  BY <1>1, <1>2, <1>3, FindingsFind
<1> QED  BY <1>1, <1>4, SaveStep

LEMMA BeginStep ==
    ASSUME Inv, NEW kind \in {"video", "audio"}, NEW degraded \in BOOLEAN, NEW limit \in Limits,
           BackfillBegin(kind, degraded, limit)
    PROVE  Inv'
<1> DEFINE found == Candidates(kind, degraded)
           total == Min({Cardinality(found), limit})
<1>1. /\ pass = NoPass
      /\ pass' = [at |-> "running", kind |-> kind, degraded |-> degraded, total |-> total,
                  cursor |-> 0, chunk |-> {}, visited |-> <<>>, steady |-> found]
      /\ UNCHANGED <<media, rows, queue, job, deploy>>
  BY DEF BackfillBegin
<1>2. job["backfill"] = NoJob
  BY <1>1 DEF Inv, AtWork
<1>3. DOMAIN rows = 1..Len(rows) /\ Len(rows) \in Nat
  BY BackfillIs
<1>4. found \in SUBSET (1..Len(rows)) /\ found \in SUBSET Nat
  BY <1>3 DEF Candidates
<1>5. \A j \in found : j \in DOMAIN rows /\ media[j] = kind /\ Candidate(rows[j], degraded)
  BY DEF Candidates
<1>6. \A j \in found : ~(j <= 0)
  BY <1>4
<1> HIDE DEF found
<1>7. Cardinality(found) \in Nat
  <2>1. IsFiniteSet(1..Len(rows))
    BY <1>3, FS_Interval
  <2> QED  BY <1>4, <2>1, FS_Subset, FS_CardinalityType
<1>8. total \in Nat
  BY <1>7, BackfillAssumption, LimitIs
<1> HIDE DEF total
<1>9. pass' \in Pass
  <2>1. <<>> \in Seq(Nat) /\ {} \in SUBSET Job
    BY EmptySeq
  <2> QED  BY <1>1, <1>4, <1>8, <2>1 DEF Pass
<1>10. /\ pass'.chunk = {} /\ pass'.visited = <<>> /\ pass'.cursor = 0 /\ pass'.steady = found
       /\ pass'.total = total /\ pass'.at = "running" /\ pass'.kind = kind
  BY <1>1
<1>11. pass'.degraded = degraded
  BY <1>1
<1>12. TypeOK'
  BY <1>1, <1>9 DEF Inv, TypeOK
<1>13. RowsTell' /\ AtWork'
  BY <1>1, <1>2 DEF Inv, RowsTell, AtWork
<1>14. MetOnce'
  BY <1>10, EmptySeq DEF MetOnce, IsInjective
<1>15. WithinAllowance'
  <2>1. Len(pass'.visited) = 0 /\ Cardinality(pass'.chunk) = 0 /\ IsFiniteSet(pass'.chunk)
    BY <1>10, EmptySeq, FS_EmptySet
  <2> QED  BY <1>8, <1>10, <2>1 DEF WithinAllowance
<1>16. SteadyMet' /\ DoneCovers'
  BY <1>1, <1>5, <1>6, <1>10, <1>11 DEF SteadyMet, DoneCovers
<1> QED  BY <1>12, <1>13, <1>14, <1>15, <1>16 DEF Inv, PassOK

LEMMA PageStep ==
    ASSUME Inv, BackfillPage
    PROVE  Inv'
<1> DEFINE left == pass.total - Len(pass.visited)
           wanted == Min({BatchSize, left})
           ids == {i \in Candidates(pass.kind, pass.degraded) : i > pass.cursor}
           page == FirstOnes(wanted, ids)
<1>1. /\ pass.at = "running" /\ pass.chunk = {} /\ job["backfill"] = NoJob
      /\ pass' = IF left = 0 \/ page = {} THEN [pass EXCEPT !.at = "done"]
                 ELSE [pass EXCEPT !.cursor = Max(page), !.chunk = {Taken(i) : i \in page}]
      /\ UNCHANGED <<media, rows, queue, job, deploy>>
  BY DEF BackfillPage, Page
<1>2. pass # NoPass
  BY <1>1 DEF NoPass
<1>3. /\ pass \in Pass /\ MetOnce /\ WithinAllowance /\ SteadyMet /\ DoneCovers
      /\ pass.visited \in Seq(Nat) /\ pass.total \in Nat /\ pass.cursor \in Nat
      /\ Len(pass.visited) \in Nat
  BY <1>2, PassIs
<1>4. left \in Nat
  <2>1. Len(pass.visited) <= pass.total
    BY <1>1, <1>3, FS_EmptySet DEF WithinAllowance
  <2> QED  BY <1>3, <2>1
<1>5. DOMAIN rows = 1..Len(rows) /\ Len(rows) \in Nat
  BY BackfillIs
<1>6. ids \in SUBSET (1..Len(rows))
  BY <1>5 DEF Candidates
<1>7. \A i \in ids : i > pass.cursor /\ i \in DOMAIN rows
  BY DEF Candidates
<1>8. \A i \in pass.steady : i > pass.cursor => i \in ids
  BY <1>3 DEF SteadyMet, Candidates
<1> HIDE DEF ids, left
<1>9. wanted \in Nat /\ wanted <= left /\ (left # 0 => wanted # 0)
  BY <1>4, BackfillAssumption, LimitIs
<1> HIDE DEF wanted
<1>10. /\ page \subseteq ids /\ IsFiniteSet(page) /\ Cardinality(page) \in Nat
       /\ Cardinality(page) <= wanted
       /\ \A i \in page, j \in ids : j < i => j \in page
       /\ wanted # 0 /\ ids # {} => page # {}
  BY <1>5, <1>6, <1>9, FirstOnesAre
<1> HIDE DEF page
<1>11. RowsTell' /\ AtWork'
  BY <1>1 DEF Inv, RowsTell, AtWork
<1>12. CASE left = 0 \/ page = {}
  <2>1. pass' = [pass EXCEPT !.at = "done"]
    BY <1>1, <1>12
  <2>2. /\ pass' \in Pass /\ pass'.at = "done" /\ pass'.kind = pass.kind
        /\ pass'.degraded = pass.degraded
        /\ pass'.total = pass.total /\ pass'.cursor = pass.cursor /\ pass'.chunk = pass.chunk
        /\ pass'.visited = pass.visited /\ pass'.steady = pass.steady
    BY <1>3, <2>1 DEF Pass
  <2>3. TypeOK'
    BY <1>1, <2>2 DEF Inv, TypeOK
  <2>4. MetOnce' /\ WithinAllowance'
    BY <1>1, <1>3, <2>2 DEF MetOnce, WithinAllowance
  <2>5. \A j : Met(j) => Met(j)'
    BY <2>2 DEF Met
  <2>6. SteadyMet'
    BY <1>1, <1>3, <2>2, <2>5 DEF SteadyMet
  <2>7. Len(pass.visited) = pass.total \/ \A i \in pass.steady : Met(i)
    <3>1. CASE left = 0
      <4>1. \A k, t \in Nat : t - k = 0 => k = t
        OBVIOUS
      <4> QED  BY <1>3, <3>1, <4>1 DEF left
    <3>2. CASE left # 0
      <4>1. ids = {}
        BY <1>9, <1>10, <1>12, <3>2
      <4>2. \A i \in pass.steady : i \in Nat /\ ~(i > pass.cursor)
        BY <1>3, <1>8, <4>1 DEF Pass
      <4>3. \A i \in pass.steady : i <= pass.cursor
        BY <1>3, <4>2
      <4> QED  BY <1>3, <4>3 DEF SteadyMet
    <3> QED  BY <3>1, <3>2
  <2>8. DoneCovers'
    BY <1>1, <2>2, <2>5, <2>7 DEF DoneCovers
  <2> QED  BY <1>11, <2>3, <2>4, <2>6, <2>8 DEF Inv, PassOK
<1>13. CASE ~(left = 0 \/ page = {})
  <2> DEFINE last == Max(page)
             chunk == {Taken(i) : i \in page}
  <2>1. pass' = [pass EXCEPT !.cursor = last, !.chunk = chunk]
    BY <1>1, <1>13
  <2>2. page \in SUBSET (1..Len(rows)) /\ page # {}
    BY <1>6, <1>10, <1>13
  <2>3. last \in page /\ \A i \in page : last >= i
    BY <1>5, <2>2, MaxIsGreatest
  <2>4. \A next \in chunk : next.row \in page /\ next = Taken(next.row) /\ next \in Job
    <3>1. \A i \in page : Taken(i) \in Job /\ Taken(i).row = i
      BY <1>5, <2>2, TakenIs
    <3> QED  BY <3>1
  <2>5. \A i \in page : \E next \in chunk : next.row = i
    BY <1>5, <2>2, TakenIs
  <2>6. IsFiniteSet(chunk) /\ Cardinality(chunk) <= Cardinality(page)
    BY <1>10, ReadOnce
  <2>7. Cardinality(chunk) \in Nat
    BY <2>6, FS_CardinalityType
  <2>8. last \in Nat /\ last > pass.cursor
    <3>1. last \in 1..Len(rows) /\ last \in ids
      BY <1>10, <2>2, <2>3
    <3> QED  BY <1>7, <3>1
  <2> HIDE DEF last, chunk
  <2>9. chunk \in SUBSET Job
    BY <2>4
  <2>10. /\ pass' \in Pass /\ pass'.at = "running" /\ pass'.kind = pass.kind
         /\ pass'.degraded = pass.degraded
         /\ pass'.total = pass.total /\ pass'.cursor = last /\ pass'.chunk = chunk
         /\ pass'.visited = pass.visited /\ pass'.steady = pass.steady
    BY <1>1, <1>3, <2>1, <2>8, <2>9 DEF Pass
  <2>11. TypeOK'
    BY <1>1, <2>10 DEF Inv, TypeOK
  <2>12. \A k \in DOMAIN pass.visited : pass.visited[k] \in Nat /\ pass.visited[k] <= pass.cursor
    BY <1>3 DEF MetOnce
  <2>13. \A i \in page : i \in Nat /\ i > pass.cursor /\ i <= last /\ i \in DOMAIN rows
    BY <1>5, <1>7, <1>10, <2>2, <2>3, <2>8
  <2>14. MetOnce'
    <3>1. IsInjective(pass'.visited)
      BY <1>3, <2>10 DEF MetOnce
    <3>2. \A k \in DOMAIN pass'.visited : pass'.visited[k] <= pass'.cursor
      BY <1>3, <2>8, <2>10, <2>12
    <3>3. \A i \in page : \A k \in DOMAIN pass.visited : pass.visited[k] # i
      BY <1>3, <2>12, <2>13
    <3>4. \A next \in pass'.chunk :
            /\ next.row <= pass'.cursor /\ next.row \in DOMAIN rows'
            /\ \A k \in DOMAIN pass'.visited : pass'.visited[k] # next.row
      BY <1>1, <2>4, <2>10, <2>13, <3>3
    <3>5. \A one, other \in pass'.chunk : one.row = other.row => one = other
      BY <2>4, <2>10
    <3> QED  BY <3>1, <3>2, <3>4, <3>5 DEF MetOnce
  <2>15. WithinAllowance'
    <3>1. Cardinality(chunk) <= left
      BY <1>4, <1>9, <1>10, <2>6, <2>7
    <3>2. \A c, k, t \in Nat : c <= t - k => k + c <= t
      OBVIOUS
    <3>3. Len(pass.visited) + Cardinality(chunk) <= pass.total
      BY <1>3, <2>7, <3>1, <3>2 DEF left
    <3> QED  BY <2>6, <2>10, <3>3 DEF WithinAllowance
  <2>16. SteadyMet'
    <3>1. ASSUME NEW i \in pass.steady, i <= last PROVE Met(i)'
      <4>1. i \in Nat
        BY <1>3 DEF Pass
      <4>2. CASE i <= pass.cursor
        <5>1. \E k \in DOMAIN pass.visited : pass.visited[k] = i
          BY <1>1, <1>3, <4>2 DEF SteadyMet, Met
        <5> QED  BY <2>10, <5>1 DEF Met
      <4>3. CASE i > pass.cursor
        <5>1. i \in ids
          BY <1>8, <4>3
        <5>2. i = last \/ i < last
          BY <2>8, <3>1, <4>1
        <5>3. i \in page
          BY <1>10, <2>3, <5>1, <5>2
        <5> QED  BY <2>5, <2>10, <5>3 DEF Met
      <4> QED  BY <1>3, <4>1, <4>2, <4>3
    <3> QED  BY <1>1, <1>3, <2>10, <3>1 DEF SteadyMet
  <2>17. DoneCovers'
    BY <2>10 DEF DoneCovers
  <2> QED  BY <1>11, <2>11, <2>14, <2>15, <2>16, <2>17 DEF Inv, PassOK
<1> QED  BY <1>12, <1>13

LEMMA VisitStep ==
    ASSUME Inv, BackfillVisit
    PROVE  Inv'
<1>1. /\ pass.at = "running" /\ UNCHANGED <<media, rows, queue, deploy, pass>>
  BY DEF BackfillVisit
<1>2. PICK next \in pass.chunk : job' = [job EXCEPT !["backfill"] = next]
  BY DEF BackfillVisit
<1>3. pass # NoPass
  BY <1>1 DEF NoPass
<1>4. next \in Job /\ next.row \in DOMAIN rows
  BY <1>3, PassIs DEF MetOnce
<1>5. /\ job \in [Processes -> {NoJob} \cup Job] /\ "backfill" \in Processes
      /\ \A q \in Processes : job[q] # NoJob => job[q].row \in DOMAIN rows
  BY BackfillIs DEF Inv, TypeOK
<1>6. /\ job' \in [Processes -> {NoJob} \cup Job] /\ job'["backfill"] = next
      /\ \A q \in Processes : job'[q] # NoJob => job'[q].row \in DOMAIN rows
  BY <1>2, <1>4, <1>5
<1>7. TypeOK'
  BY <1>1, <1>6 DEF Inv, TypeOK
<1>8. RowsTell' /\ AtWork'
  BY <1>1, <1>3, <1>6 DEF Inv, RowsTell, AtWork
<1>9. PassOK'
  BY <1>1, PassStands
<1> QED  BY <1>7, <1>8, <1>9 DEF Inv

LEMMA EndStep ==
    ASSUME Inv, BackfillEnd
    PROVE  Inv'
BY DEF BackfillEnd, Inv, TypeOK, RowsTell, AtWork, PassOK

LEMMA InvStep == Inv /\ [Next]_vars => Inv'
<1> SUFFICES ASSUME Inv, [Next]_vars PROVE Inv'
  OBVIOUS
<1>1. CASE Create
  BY <1>1, CreateStep
<1>2. CASE Deploy
  BY <1>2, DeployStep
<1>3. CASE \E old \in DOMAIN rows : RetryUnprocessed(old)
  BY <1>3, RetryStep
<1>4. CASE \E w \in Workers, i \in queue : Take(w, i)
  BY <1>4, TakeStep
<1>5. CASE \E p \in Processes : job[p] # NoJob /\ (Finish(p) \/ Fail(p))
  BY <1>5, FinishStep, FailStep
<1>6. CASE \E kind \in {"video", "audio"}, degraded \in BOOLEAN, limit \in Limits :
              BackfillBegin(kind, degraded, limit)
  BY <1>6, BeginStep
<1>7. CASE BackfillPage
  BY <1>7, PageStep
<1>8. CASE BackfillVisit
  BY <1>8, VisitStep
<1>9. CASE BackfillEnd
  BY <1>9, EndStep
<1>10. CASE UNCHANGED vars
  <2>1. /\ UNCHANGED <<media, rows, pass>> /\ deploy' = deploy /\ queue' = queue /\ job' = job
    BY <1>10 DEF vars
  <2>2. deploy' \in Deployments /\ queue' \subseteq DOMAIN rows
    BY <2>1 DEF Inv, TypeOK
  <2>3. /\ job' \in [Processes -> {NoJob} \cup Job]
        /\ \A p \in Processes : job'[p] # NoJob => job'[p].row \in DOMAIN rows
    BY <2>1 DEF Inv, TypeOK
  <2> QED  BY <2>1, <2>2, <2>3, QueueStep
<1> QED  BY <1>1, <1>2, <1>3, <1>4, <1>5, <1>6, <1>7, <1>8, <1>9, <1>10 DEF Next

LEMMA InvAlways == Spec => []Inv
BY InvInit, InvStep, PTL DEF Spec

-----------------------------------------------------------------------------
(* Theorems.                                                                *)

\* The type invariant of tables, jobs and the backfill's memory.
THEOREM PassesTypeCorrect == Spec => []TypeOK
<1>1. Inv => TypeOK
  BY DEF Inv
<1> QED  BY <1>1, InvAlways, PTL

\* describe tells "not generated" of a row exactly while no pass has saved it,
\* whatever the pass lacked: every pass that ends without a preview, be the
\* file gone, the tool missing, the picture refused or over the budget, leaves
\* a reason in the same write.
THEOREM NotGeneratedAlwaysMeansUntried == Spec => []NotGeneratedMeansUntried
<1>1. Inv => NotGeneratedMeansUntried
  <2> SUFFICES ASSUME Inv, NEW i \in DOMAIN rows
               PROVE  PreviewFor(rows[i]).reason = "not_generated" <=> ~rows[i].tried
    BY DEF NotGeneratedMeansUntried
  <2>1. rows[i] \in Row /\ Tells(rows[i])
    BY DEF Inv, TypeOK, RowsTell
  <2>2. rows[i].reason # "not_generated" /\ rows[i].tried \in BOOLEAN
    BY <2>1 DEF Row
  <2>3. CASE rows[i].preview = 0
    <3>1. PreviewFor(rows[i]).reason = First(rows[i].reason, "not_generated")
      BY <2>3 DEF PreviewFor, Refusal, Preview
    <3> QED  BY <2>1, <2>2, <2>3, <3>1 DEF First, Tells
  <2>4. CASE rows[i].preview # 0
    <3>1. \/ PreviewFor(rows[i]).reason = "preview_over_budget"
          \/ PreviewFor(rows[i]).reason = rows[i].reason
      BY <2>4 DEF PreviewFor, Refusal, Preview
    <3> QED  BY <2>1, <2>2, <2>4, <3>1 DEF Tells
  <2> QED  BY <2>3, <2>4
<1> QED  BY <1>1, InvAlways, PTL

\* A backfill meets no row twice, and ends with its allowance spent or every
\* row met that needed it all along, for any page size, limit and interleaving
\* with passes that stamp rows of its query or take their stamp away.
THEOREM BackfillAlwaysCovers == Spec => []BackfillCovers
<1>1. Inv => BackfillCovers
  <2> SUFFICES ASSUME Inv, pass # NoPass
               PROVE  /\ IsInjective(pass.visited)
                      /\ pass.at = "done" => \/ Len(pass.visited) = pass.total
                                             \/ pass.steady \subseteq Range(pass.visited)
    BY DEF BackfillCovers
  <2>1. MetOnce /\ DoneCovers
    BY PassIs
  <2>2. pass.chunk = {} => \A i : Met(i) => i \in Range(pass.visited)
    BY DEF Met, Range
  <2> QED  BY <2>1, <2>2 DEF MetOnce, DoneCovers
<1> QED  BY <1>1, InvAlways, PTL
=============================================================================
