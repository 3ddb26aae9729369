--------------------------- MODULE Encoder_proofs ---------------------------
(***************************************************************************)
(* Proofs about Encoder, and with it about Startup and MetadataDiff: for   *)
(* any machine and configuration a process may be started with, any        *)
(* originals, any number of presets, and whatever the external commands    *)
(* answer and leave behind.                                                *)
(***************************************************************************)
EXTENDS Encoder, Filter_proofs, FiniteSetTheorems

-----------------------------------------------------------------------------
(* What the tolerance of the metadata comparison can and cannot hide, for  *)
(* every tolerance and all values.                                         *)

\* A positive whole number times a positive one is not smaller than it.
LEMMA TimesAtLeast ==
    ASSUME NEW x \in Nat \ {0}, NEW p \in Nat PROVE x * p >= p
<1>1. PICK y \in Nat : x = y + 1
    BY SMT
<1>2. x * p = y * p + p
    BY <1>1, SMT
<1>3. y * p \in Nat
    BY <1>1, SMT
<1> QED BY <1>2, <1>3, SMT

(***************************************************************************)
(* "Two integer denominators can only land inside _METADATA_REL_TOL of     *)
(* each other once the denominator passes a million" (encoder.py:105-107): *)
(* exposure times, printed 1/d, match only when they are the same, as long *)
(* as their denominators are below the inverse of the tolerance.           *)
(***************************************************************************)
THEOREM FractionsStayExact ==
    ASSUME NEW c \in 1 .. Precision - 1, NEW d \in 1 .. Precision - 1, c # d, NEW unit
    PROVE  ~ValuesMatch(Num(1, c, unit), Num(1, d, unit))
<1> DEFINE a == Num(1, c, unit)
           b == Num(1, d, unit)
           gap == Abs(d - c)
<1>1. Precision \in Nat /\ c \in Nat /\ d \in Nat
    BY PrecisionAssumption
<1>2. gap \in Nat \ {0}
    BY <1>1 DEF Abs
<1>3. gap * Precision >= Precision
    BY <1>1, <1>2, TimesAtLeast
<1>4. Larger(d, c) < Precision
    BY <1>1 DEF Larger
<1>5. ~Close(a, b)
  <2>1. a.n * b.d = d /\ b.n * a.d = c
    BY <1>1 DEF Num
  <2>2. Abs(d) = d /\ Abs(c) = c
    BY <1>1 DEF Abs
  <2>3. Close(a, b) <=> gap * Precision <= Larger(d, c)
    BY <2>1, <2>2 DEF Close
  <2> QED BY <1>1, <1>2, <1>3, <1>4, <2>3 DEF Larger
<1>6. a # b
    BY DEF Num
<1>7. a.kind = "number"
    BY DEF Num
<1>8. ~TimesMatch(a, b)
    BY <1>7 DEF TimesMatch
<1> QED BY <1>5, <1>6, <1>8 DEF ValuesMatch, NumbersMatch

(***************************************************************************)
(* A relative tolerance has no room around zero: a value of zero, such as  *)
(* no exposure compensation, matches no number but zero, and no number     *)
(* becomes zero unseen (encoder.py:220, abs_tol=0.0).                      *)
(***************************************************************************)
THEOREM ZeroStaysZero ==
    ASSUME NEW n \in Int, NEW d \in Nat \ {0}, NEW e \in Nat \ {0}, NEW unit,
           Precision > 1, n # 0
    PROVE  /\ ~NumbersMatch(Num(0, d, unit), Num(n, e, unit))
           /\ ~NumbersMatch(Num(n, e, unit), Num(0, d, unit))
<1> DEFINE x == Abs(n * d)
<1>1. n * d \in Int /\ n * d # 0
    BY SMT
<1>2. x \in Nat \ {0}
    BY <1>1 DEF Abs
<1>3. x * Precision > x
  <2>1. PICK p \in Nat \ {0} : Precision = p + 1
    BY PrecisionAssumption
  <2>2. x * Precision = p * x + x
    BY <1>2, <2>1
  <2>3. p * x >= x
    BY <1>2, <2>1, TimesAtLeast
  <2> QED BY <1>2, <2>1, <2>2, <2>3
<1>4. Abs(0 - n * d) = x /\ Abs(n * d - 0) = x /\ Abs(0) = 0
    BY <1>1 DEF Abs
<1>5. 0 * e = 0
    OBVIOUS
<1>6. Larger(0, x) = x /\ Larger(x, 0) = x
    BY <1>2 DEF Larger
<1>7. ~Close(Num(0, d, unit), Num(n, e, unit))
    BY <1>2, <1>3, <1>4, <1>5, <1>6, PrecisionAssumption DEF Close, Num
<1>8. ~Close(Num(n, e, unit), Num(0, d, unit))
    BY <1>2, <1>3, <1>4, <1>5, <1>6, PrecisionAssumption DEF Close, Num
<1> QED BY <1>7, <1>8 DEF NumbersMatch

-----------------------------------------------------------------------------
(* One job.                                                                *)

JobFields == {"pc", "src", "preset", "why", "aac", "known", "seen", "out", "hash"}

Ends == {"failed", "skipped", "accepted"}

\* Where the source is there, where it has been probed, where there is an
\* output with its metadata, and where that has been probed as well.
HasSource == (Working \ {"download"}) \cup {"accepted"}
HasProbed == {"encode", "retry", "written", "inspect", "verify", "sanity", "accepted"}
HasOutput == {"inspect", "verify", "sanity", "accepted"}
HasHash   == {"verify", "sanity", "accepted"}

Transposed(size) == <<size[2], size[1]>>

\* The audio may have been encoded.
MayEncode == job.src.content.codec = "unmuxable" /\ Effective("transcode_unsupported_audio")

\* What a run of the command may have left behind, before and after the copy
\* of the metadata: nothing else can have happened to the orientation.
Made(c) ==
    /\ DOMAIN c = Fields
    /\ c.whole
    /\ c.codec # job.src.content.codec => ~job.preset.copies_audio \/ MayEncode
    /\ c.baked \in {0, job.src.content.turn} /\ c.turn \in {0, job.src.content.turn}
    /\ job.preset.auto_orient => c.baked = job.src.content.turn
    /\ \/ c.size = Swapped(job.src.content.size, c.baked)
       \/ /\ c.size \in Nat \X Nat
          /\ c.size \notin {job.src.content.size, Transposed(job.src.content.size)}

\* The presets that are worked with.
PresetsOK ==
    \A i \in DOMAIN boot.presets :
        boot.presets[i].normalize_orientation =>
            boot.presets[i].exiftool_copy /\ boot.presets[i].auto_orient

Plan ==
    /\ boot.pc = "up"
    /\ DOMAIN job = JobFields
    /\ job.pc \in Working \cup Ends
    /\ job.src \in Sources
    /\ \E i \in DOMAIN boot.presets : job.preset = boot.presets[i]
    /\ job.known \in BOOLEAN
    /\ job.aac => MayEncode

Files ==
    /\ DOMAIN dir \subseteq {SourceName, OutputName}
    /\ job.pc \in HasSource => SourceName \in DOMAIN dir /\ dir[SourceName] = job.src.content
    /\ job.pc = "written" /\ OutputName \in DOMAIN dir => Made(dir[OutputName])
    /\ job.pc \in HasOutput =>
          /\ OutputName \in DOMAIN dir /\ Made(dir[OutputName])
          /\ job.preset.normalize_orientation => dir[OutputName].turn = 0

Answered ==
    /\ job.pc \in HasProbed /\ job.known => job.seen = job.src.content
    /\ job.pc \in HasHash =>
          job.hash = dir[OutputName] /\ (job.known => job.out = dir[OutputName])
    /\ job.pc \in {"sanity", "accepted"} =>
          (job.preset.exiftool_copy /\ Setting("metadata_verify") = "strict" => TagsLost = {})
    /\ job.pc = "accepted" => Sane

JobOK == Plan /\ Files /\ Answered

(***************************************************************************)
(* What makes the verdicts inductive: from the command on, the output is   *)
(* one this job's own run has left, made from the source that was          *)
(* downloaded, and every answer is still about the files that are there.   *)
(***************************************************************************)
JobInv == (job = Idle /\ dir = <<>>) \/ JobOK

\* What was decided at the beginning of a job stays.
LEMMA SamePlan ==
    ASSUME UNCHANGED svars, job'.src = job.src, job'.preset = job.preset
    PROVE  /\ SourceName' = SourceName /\ OutputName' = OutputName
           /\ \A k : Setting(k)' = Setting(k) /\ Effective(k)' = Effective(k)
           /\ MayEncode' <=> MayEncode
           /\ \A c : Made(c)' <=> Made(c)
<1>1. \A k : Setting(k)' = Setting(k)
    BY DEF Setting, svars
<1>2. \A k : Effective(k)' = Effective(k)
    BY <1>1 DEF Effective
<1>3. MayEncode' <=> MayEncode
    BY <1>2 DEF MayEncode
<1>4. \A c : Made(c)' <=> Made(c)
    BY <1>3 DEF Made
<1> QED BY <1>1, <1>2, <1>3, <1>4 DEF SourceName, OutputName

\* A decision about files that stay as they are.
LEMMA Onward ==
    ASSUME JobOK, UNCHANGED <<svars, dir>>, DOMAIN job' = JobFields,
           job'.src = job.src, job'.preset = job.preset, job'.aac = job.aac,
           job'.known = job.known, job'.seen = job.seen, job'.out = job.out,
           job'.hash = job.hash, job'.pc \in Working \cup Ends,
           job'.pc \in HasSource => job.pc \in HasSource,
           job'.pc \in HasProbed => job.pc \in HasProbed,
           job'.pc # "written",
           job'.pc \in HasOutput => job.pc \in HasOutput,
           job'.pc \in HasHash => job.pc \in HasHash,
           job'.pc \in {"sanity", "accepted"} =>
               (job.preset.exiftool_copy /\ Setting("metadata_verify") = "strict" => TagsLost = {}),
           job'.pc = "accepted" => Sane
    PROVE  JobOK'
<1>1. /\ SourceName' = SourceName /\ OutputName' = OutputName
      /\ \A k : Setting(k)' = Setting(k) /\ Effective(k)' = Effective(k)
      /\ MayEncode' <=> MayEncode
      /\ \A c : Made(c)' <=> Made(c)
    BY SamePlan
<1>2. Plan'
    BY <1>1 DEF JobOK, Plan, svars
<1>3. Files'
    BY <1>1 DEF JobOK, Files
<1>4. TagsLost' = TagsLost
    BY <1>1 DEF TagsLost
<1>5. Sane' <=> Sane
    BY <1>1 DEF Sane, Saves, SameLength, DisplaySize
<1>6. Answered'
    BY <1>1, <1>4, <1>5 DEF JobOK, Answered
<1> QED BY <1>2, <1>3, <1>6 DEF JobOK

\* The local state after GoOn or Skip.
LEMMA GoesTo ==
    ASSUME DOMAIN job = JobFields, NEW p, GoOn(p) \/ (\E why : p = "skipped" /\ Skip(why))
    PROVE  /\ DOMAIN job' = JobFields /\ job'.pc = p
           /\ job'.src = job.src /\ job'.preset = job.preset /\ job'.aac = job.aac
           /\ job'.known = job.known /\ job'.seen = job.seen /\ job'.out = job.out
           /\ job'.hash = job.hash
BY DEF GoOn, Skip, JobFields

\* The steps that decide about files that stay as they are.
LEMMA DecisionStep ==
    ASSUME JobOK, UNCHANGED svars,
           \/ Fail \/ OpenStill \/ WalkStill \/ AskWalk \/ AskTags \/ AskQuality
           \/ VerifyMetadata \/ CheckSanity
    PROVE  JobOK'
<1>0. DOMAIN job = JobFields /\ job.pc \in Working \cup Ends
    BY DEF JobOK, Plan
<1>1. UNCHANGED dir
    BY DEF Fail, OpenStill, WalkStill, AskWalk, AskTags, AskQuality, VerifyMetadata, CheckSanity
<1>2. CASE WalkStill
  <2>1. job' = job /\ job.pc = "walk"
      BY <1>2 DEF WalkStill, In
  <2> QED BY <1>0, <1>1, <2>1, Onward DEF HasSource, HasProbed, HasOutput, HasHash
<1>3. ASSUME NEW p \in {"walk", "tags", "quality", "probe", "failed", "skipped"},
             GoOn(p) \/ (\E why : p = "skipped" /\ Skip(why)),
             p \in HasSource => job.pc \in HasSource
      PROVE  JobOK'
    BY <1>0, <1>1, <1>3, GoesTo, Onward DEF HasSource, HasProbed, HasOutput, HasHash, Working, Ends
<1>4. CASE Fail
    BY <1>3, <1>4 DEF Fail, HasSource, Working
<1>5. CASE OpenStill
    BY <1>3, <1>5 DEF OpenStill, In, HasSource, Working
<1>6. CASE AskWalk
    BY <1>3, <1>6 DEF AskWalk, In, HasSource, Working
<1>7. CASE AskTags
  <2>1. \/ Skip("embedded_media") \/ GoOn("probe") \/ GoOn("quality")
      BY <1>7 DEF AskTags
  <2>2. job.pc \in HasSource
      BY <1>7 DEF AskTags, In, HasSource, Working
  <2> QED BY <1>3, <2>1, <2>2
<1>8. CASE AskQuality
  <2>1. \/ Skip("source_quality") \/ GoOn("probe")
      BY <1>8 DEF AskQuality
  <2>2. job.pc \in HasSource
      BY <1>8 DEF AskQuality, In, HasSource, Working
  <2> QED BY <1>3, <2>1, <2>2
<1>9. CASE VerifyMetadata
  <2>1. job.pc = "verify"
      BY <1>9 DEF VerifyMetadata, In
  <2>2. CASE GoOn("failed")
      BY <1>3, <2>2 DEF HasSource, Working
  <2>3. CASE GoOn("sanity") /\ ~(TagsLost # {} /\ Setting("metadata_verify") = "strict")
      BY <1>0, <1>1, <2>1, <2>3, GoesTo, Onward
         DEF HasSource, HasProbed, HasOutput, HasHash, Working
  <2> QED BY <1>9, <2>2, <2>3 DEF VerifyMetadata
<1>10. CASE CheckSanity
  <2>1. job.pc = "sanity"
      BY <1>10 DEF CheckSanity, In
  <2>2. CASE Skip("no_gain")
      BY <1>3, <2>2 DEF HasSource, Working
  <2>3. CASE GoOn("accepted") /\ Sane
    <3>1. job.preset.exiftool_copy /\ Setting("metadata_verify") = "strict" => TagsLost = {}
        BY <2>1 DEF JobOK, Answered
    <3> QED BY <1>0, <1>1, <2>1, <2>3, <3>1, GoesTo, Onward
         DEF HasSource, HasProbed, HasOutput, HasHash, Working, Ends
  <2> QED BY <1>10, <2>2, <2>3 DEF CheckSanity
<1> QED BY <1>2, <1>4, <1>5, <1>6, <1>7, <1>8, <1>9, <1>10

\* A job begins, with a preset that takes its source.
LEMMA BeginStep ==
    ASSUME job = Idle, dir = <<>>, UNCHANGED svars, Begin
    PROVE  JobOK'
<1>0. PICK s \in Sources : \E i \in PresetFor(s) :
          job' = [pc |-> "download", src |-> s, preset |-> boot.presets[i], why |-> None,
                  aac |-> FALSE, known |-> TRUE, seen |-> None, out |-> None, hash |-> None]
    BY DEF Begin
<1>1. PICK i \in PresetFor(s) :
          job' = [pc |-> "download", src |-> s, preset |-> boot.presets[i], why |-> None,
                  aac |-> FALSE, known |-> TRUE, seen |-> None, out |-> None, hash |-> None]
    BY <1>0
<1>2. i \in DOMAIN boot.presets /\ boot' = boot /\ boot.pc = "up" /\ dir' = <<>>
    BY DEF PresetFor, svars, Begin, In
<1>3. /\ DOMAIN job' = JobFields /\ job'.pc = "download" /\ job'.src = s
      /\ job'.preset = boot.presets[i] /\ job'.aac = FALSE /\ job'.known = TRUE
    BY <1>1 DEF JobFields
<1>4. Plan'
    BY <1>2, <1>3 DEF Plan, Working
<1>5. Files'
    BY <1>2, <1>3 DEF Files, HasSource, HasOutput, Working
<1>6. Answered'
    BY <1>3 DEF Answered, HasProbed, HasHash
<1> QED BY <1>4, <1>5, <1>6 DEF JobOK

\* The two names differ, and a stored file is the one that was stored.
LEMMA TwoNames == SourceName # OutputName
BY DEF SourceName, OutputName

LEMMA Stored ==
    ASSUME NEW name, NEW c, Store(name, c)
    PROVE  /\ DOMAIN dir' = DOMAIN dir \cup {name} /\ dir'[name] = c
           /\ \A n \in DOMAIN dir : n # name => dir'[n] = dir[n]
BY DEF Store

LEMMA DownloadStep ==
    ASSUME JobOK, UNCHANGED svars, Download
    PROVE  JobOK'
<1>0. DOMAIN job = JobFields /\ job.pc = "download"
    BY DEF JobOK, Plan, Download, In
<1>1. PICK p \in {"probe", "open"} : GoOn(p)
    BY DEF Download
<1>2. /\ DOMAIN job' = JobFields /\ job'.pc = p
      /\ job'.src = job.src /\ job'.preset = job.preset /\ job'.aac = job.aac
      /\ job'.known = job.known
    BY <1>0, <1>1, GoesTo
<1>3. /\ SourceName' = SourceName /\ OutputName' = OutputName /\ (MayEncode' <=> MayEncode)
    BY <1>2, SamePlan
<1>4. DOMAIN dir' = DOMAIN dir \cup {SourceName} /\ dir'[SourceName] = job.src.content
    BY Stored DEF Download
<1>5. Plan'
    BY <1>2, <1>3 DEF JobOK, Plan, svars, Working
<1>6. Files'
    BY <1>2, <1>3, <1>4 DEF JobOK, Files, HasOutput
<1>7. Answered'
    BY <1>2 DEF Answered, HasProbed, HasHash
<1> QED BY <1>5, <1>6, <1>7 DEF JobOK

LEMMA ProbeStep ==
    ASSUME JobOK, UNCHANGED svars, ProbeSource
    PROVE  JobOK'
<1>0. DOMAIN job = JobFields /\ job.pc = "probe"
    BY DEF JobOK, Plan, ProbeSource, In
<1>1. PICK exif \in BOOLEAN : \E seen \in Probed(dir[SourceName], exif) :
          job' = [job EXCEPT !.pc = "encode", !.known = exif, !.seen = seen]
    BY DEF ProbeSource, Answers
<1>2. /\ DOMAIN job' = JobFields /\ job'.pc = "encode"
      /\ job'.src = job.src /\ job'.preset = job.preset /\ job'.aac = job.aac
      /\ job'.known = exif /\ job'.seen \in Probed(dir[SourceName], exif) /\ dir' = dir
    BY <1>0, <1>1 DEF JobFields, ProbeSource
<1>3. /\ SourceName' = SourceName /\ OutputName' = OutputName /\ (MayEncode' <=> MayEncode)
    BY <1>2, SamePlan
<1>4. SourceName \in DOMAIN dir /\ dir[SourceName] = job.src.content
    BY <1>0 DEF JobOK, Files, HasSource, Working
<1>5. Plan'
    BY <1>2, <1>3 DEF JobOK, Plan, svars, Working
<1>6. Files'
    BY <1>2, <1>3, <1>4 DEF JobOK, Files, HasOutput
<1>7. Answered'
    BY <1>2, <1>4 DEF Answered, HasHash, Probed
<1> QED BY <1>5, <1>6, <1>7 DEF JobOK

\* One content over another.
LEMMA OverlaidFields ==
    ASSUME NEW c, NEW some, DOMAIN c = Fields, NEW k \in Fields
    PROVE  /\ DOMAIN Overlaid(c, some) = Fields
           /\ Overlaid(c, some)[k] = IF k \in DOMAIN some THEN some[k] ELSE c[k]
BY DEF Overlaid

\* What can be said of what a run leaves: the heart of RightWayUp and of the
\* half of AcceptedIsFaithful that is about the audio.
LEMMA OutputsAreMade ==
    ASSUME JobOK, job.pc \in {"encode", "retry"},
           NEW r \in Turned(dir[SourceName]), NEW a \in Alterations
    PROVE  Made(Output(r, a))
<1>1. PICK s : s = job.src.content
    OBVIOUS
<1>2. dir[SourceName] = s
    BY <1>1 DEF JobOK, Files, HasSource, Working
<1>3. /\ DOMAIN s = Fields /\ s.whole /\ s.baked = 0 /\ s.turn \in 0 .. 3 /\ s.size \in Nat \X Nat
    BY <1>1, EncoderAssumption DEF JobOK, Plan, EncoderAssumption
<1>4. PICK audio : audio = IF CopiesAudio THEN s.codec ELSE "aac"
    OBVIOUS
<1>5. PICK c : c = Output(r, a)
    OBVIOUS
<1>6. /\ DOMAIN r = {"baked", "turn"} /\ r.baked \in {0, s.turn} /\ r.turn \in {0, s.turn}
      /\ job.preset.auto_orient => r.baked = s.turn
    BY <1>2 DEF Turned
<1>7. PICK b : b = [s EXCEPT !.codec = audio, !.size = Swapped(s.size, r.baked)]
    OBVIOUS
<1>8. /\ DOMAIN b = Fields /\ b.whole = s.whole /\ b.codec = audio
      /\ b.size = Swapped(s.size, r.baked)
    BY <1>3, <1>7 DEF Fields
<1>9. PICK d : d = Overlaid(b, r)
    OBVIOUS
<1>10. {"baked", "turn", "codec", "size", "whole"} \subseteq Fields
    BY DEF Fields
<1>11. /\ DOMAIN d = Fields /\ d.baked = r.baked /\ d.turn = r.turn
       /\ d.codec = audio /\ d.size = Swapped(s.size, r.baked) /\ d.whole = s.whole
    BY <1>6, <1>8, <1>9, <1>10, OverlaidFields
<1>12. /\ DOMAIN a \subseteq Fields \ {"baked", "turn", "codec", "whole"}
       /\ "size" \in DOMAIN a =>
              a.size \in Nat \X Nat /\ a.size \notin {s.size, Transposed(s.size)}
  <2>1. job.src \in Sources
      BY DEF JobOK, Plan
  <2>2. "size" \in DOMAIN a =>
            /\ a.size \in Nat \X Nat
            /\ a.size \notin {job.src.content.size,
                              <<job.src.content.size[2], job.src.content.size[1]>>}
      BY <2>1, EncoderAssumption DEF EncoderAssumption
  <2> QED BY <1>1, <2>2, EncoderAssumption DEF EncoderAssumption, Transposed
<1>13. c = Overlaid(d, a)
    BY <1>1, <1>2, <1>4, <1>5, <1>7, <1>9 DEF Output
<1>14. /\ DOMAIN c = Fields /\ c.baked = r.baked /\ c.turn = r.turn
       /\ c.codec = audio /\ c.whole = s.whole
       /\ c.size = Swapped(s.size, r.baked) \/ ("size" \in DOMAIN a /\ c.size = a.size)
    BY <1>10, <1>11, <1>12, <1>13, OverlaidFields
<1>15. audio # s.codec => ~job.preset.copies_audio \/ MayEncode
    BY <1>4 DEF CopiesAudio, JobOK, Plan
<1>16. c.size = Swapped(s.size, c.baked)
       \/ (c.size \in Nat \X Nat /\ c.size \notin {s.size, Transposed(s.size)})
    BY <1>12, <1>14
<1> QED BY <1>1, <1>3, <1>5, <1>6, <1>14, <1>15, <1>16 DEF Made

LEMMA RunStep ==
    ASSUME JobOK, UNCHANGED svars, RunEncoder
    PROVE  JobOK'
<1>0. DOMAIN job = JobFields /\ job.pc \in {"encode", "retry"} /\ GoOn("written")
    BY DEF JobOK, Plan, RunEncoder, In
<1>1. /\ DOMAIN job' = JobFields /\ job'.pc = "written"
      /\ job'.src = job.src /\ job'.preset = job.preset /\ job'.aac = job.aac
      /\ job'.known = job.known /\ job'.seen = job.seen
    BY <1>0, GoesTo
<1>2. /\ SourceName' = SourceName /\ OutputName' = OutputName /\ (MayEncode' <=> MayEncode)
      /\ \A c : Made(c)' <=> Made(c)
    BY <1>1, SamePlan
<1>3. /\ SourceName \in DOMAIN dir /\ dir[SourceName] = job.src.content
      /\ DOMAIN dir \subseteq {SourceName, OutputName}
    BY <1>0 DEF JobOK, Files, HasSource, Working
<1>4. /\ SourceName \in DOMAIN dir' /\ dir'[SourceName] = dir[SourceName]
      /\ DOMAIN dir' \subseteq {SourceName, OutputName}
      /\ OutputName \in DOMAIN dir' => Made(dir'[OutputName])
  <2>1. CASE dir' = Removed(OutputName)
      BY <1>3, <2>1, TwoNames DEF Removed
  <2>2. CASE \E r \in Turned(dir[SourceName]), a \in Alterations :
                 Store(OutputName, Output(r, a))
    <3>1. PICK c : Made(c) /\ Store(OutputName, c)
        BY <1>0, <2>2, OutputsAreMade
    <3> QED BY <1>3, <3>1, Stored, TwoNames
  <2> QED BY <2>1, <2>2 DEF RunEncoder
<1>5. Plan'
    BY <1>1, <1>2 DEF JobOK, Plan, svars, Working
<1>6. Files'
    BY <1>1, <1>2, <1>3, <1>4 DEF Files, HasOutput
<1>7. Answered'
    BY <1>0, <1>1 DEF JobOK, Answered, HasProbed, HasHash
<1> QED BY <1>5, <1>6, <1>7 DEF JobOK

LEMMA RefusalStep ==
    ASSUME JobOK, UNCHANGED svars, EncoderRefuses
    PROVE  JobOK'
<1>0. /\ DOMAIN job = JobFields /\ job.pc = "encode"
      /\ job.src.content.codec = "unmuxable"
    BY DEF JobOK, Plan, EncoderRefuses, In, Refused
<1>1. PICK e : e = Effective("transcode_unsupported_audio")
    OBVIOUS
<1>2. PICK p \in {"retry", "failed"} :
          /\ p = IF e THEN "retry" ELSE "failed"
          /\ job' = [job EXCEPT !.aac = e, !.pc = p]
    BY <1>1 DEF EncoderRefuses
<1>3. /\ DOMAIN job' = JobFields /\ job'.pc = p /\ job'.aac = e
      /\ job'.src = job.src /\ job'.preset = job.preset
      /\ job'.known = job.known /\ job'.seen = job.seen
    BY <1>0, <1>2 DEF JobFields
<1>4. /\ SourceName' = SourceName /\ OutputName' = OutputName /\ (MayEncode' <=> MayEncode)
    BY <1>3, SamePlan
<1>5. job'.aac => MayEncode
    BY <1>0, <1>1, <1>3 DEF MayEncode
<1>6. DOMAIN dir' = DOMAIN dir \cup {OutputName} /\ dir'[SourceName] = dir[SourceName]
    <2>1. SourceName \in DOMAIN dir
        BY <1>0 DEF JobOK, Files, HasSource, Working
    <2> QED BY <2>1, Stored, TwoNames DEF EncoderRefuses
<1>7. Plan'
    BY <1>3, <1>4, <1>5 DEF JobOK, Plan, svars, Working, Ends
<1>8. Files'
    BY <1>0, <1>3, <1>4, <1>6 DEF JobOK, Files, HasOutput, HasSource, Working
<1>9. Answered'
    BY <1>0, <1>3 DEF JobOK, Answered, HasProbed, HasHash
<1> QED BY <1>7, <1>8, <1>9 DEF JobOK

LEMMA CopyStep ==
    ASSUME JobOK, PresetsOK, UNCHANGED svars, CopyMetadata
    PROVE  JobOK'
<1>0. DOMAIN job = JobFields /\ job.pc = "written" /\ GoOn("inspect")
    BY DEF JobOK, Plan, CopyMetadata, In
<1>1. /\ DOMAIN job' = JobFields /\ job'.pc = "inspect"
      /\ job'.src = job.src /\ job'.preset = job.preset /\ job'.aac = job.aac
      /\ job'.known = job.known /\ job'.seen = job.seen
    BY <1>0, GoesTo
<1>2. /\ SourceName' = SourceName /\ OutputName' = OutputName /\ (MayEncode' <=> MayEncode)
      /\ \A c : Made(c)' <=> Made(c)
    BY <1>1, SamePlan
<1>3. /\ SourceName \in DOMAIN dir /\ dir[SourceName] = job.src.content
      /\ DOMAIN dir \subseteq {SourceName, OutputName}
      /\ OutputName \in DOMAIN dir /\ Made(dir[OutputName])
    BY <1>0 DEF JobOK, Files, HasSource, Working, CopyMetadata
<1>4. /\ SourceName \in DOMAIN dir' /\ dir'[SourceName] = dir[SourceName]
      /\ DOMAIN dir' \subseteq {SourceName, OutputName}
      /\ OutputName \in DOMAIN dir' /\ Made(dir'[OutputName])
      /\ job.preset.normalize_orientation /\ job.preset.exiftool_copy => dir'[OutputName].turn = 0
  <2>1. CASE ~job.preset.exiftool_copy
      BY <1>3, <2>1 DEF CopyMetadata
  <2>2. CASE job.preset.exiftool_copy
    <3>1. PICK t, turn :
              /\ turn = IF job.preset.normalize_orientation THEN 0 ELSE job.src.content.turn
              /\ Store(OutputName, [dir[OutputName] EXCEPT !.tags = t, !.turn = turn])
        BY <1>3, <2>2 DEF CopyMetadata
    <3>2. PICK c : c = [dir[OutputName] EXCEPT !.tags = t, !.turn = turn]
        OBVIOUS
    <3>3. DOMAIN dir[OutputName] = Fields
        BY <1>3 DEF Made
    <3>4. /\ DOMAIN c = Fields /\ c.turn = turn /\ c.baked = dir[OutputName].baked
          /\ c.whole = dir[OutputName].whole /\ c.codec = dir[OutputName].codec
          /\ c.size = dir[OutputName].size
        BY <3>2, <3>3 DEF Fields
    <3>5. Made(c)
        BY <1>3, <3>1, <3>4 DEF Made
    <3>6. Store(OutputName, c)
        BY <3>1, <3>2
    <3> QED BY <1>3, <3>1, <3>4, <3>5, <3>6, Stored, TwoNames
  <2> QED BY <2>1, <2>2
<1>5. Plan'
    BY <1>1, <1>2 DEF JobOK, Plan, svars, Working
<1>6. Files'
  <2>1. job.preset.normalize_orientation => job.preset.exiftool_copy
      BY DEF JobOK, Plan, PresetsOK
  <2> QED BY <1>1, <1>2, <1>3, <1>4, <2>1 DEF Files
<1>7. Answered'
    BY <1>0, <1>1 DEF JobOK, Answered, HasProbed, HasHash
<1> QED BY <1>5, <1>6, <1>7 DEF JobOK

LEMMA InspectStep ==
    ASSUME JobOK, UNCHANGED svars, Inspect
    PROVE  JobOK'
<1>0. DOMAIN job = JobFields /\ job.pc = "inspect" /\ job.known \in BOOLEAN
    BY DEF JobOK, Plan, Inspect, In
<1>1. PICK p \in {"verify", "sanity"}, exif \in BOOLEAN, known \in BOOLEAN :
          /\ p = "sanity" => ~job.preset.exiftool_copy
          /\ known <=> job.known /\ exif
          /\ \E seen \in Probed(dir[OutputName], exif) :
                job' = [job EXCEPT !.pc = p, !.known = known, !.out = seen, !.hash = dir[OutputName]]
  <2>1. PICK exif \in BOOLEAN : \E seen \in Probed(dir[OutputName], exif) :
            job' = [job EXCEPT !.pc = IF job.preset.exiftool_copy THEN "verify" ELSE "sanity",
                               !.known = @ /\ exif,
                               !.out   = seen,
                               !.hash  = dir[OutputName]]
      BY DEF Inspect, Answers
  <2>2. PICK known \in BOOLEAN : known = (job.known /\ exif)
      OBVIOUS
  <2>3. PICK p \in {"verify", "sanity"} : p = IF job.preset.exiftool_copy THEN "verify" ELSE "sanity"
      OBVIOUS
  <2>4. \E seen \in Probed(dir[OutputName], exif) :
            job' = [job EXCEPT !.pc = p, !.known = known, !.out = seen, !.hash = dir[OutputName]]
      BY <2>1, <2>2, <2>3
  <2> QED BY <2>2, <2>3, <2>4
<1>2. /\ DOMAIN job' = JobFields /\ job'.pc = p
      /\ job'.src = job.src /\ job'.preset = job.preset /\ job'.aac = job.aac
      /\ job'.known = known /\ job'.seen = job.seen
      /\ job'.out \in Probed(dir[OutputName], exif) /\ job'.hash = dir[OutputName]
      /\ dir' = dir
    BY <1>0, <1>1 DEF JobFields, Inspect
<1>3. /\ SourceName' = SourceName /\ OutputName' = OutputName /\ (MayEncode' <=> MayEncode)
      /\ \A c : Made(c)' <=> Made(c)
    BY <1>2, SamePlan
<1>4. Plan'
    BY <1>2, <1>3 DEF JobOK, Plan, svars, Working
<1>5. Files'
    BY <1>0, <1>2, <1>3 DEF JobOK, Files, HasSource, HasOutput, Working
<1>6. job'.known => job.known /\ job'.out = dir[OutputName]
    BY <1>1, <1>2 DEF Probed
<1>7. Answered'
    BY <1>0, <1>1, <1>2, <1>3, <1>6 DEF JobOK, Answered, HasProbed
<1> QED BY <1>4, <1>5, <1>7 DEF JobOK

\* Before a job begins no step of it is possible, and once the process is up
\* detection is over.
LEMMA JobPreserves ==
    ASSUME PresetsOK, JobInv, [Next]_<<svars, jvars>>
    PROVE  JobInv'
<1>1. CASE JobStep /\ UNCHANGED svars
  <2>1. CASE job = Idle /\ dir = <<>>
    <3>1. job.pc = "idle"
        BY <2>1 DEF Idle
    <3>2. Begin
        BY <1>1, <3>1 DEF JobStep, Fail, Working, Download, OpenStill, WalkStill, AskWalk, AskTags,
           AskQuality, ProbeSource, RunEncoder, EncoderRefuses, CopyMetadata, Inspect,
           VerifyMetadata, CheckSanity, In
    <3> QED BY <1>1, <2>1, <3>2, BeginStep DEF JobInv
  <2>2. CASE JobOK
    <3>1. ~Begin
        BY <2>2 DEF JobOK, Plan, Begin, In, Working, Ends
    <3> QED BY <1>1, <2>2, <3>1, DecisionStep, DownloadStep, ProbeStep, RunStep, RefusalStep,
               CopyStep, InspectStep DEF JobStep, JobInv
  <2> QED BY <2>1, <2>2 DEF JobInv
<1>2. CASE Startup /\ UNCHANGED jvars
  <2>1. boot.pc # "up"
      BY <1>2 DEF Startup, Refuse, UsePresets, Detect, AskFfmpeg, AskVainfo, Hang, Rank,
         TestEncode, FallBack, Build
  <2>2. job = Idle /\ dir = <<>>
      BY <2>1 DEF JobInv, JobOK, Plan
  <2> QED BY <1>2, <2>2 DEF JobInv, jvars
<1>3. CASE UNCHANGED <<svars, jvars>>
  <2>1. CASE job = Idle /\ dir = <<>>
      BY <1>3, <2>1 DEF JobInv, jvars
  <2>2. CASE JobOK
    <3>1. UNCHANGED <<given, boot, job, dir>>
        BY <1>3 DEF svars, jvars
    <3>2. Plan' /\ Files'
        BY <2>2, <3>1 DEF JobOK, Plan, Files, Made, MayEncode, Effective, Setting, SourceName,
           OutputName
    <3>3. /\ SourceName' = SourceName /\ OutputName' = OutputName
          /\ \A k : Setting(k)' = Setting(k) /\ Effective(k)' = Effective(k)
        BY <3>1, SamePlan DEF svars
    <3>4. TagsLost' = TagsLost /\ (Sane' <=> Sane)
        BY <3>1, <3>3 DEF TagsLost, Sane, Saves, SameLength, DisplaySize
    <3>5. Answered'
        BY <2>2, <3>1, <3>3, <3>4 DEF JobOK, Answered
    <3> QED BY <3>2, <3>5 DEF JobInv, JobOK
  <2> QED BY <2>1, <2>2 DEF JobInv
<1> QED BY <1>1, <1>2, <1>3 DEF Next

-----------------------------------------------------------------------------
(* The process.                                                            *)

BootFields == {"pc", "encoders", "va", "candidates", "presets", "concurrency", "passed", "failed"}

Devices == {None} \cup {n.path : n \in Elements(Nodes)}

Candidate == [encoder : {"nvenc", "qsv", "vaapi", "x265"}, device : Devices,
              status : {"selected", "rejected", "not_tried"}]

Mine(c) == <<c.encoder, c.device>>

\* No candidate comes before one that the catalog, or the list of the devices,
\* puts before it.
Sorted(q) == \A i, j \in DOMAIN q : i < j => ~Before(Mine(q[j]), Mine(q[i]))

(***************************************************************************)
(* The list while it is worked through: what is still a candidate on it is *)
(* wanted, everything wanted is on it, and is rejected only after a try.   *)
(***************************************************************************)
Ranking ==
    /\ boot.candidates \in Seq(Candidate)
    /\ Sorted(boot.candidates)
    /\ \A i \in DOMAIN boot.candidates :
          LET c == boot.candidates[i]
          IN Hardware(c.encoder) /\ c.status # "rejected" => Mine(c) \in Wanted
    /\ \A w \in Wanted : \E i \in DOMAIN boot.candidates :
          /\ Mine(boot.candidates[i]) = w
          /\ boot.candidates[i].status = "rejected" => w \in boot.failed
    /\ \A i \in Selected :
          /\ \A j \in 1 .. i - 1 : boot.candidates[j].status = "rejected"
          /\ Hardware(boot.candidates[i].encoder) => Mine(boot.candidates[i]) \in boot.passed
    /\ boot.passed \cup boot.failed \subseteq Wanted

Unranked == boot.candidates = <<>> /\ boot.passed = {} /\ boot.failed = {}

\* What a video preset may have been built from.
Chosen(c) ==
    \/ \E i \in Selected : Mine(boot.candidates[i]) = c
    \/ Selected = {} /\ Untried = {} /\ c[1] = "x265"

EnabledOnly(types) == Elements(Setting("enabled_types")) \subseteq types

\* A node that vainfo has found able to encode could be opened.
AskedOK ==
    \A i \in DOMAIN Nodes :
        Nodes[i].path \in DOMAIN boot.va /\ boot.va[Nodes[i].path] = "hevc" => Nodes[i].readable

\* Where a process is, and what led it there.
BootOK ==
    /\ given \in Given
    /\ DOMAIN boot = BootFields
    /\ \/ boot.pc = "load" /\ boot = Booting
       \/ boot.pc = "refused" /\ ~Acceptable /\ Unranked /\ boot.presets = <<>>
       \/ /\ boot.pc = "refused" /\ Setting("presets") = <<>> /\ ~EnabledOnly({"VIDEO", "IMAGE"})
          /\ Ranking /\ boot.presets = <<>>
       \/ boot.pc = "crashed" /\ Unranked /\ boot.presets = <<>>
       \/ /\ boot.pc \in {"ffmpeg", "nodes"} /\ Acceptable /\ Setting("presets") = <<>>
          /\ Unranked /\ boot.presets = <<>> /\ AskedOK
       \/ /\ boot.pc = "confirm" /\ Acceptable /\ Setting("presets") = <<>>
          /\ Ranking /\ boot.presets = <<>>
       \/ /\ boot.pc = "up" /\ Acceptable /\ Setting("presets") # <<>>
          /\ Unranked /\ boot.presets = Setting("presets")
          /\ boot.concurrency = Setting("concurrency")
       \/ /\ boot.pc = "up" /\ Acceptable /\ Setting("presets") = <<>>
          /\ Ranking /\ PresetsOK
          /\ \A i \in DOMAIN boot.presets :
                boot.presets[i].type = "VIDEO" =>
                    Chosen(<<boot.presets[i].encoder, boot.presets[i].device>>)
          /\ EnabledOnly({"VIDEO", "IMAGE"})
          /\ \A t \in Elements(Setting("enabled_types")) : Covers(boot.presets, t)
          /\ Written("concurrency") => boot.concurrency = Setting("concurrency")
          /\ boot.concurrency \in 1 .. 4

\* The devices of a machine.
LEMMA NodesFacts ==
    ASSUME given \in Given
    PROVE  /\ Nodes \in Seq(Elements(Nodes)) /\ DOMAIN Nodes = 1 .. Len(Nodes) /\ Len(Nodes) \in Nat
           /\ \A i \in DOMAIN Nodes : Nodes[i] \in Elements(Nodes) /\ Nodes[i].path # None
           /\ \A n \in Elements(Nodes) :
                 n.path # None /\ n.path \in Devices /\ \E i \in DOMAIN Nodes : Nodes[i] = n
           /\ \A i, j \in DOMAIN Nodes : Nodes[i].path = Nodes[j].path => i = j
<1>1. /\ Nodes \in Seq(Elements(Nodes))
      /\ \A i \in DOMAIN Nodes : Nodes[i].path # None
      /\ \A i, j \in DOMAIN Nodes : Nodes[i].path = Nodes[j].path => i = j
    BY GivenAssumption DEF GivenAssumption, Nodes
<1>2. DOMAIN Nodes = 1 .. Len(Nodes) /\ Len(Nodes) \in Nat
    BY <1>1
<1> QED BY <1>1, <1>2 DEF Elements, Devices

\* Where the catalog and the machine put an encoder on a device.
LEMMA PlaceFacts ==
    ASSUME given \in Given, NEW d
    PROVE  /\ Place(<<"nvenc", d>>)[1] = 1 /\ Place(<<"qsv", d>>)[1] = 2
           /\ Place(<<"vaapi", d>>)[1] = 3 /\ Place(<<"x265", d>>)[1] = 4
           /\ \A e : d = None => Place(<<e, d>>)[2] = 0
           /\ \A e : \A i \in DOMAIN Nodes : d = Nodes[i].path => Place(<<e, d>>)[2] = i
<1>1. \A e : /\ Place(<<e, d>>)[1] = CHOOSE i \in 1 .. 4 : VideoEncoders[i] = e
             /\ Place(<<e, d>>)[2] = IF d = None THEN 0
                                     ELSE CHOOSE i \in DOMAIN Nodes : Nodes[i].path = d
    BY DEF Place
<1>2. \A i \in 1 .. 4 : i = 1 \/ i = 2 \/ i = 3 \/ i = 4
    OBVIOUS
<1>3. /\ VideoEncoders[1] = "nvenc" /\ VideoEncoders[2] = "qsv"
      /\ VideoEncoders[3] = "vaapi" /\ VideoEncoders[4] = "x265"
    BY DEF VideoEncoders
<1>4. /\ (CHOOSE i \in 1 .. 4 : VideoEncoders[i] = "nvenc") = 1
      /\ (CHOOSE i \in 1 .. 4 : VideoEncoders[i] = "qsv") = 2
      /\ (CHOOSE i \in 1 .. 4 : VideoEncoders[i] = "vaapi") = 3
      /\ (CHOOSE i \in 1 .. 4 : VideoEncoders[i] = "x265") = 4
    BY <1>2, <1>3
<1>5. ASSUME NEW i \in DOMAIN Nodes, d = Nodes[i].path
      PROVE  d # None /\ (CHOOSE j \in DOMAIN Nodes : Nodes[j].path = d) = i
    BY <1>5, NodesFacts
<1> QED BY <1>1, <1>4, <1>5

\* What is wanted of a machine, one encoder at a time.
LEMMA WantedAre ==
    ASSUME NEW w \in Wanted
    PROVE  /\ w[1] \in boot.encoders /\ Mode \in {"auto", w[1]}
           /\ w[2] # None => Pin \in {"auto", w[2]}
           /\ \/ w = <<"nvenc", None>> /\ given.machine.nvidia
              \/ \E n \in Elements(Nodes) : w = <<"qsv", n.path>> /\ n.vendor = "intel" /\ n.readable
              \/ \E n \in Elements(Nodes) :
                    /\ w = <<"vaapi", n.path>> /\ n.vendor \in {"intel", "amd"}
                    /\ boot.va[n.path] = "hevc"
BY DEF Wanted, Possible

\* The catalog.
LEMMA CatalogFacts ==
    /\ Hardware("nvenc") /\ Hardware("qsv") /\ Hardware("vaapi") /\ ~Hardware("x265")
    /\ Vendors["qsv"] = {"intel"} /\ Vendors["vaapi"] = {"intel", "amd"}
    /\ "nvenc" \notin OnRenderNode /\ "x265" \notin OnRenderNode
    /\ "qsv" \in OnRenderNode /\ "vaapi" \in OnRenderNode
BY DEF Hardware, Vendors, OnRenderNode

Encoders == {"nvenc", "qsv", "vaapi", "x265"}

\* A part of the ranking, for the encoders of E.
Lists(q, E) ==
    /\ q \in Seq(Candidate)
    /\ \A i \in DOMAIN q :
          /\ q[i].encoder \in E /\ q[i].status \in {"rejected", "not_tried"}
          /\ Hardware(q[i].encoder) /\ q[i].status = "not_tried" => Mine(q[i]) \in Wanted
    /\ \A w \in Wanted : w[1] \in E =>
          \E i \in DOMAIN q : Mine(q[i]) = w /\ q[i].status = "not_tried"
    /\ Sorted(q)

\* An encoder without a device of its own.
LEMMA SingleCandidate ==
    ASSUME NEW e \in Encoders, NEW status \in {"rejected", "not_tried"},
           Hardware(e) /\ status = "not_tried" => <<e, None>> \in Wanted,
           \A w \in Wanted : w[1] = e => w = <<e, None>> /\ status = "not_tried"
    PROVE  Lists(<<Cand(e, None, status)>>, {e})
<1>1. PICK c : c = Cand(e, None, status)
    OBVIOUS
<1>2. /\ c \in Candidate /\ c.encoder = e /\ c.status = status /\ Mine(c) = <<e, None>>
    BY <1>1 DEF Cand, Candidate, Devices, Mine, Encoders
<1>3. PICK q : q = <<c>>
    OBVIOUS
<1>4. q \in Seq(Candidate) /\ DOMAIN q = {1} /\ q[1] = c
    BY <1>2, <1>3
<1>5. Sorted(q)
    BY <1>4 DEF Sorted
<1> QED BY <1>1, <1>2, <1>3, <1>4, <1>5 DEF Lists

\* What is wanted is not rejected beforehand.
LEMMA WantedIsNoRejection ==
    ASSUME given \in Given, NEW w \in Wanted
    PROVE  ~StaticRejection(w[1])
<1>1. w[1] \in boot.encoders /\ ~RejectedByMode(w[1])
    BY WantedAre DEF RejectedByMode
<1>2. CASE w = <<"nvenc", None>> /\ given.machine.nvidia
    BY <1>1, <1>2, CatalogFacts DEF StaticRejection
<1>3. ASSUME NEW n \in Elements(Nodes), NEW e \in OnRenderNode, w = <<e, n.path>>,
             n.vendor \in Vendors[e]
      PROVE  ~StaticRejection(e)
  <2>1. Pinned(n)
    <3>1. w[2] = n.path /\ n.path # None
        BY <1>3, NodesFacts
    <3> QED BY <3>1, WantedAre DEF Pinned
  <2>2. e # "nvenc" /\ w[1] = e
      BY <1>3, CatalogFacts
  <2> QED BY <1>1, <1>3, <2>1, <2>2 DEF StaticRejection
<1> QED BY <1>2, <1>3, WantedAre, CatalogFacts

\* The candidates on the render nodes: those that fit, in their order.
LEMMA RenderCandidates ==
    ASSUME given \in Given, AskedOK, Unasked = {}, NEW e \in {"qsv", "vaapi"},
           ~StaticRejection(e)
    PROVE  Lists(Candidates(e), {e})
<1>1. PICK T : T = {n \in Elements(Nodes) : n.vendor \in Vendors[e] /\ Pinned(n)}
    OBVIOUS
<1>2. PICK fits : fits = Only(Nodes, T)
    OBVIOUS
<1>3. /\ fits \in Seq(Elements(Nodes)) /\ Len(fits) \in Nat /\ DOMAIN fits = 1 .. Len(fits)
      /\ Len(Nodes) \in Nat /\ DOMAIN Nodes = 1 .. Len(Nodes)
    BY <1>2, NodesFacts, OnlyType
<1>4. PICK p : Picks(Nodes, T, Len(Nodes), fits, p)
    BY <1>2, NodesFacts, OnlyPicks
<1>5. \A i \in DOMAIN fits : p[i] \in DOMAIN Nodes /\ fits[i] = Nodes[p[i]] /\ fits[i] \in T
    BY <1>3, <1>4 DEF Picks
<1>6. PICK q : q = [i \in DOMAIN fits |->
                      Cand(e, fits[i].path, IF DeviceRejection(e, fits[i]) THEN "rejected"
                                            ELSE "not_tried")]
    OBVIOUS
<1>7. Candidates(e) = q
    BY <1>1, <1>2, <1>6, CatalogFacts DEF Candidates
<1>8. /\ DOMAIN q = 1 .. Len(fits)
      /\ \A i \in DOMAIN q :
            /\ q[i] \in Candidate /\ q[i].encoder = e /\ Mine(q[i]) = <<e, fits[i].path>>
            /\ q[i].status = IF DeviceRejection(e, fits[i]) THEN "rejected" ELSE "not_tried"
  <2>1. \A i \in DOMAIN fits : fits[i].path \in Devices
      BY <1>5, NodesFacts
  <2> QED BY <1>3, <1>6, <2>1 DEF Cand, Candidate, Mine
<1>9. q \in Seq(Candidate)
  <2>1. q \in [1 .. Len(fits) -> Candidate]
      BY <1>6, <1>8, <1>3
  <2> QED BY <1>3, <2>1
<1>10. ASSUME NEW i \in DOMAIN q, q[i].status = "not_tried" PROVE Mine(q[i]) \in Wanted
  <2>1. fits[i] \in Elements(Nodes) /\ fits[i].vendor \in Vendors[e] /\ Pinned(fits[i])
      BY <1>1, <1>3, <1>5, <1>8
  <2>2. fits[i].readable /\ (e = "vaapi" => boot.va[fits[i].path] = "hevc")
      BY <1>8, <1>10 DEF DeviceRejection
  <2>3. e \in boot.encoders /\ Mode \in {"auto", e}
      BY CatalogFacts DEF StaticRejection, RejectedByMode
  <2>4. PICK w : w = <<e, fits[i].path>>
      OBVIOUS
  <2>5. w \in Possible
      BY <2>1, <2>2, <2>4, CatalogFacts DEF Possible
  <2> QED BY <1>8, <2>1, <2>3, <2>4, <2>5 DEF Wanted, Pinned
<1>11. ASSUME NEW w \in Wanted, w[1] = e
       PROVE  \E i \in DOMAIN q : Mine(q[i]) = w /\ q[i].status = "not_tried"
  <2>1. PICK n \in Elements(Nodes) :
            /\ w = <<e, n.path>> /\ n.vendor \in Vendors[e]
            /\ IF e = "qsv" THEN n.readable ELSE boot.va[n.path] = "hevc"
      BY <1>11, WantedAre, CatalogFacts
  <2>2. PICK j \in DOMAIN Nodes : Nodes[j] = n /\ n.path # None
      BY NodesFacts
  <2>3. Pinned(n)
      BY <2>1, <2>2, WantedAre DEF Pinned
  <2>4. PICK i \in DOMAIN fits : fits[i] = n
      BY <1>1, <1>3, <1>4, <2>1, <2>2, <2>3 DEF Picks
  <2>5. n.readable
      BY <2>1, <2>2 DEF AskedOK, Unasked
  <2>6. ~DeviceRejection(e, n)
      BY <2>1, <2>5 DEF DeviceRejection
  <2> QED BY <1>3, <1>8, <2>1, <2>4, <2>6
<1>12. Sorted(q)
  <2> SUFFICES ASSUME NEW i \in DOMAIN q, NEW j \in DOMAIN q, i < j
               PROVE  ~Before(Mine(q[j]), Mine(q[i]))
      BY DEF Sorted
  <2>1. p[i] < p[j] /\ p[i] \in DOMAIN Nodes /\ p[j] \in DOMAIN Nodes
      BY <1>3, <1>4, <1>5, <1>8 DEF Picks
  <2>2. PICK d, c : d = Nodes[p[i]].path /\ c = Nodes[p[j]].path
      OBVIOUS
  <2>3. Mine(q[i]) = <<e, d>> /\ Mine(q[j]) = <<e, c>>
      BY <1>3, <1>5, <1>8, <2>2
  <2>4. PICK a, b : a = Place(<<e, d>>) /\ b = Place(<<e, c>>)
      OBVIOUS
  <2>5. /\ a[2] = p[i] /\ b[2] = p[j]
        /\ a[1] \in Nat /\ b[1] = a[1]
    <3>1. Place(<<e, d>>)[2] = p[i] /\ Place(<<e, c>>)[2] = p[j]
        BY <2>1, <2>2, PlaceFacts
    <3>2. /\ e = "qsv" => Place(<<e, d>>)[1] = 2 /\ Place(<<e, c>>)[1] = 2
          /\ e = "vaapi" => Place(<<e, d>>)[1] = 3 /\ Place(<<e, c>>)[1] = 3
        BY PlaceFacts
    <3> QED BY <2>4, <3>1, <3>2
  <2>6. ~(b[2] < a[2]) /\ ~(b[1] < a[1])
      BY <1>3, <2>1, <2>5
  <2> QED BY <2>3, <2>4, <2>6 DEF Before
<1> QED BY <1>7, <1>8, <1>9, <1>10, <1>11, <1>12 DEF Lists

LEMMA EveryEncoder ==
    ASSUME given \in Given, AskedOK, Unasked = {}, NEW e \in Encoders
    PROVE  Lists(Candidates(e), {e})
<1>1. CASE StaticRejection(e)
  <2>1. \A w \in Wanted : w[1] # e
      BY <1>1, WantedIsNoRejection
  <2> QED BY <1>1, <2>1, SingleCandidate DEF Candidates
<1>2. CASE ~StaticRejection(e) /\ e \in {"qsv", "vaapi"}
    BY <1>2, RenderCandidates
<1>3. CASE ~StaticRejection(e) /\ e = "nvenc"
  <2>1. e \in boot.encoders /\ Mode \in {"auto", e} /\ given.machine.nvidia
      BY <1>3, CatalogFacts DEF StaticRejection, RejectedByMode
  <2>2. <<e, None>> \in Wanted
      BY <1>3, <2>1 DEF Wanted, Possible
  <2>3. \A w \in Wanted : w[1] = e => w = <<e, None>>
      BY <1>3, WantedAre
  <2> QED BY <1>3, <2>2, <2>3, SingleCandidate, CatalogFacts DEF Candidates
<1>4. CASE ~StaticRejection(e) /\ e = "x265"
  <2>1. \A w \in Wanted : w[1] # e
      BY <1>4, WantedAre
  <2> QED BY <1>4, <2>1, SingleCandidate, CatalogFacts DEF Candidates
<1> QED BY <1>1, <1>2, <1>3, <1>4 DEF Encoders

\* One part after another.
LEMMA ConcatLists ==
    ASSUME NEW E, NEW F, NEW q, NEW r, Lists(q, E), Lists(r, F),
           \A e \in E, f \in F : \A c, d : ~Before(<<f, c>>, <<e, d>>)
    PROVE  Lists(q \o r, E \cup F)
<1>1. q \in Seq(Candidate) /\ r \in Seq(Candidate)
    BY DEF Lists
<1>2. PICK m \in Nat, n \in Nat : m = Len(q) /\ n = Len(r)
    BY <1>1
<1>3. DOMAIN q = 1 .. m /\ DOMAIN r = 1 .. n
    BY <1>1, <1>2
<1>4. PICK x : x = q \o r
    OBVIOUS
<1>5. /\ x \in Seq(Candidate) /\ Len(x) = m + n
      /\ \A i \in 1 .. m + n : x[i] = IF i <= m THEN q[i] ELSE r[i - m]
    BY <1>1, <1>2, <1>4, ConcatProperties
<1>6. DOMAIN x = 1 .. m + n
    BY <1>5
<1>7. ASSUME NEW i \in DOMAIN x
      PROVE  \/ i \in DOMAIN q /\ x[i] = q[i]
             \/ i > m /\ i - m \in DOMAIN r /\ x[i] = r[i - m]
  <2>1. i \in Nat /\ i >= 1 /\ i <= m + n
      BY <1>6
  <2>2. CASE i <= m
      BY <1>3, <1>5, <1>6, <2>1, <2>2
  <2>3. CASE ~(i <= m)
    <3>1. x[i] = r[i - m]
        BY <1>5, <1>6, <2>3
    <3>2. i > m /\ i - m \in 1 .. n
        BY <1>2, <2>1, <2>3
    <3> QED BY <1>3, <3>1, <3>2
  <2> QED BY <2>2, <2>3
<1>8. \A i \in DOMAIN x :
          /\ x[i].encoder \in E \cup F /\ x[i].status \in {"rejected", "not_tried"}
          /\ Hardware(x[i].encoder) /\ x[i].status = "not_tried" => Mine(x[i]) \in Wanted
    BY <1>7 DEF Lists
<1>9. ASSUME NEW w \in Wanted, w[1] \in E \cup F
      PROVE  \E i \in DOMAIN x : Mine(x[i]) = w /\ x[i].status = "not_tried"
  <2>1. CASE w[1] \in E
    <3>1. PICK i \in DOMAIN q : Mine(q[i]) = w /\ q[i].status = "not_tried"
        BY <2>1 DEF Lists
    <3>2. i \in DOMAIN x /\ x[i] = q[i]
        BY <1>2, <1>3, <1>5, <1>6, <3>1
    <3> QED BY <3>1, <3>2
  <2>2. CASE w[1] \in F
    <3>1. PICK i \in DOMAIN r : Mine(r[i]) = w /\ r[i].status = "not_tried"
        BY <2>2 DEF Lists
    <3>2. PICK j : j = m + i
        OBVIOUS
    <3>3. j \in 1 .. m + n /\ ~(j <= m) /\ j - m = i
        BY <1>2, <1>3, <3>1, <3>2
    <3>4. j \in DOMAIN x /\ x[j] = r[i]
        BY <1>5, <1>6, <3>3
    <3> QED BY <3>1, <3>4
  <2> QED BY <1>9, <2>1, <2>2
<1>10. Sorted(x)
  <2> SUFFICES ASSUME NEW i \in DOMAIN x, NEW j \in DOMAIN x, i < j
               PROVE  ~Before(Mine(x[j]), Mine(x[i]))
      BY DEF Sorted
  <2>1. i \in Nat /\ j \in Nat
      BY <1>6
  <2>2. CASE i \in DOMAIN q /\ x[i] = q[i] /\ j \in DOMAIN q /\ x[j] = q[j]
      BY <2>2 DEF Lists, Sorted
  <2>3. CASE /\ i > m /\ i - m \in DOMAIN r /\ x[i] = r[i - m]
             /\ j > m /\ j - m \in DOMAIN r /\ x[j] = r[j - m]
    <3>1. i - m < j - m
        BY <1>2, <2>1
    <3> QED BY <2>3, <3>1 DEF Lists, Sorted
  <2>4. CASE i \in DOMAIN q /\ x[i] = q[i] /\ j - m \in DOMAIN r /\ x[j] = r[j - m]
    <3>1. x[i].encoder \in E /\ x[j].encoder \in F
        BY <2>4 DEF Lists
    <3> QED BY <3>1 DEF Mine
  <2>5. CASE i > m /\ j \in DOMAIN q
      BY <1>2, <1>3, <2>1, <2>5
  <2> QED BY <1>7, <2>2, <2>3, <2>4, <2>5
<1> QED BY <1>4, <1>5, <1>8, <1>9, <1>10 DEF Lists

\* The whole ranking.
LEMMA RankedLists ==
    ASSUME given \in Given, AskedOK, Unasked = {}
    PROVE  Lists(Ranked, Encoders)
<1>1. \A c, d : /\ ~Before(<<"qsv", c>>, <<"nvenc", d>>) /\ ~Before(<<"vaapi", c>>, <<"nvenc", d>>)
                /\ ~Before(<<"vaapi", c>>, <<"qsv", d>>) /\ ~Before(<<"x265", c>>, <<"nvenc", d>>)
                /\ ~Before(<<"x265", c>>, <<"qsv", d>>) /\ ~Before(<<"x265", c>>, <<"vaapi", d>>)
  <2> TAKE c, d
  <2>1. /\ Place(<<"qsv", c>>)[1] = 2 /\ Place(<<"vaapi", c>>)[1] = 3 /\ Place(<<"x265", c>>)[1] = 4
        /\ Place(<<"nvenc", d>>)[1] = 1 /\ Place(<<"qsv", d>>)[1] = 2 /\ Place(<<"vaapi", d>>)[1] = 3
      BY PlaceFacts
  <2> QED BY <2>1 DEF Before
<1>2. /\ Lists(Candidates("nvenc"), {"nvenc"}) /\ Lists(Candidates("qsv"), {"qsv"})
      /\ Lists(Candidates("vaapi"), {"vaapi"}) /\ Lists(Candidates("x265"), {"x265"})
    BY EveryEncoder DEF Encoders
<1>3. PICK a : a = Candidates("nvenc") \o Candidates("qsv")
    OBVIOUS
<1>4. Lists(a, {"nvenc"} \cup {"qsv"})
    BY <1>1, <1>2, <1>3, ConcatLists
<1>5. PICK b : b = a \o Candidates("vaapi")
    OBVIOUS
<1>6. Lists(b, ({"nvenc"} \cup {"qsv"}) \cup {"vaapi"})
    BY <1>1, <1>2, <1>4, <1>5, ConcatLists
<1>7. Lists(b \o Candidates("x265"), (({"nvenc"} \cup {"qsv"}) \cup {"vaapi"}) \cup {"x265"})
    BY <1>1, <1>2, <1>6, ConcatLists
<1>8. Ranked = b \o Candidates("x265")
    BY <1>3, <1>5 DEF Ranked, VideoEncoders
<1>9. (({"nvenc"} \cup {"qsv"}) \cup {"vaapi"}) \cup {"x265"} = Encoders
    BY DEF Encoders
<1> QED BY <1>7, <1>8, <1>9

-----------------------------------------------------------------------------
\* The steps of detection.

\* What depends on nothing but what the process was started with.
LEMMA SameGiven ==
    ASSUME UNCHANGED given
    PROVE  /\ \A k : Setting(k)' = Setting(k) /\ (Written(k)' <=> Written(k))
           /\ (Acceptable' <=> Acceptable) /\ Nodes' = Nodes /\ Candidate' = Candidate
           /\ \A types : EnabledOnly(types)' <=> EnabledOnly(types)
           /\ \A q : Sorted(q)' <=> Sorted(q)
<1>1. \A k : Setting(k)' = Setting(k) /\ (Written(k)' <=> Written(k))
    BY DEF Setting, Written
<1>2. (Acceptable' <=> Acceptable) /\ Nodes' = Nodes
    BY <1>1 DEF Acceptable, Permanent, Nodes
<1>3. Candidate' = Candidate
    BY <1>2 DEF Candidate, Devices
<1>4. \A c : Place(c)' = Place(c)
    BY <1>2 DEF Place
<1>5. \A c, d : Before(c, d)' <=> Before(c, d)
    BY <1>4 DEF Before
<1> QED BY <1>1, <1>2, <1>3, <1>5 DEF EnabledOnly, Sorted

LEMMA SameWanted ==
    ASSUME UNCHANGED given, boot'.encoders = boot.encoders, boot'.va = boot.va
    PROVE  Wanted' = Wanted
<1>1. Nodes' = Nodes /\ Mode' = Mode /\ Pin' = Pin
    BY SameGiven DEF Mode, Pin
<1>2. Possible' = Possible
    BY <1>1 DEF Possible
<1> QED BY <1>1, <1>2 DEF Wanted

LEMMA SameRanking ==
    ASSUME UNCHANGED given, boot'.encoders = boot.encoders, boot'.va = boot.va,
           boot'.candidates = boot.candidates, boot'.passed = boot.passed,
           boot'.failed = boot.failed
    PROVE  /\ Ranking' <=> Ranking
           /\ Selected' = Selected /\ Untried' = Untried
           /\ \A c : Chosen(c)' <=> Chosen(c)
<1>1. Wanted' = Wanted /\ Candidate' = Candidate /\ \A q : Sorted(q)' <=> Sorted(q)
    BY SameGiven, SameWanted
<1>2. Selected' = Selected /\ Untried' = Untried
    BY DEF Selected, Untried
<1>3. PICK q : q = boot.candidates
    OBVIOUS
<1>4. (Sorted(q)' <=> Sorted(q)) /\ boot'.candidates = q
    BY <1>1, <1>3
<1>5. Ranking' <=> Ranking
    BY <1>1, <1>2, <1>3, <1>4 DEF Ranking
<1>6. \A c : Chosen(c)' <=> Chosen(c)
    BY <1>2, <1>3, <1>4 DEF Chosen
<1> QED BY <1>2, <1>5, <1>6

\* The list as it is ranked.
LEMMA RankStep ==
    ASSUME given \in Given, AskedOK, Unranked, DOMAIN boot = BootFields, Rank
    PROVE  Ranking' /\ boot'.presets = boot.presets /\ boot'.pc = "confirm"
<1>1. PICK q : q = Ranked
    OBVIOUS
<1>2. /\ boot'.pc = "confirm" /\ boot'.candidates = q /\ boot'.presets = boot.presets
      /\ boot'.encoders = boot.encoders /\ boot'.va = boot.va
      /\ boot'.passed = {} /\ boot'.failed = {} /\ UNCHANGED given /\ Unasked = {}
    BY <1>1 DEF Rank, Unranked, BootFields
<1>3. Lists(q, Encoders)
    BY <1>1, <1>2, RankedLists
<1>4. Wanted' = Wanted /\ Candidate' = Candidate /\ \A x : Sorted(x)' <=> Sorted(x)
    BY <1>2, SameGiven, SameWanted
<1>5. \A w \in Wanted : w[1] \in Encoders
    BY WantedAre DEF Encoders
<1>6. Selected' = {}
    BY <1>2, <1>3 DEF Selected, Lists
<1>7. /\ q \in Seq(Candidate) /\ Sorted(q)
      /\ \A i \in DOMAIN q : Hardware(q[i].encoder) /\ q[i].status # "rejected" => Mine(q[i]) \in Wanted
      /\ \A w \in Wanted : \E i \in DOMAIN q : Mine(q[i]) = w /\ q[i].status # "rejected"
    BY <1>3, <1>5 DEF Lists
<1> QED BY <1>2, <1>4, <1>6, <1>7 DEF Ranking

\* The next candidate is selected or rejected.
LEMMA StatusStep ==
    ASSUME Ranking, Selected = {}, NEW i \in Untried, NextIs(i), UNCHANGED given,
           NEW status \in {"selected", "rejected"},
           boot'.encoders = boot.encoders, boot'.va = boot.va,
           boot'.candidates = [boot.candidates EXCEPT ![i].status = status],
           boot.passed \subseteq boot'.passed, boot.failed \subseteq boot'.failed,
           boot'.passed \cup boot'.failed \subseteq boot.passed \cup boot.failed
                                                    \cup {Mine(boot.candidates[i])},
           boot'.passed \cup boot'.failed # boot.passed \cup boot.failed
               => Hardware(boot.candidates[i].encoder),
           status = "rejected" => Mine(boot.candidates[i]) \in boot'.failed,
           status = "selected" /\ Hardware(boot.candidates[i].encoder)
               => Mine(boot.candidates[i]) \in boot'.passed
    PROVE  Ranking'
<1>1. Wanted' = Wanted /\ Candidate' = Candidate /\ \A q : Sorted(q)' <=> Sorted(q)
    BY SameGiven, SameWanted
<1>2. PICK q : q = boot.candidates
    OBVIOUS
<1>3. PICK n \in Nat : n = Len(q) /\ DOMAIN q = 1 .. n
    BY <1>2 DEF Ranking
<1>4. q \in [1 .. n -> Candidate] /\ i \in 1 .. n /\ q[i].status = "not_tried"
    BY <1>2, <1>3 DEF Ranking, Untried
<1>5. PICK c : c = [q[i] EXCEPT !.status = status]
    OBVIOUS
<1>6. c \in Candidate /\ c.encoder = q[i].encoder /\ c.device = q[i].device /\ c.status = status
  <2>1. q[i] \in Candidate
      BY <1>4
  <2> QED BY <1>5, <2>1 DEF Candidate
<1>7. PICK r : r = [q EXCEPT ![i] = c]
    OBVIOUS
<1>8. boot'.candidates = r
    BY <1>2, <1>5, <1>7
<1>9. r \in [1 .. n -> Candidate] /\ \A j \in 1 .. n : r[j] = IF j = i THEN c ELSE q[j]
    BY <1>4, <1>6, <1>7
<1>10. r \in Seq(Candidate) /\ DOMAIN r = 1 .. n
    BY <1>9
<1>11. \A j \in 1 .. n : /\ Mine(r[j]) = Mine(q[j]) /\ r[j].encoder = q[j].encoder
                         /\ r[j].status = IF j = i THEN status ELSE q[j].status
    BY <1>6, <1>9 DEF Mine
<1>12. Sorted(r)
    BY <1>2, <1>3, <1>10, <1>11 DEF Ranking, Sorted
<1>13. \A j \in 1 .. n : Hardware(r[j].encoder) /\ r[j].status # "rejected" => Mine(r[j]) \in Wanted
    BY <1>2, <1>3, <1>4, <1>11 DEF Ranking
<1>14. ASSUME NEW w \in Wanted
       PROVE  \E j \in 1 .. n : Mine(r[j]) = w /\ (r[j].status = "rejected" => w \in boot'.failed)
  <2>1. PICK j \in 1 .. n : Mine(q[j]) = w /\ (q[j].status = "rejected" => w \in boot.failed)
      BY <1>2, <1>3 DEF Ranking
  <2> QED BY <1>2, <1>11, <2>1
<1>15. ASSUME NEW j \in 1 .. i - 1 PROVE j # i /\ q[j].status = "rejected"
  <2>1. j \in 1 .. n /\ j # i /\ ~(i <= j)
      BY <1>4
  <2>2. q[j].status \in {"selected", "rejected", "not_tried"}
      BY <1>4, <2>1 DEF Candidate
  <2> QED BY <1>2, <1>3, <2>1, <2>2 DEF NextIs, Untried, Selected
<1>16. ASSUME NEW j \in Selected'
       PROVE  /\ \A k \in 1 .. j - 1 : r[k].status = "rejected"
              /\ Hardware(r[j].encoder) => Mine(r[j]) \in boot'.passed
  <2>1. j \in 1 .. n /\ r[j].status = "selected"
      BY <1>8, <1>10, <1>16 DEF Selected
  <2>2. j = i /\ status = "selected"
      BY <1>2, <1>3, <1>11, <2>1 DEF Selected
  <2>3. \A k \in 1 .. i - 1 : k \in 1 .. n /\ k # i
      BY <1>4
  <2> QED BY <1>2, <1>11, <1>15, <2>1, <2>2, <2>3
<1>17. boot'.passed \cup boot'.failed \subseteq Wanted
    BY <1>2, <1>3, <1>4 DEF Ranking
<1> QED BY <1>1, <1>8, <1>10, <1>12, <1>13, <1>14, <1>16, <1>17 DEF Ranking

\* The settings that count something.
LEMMA CountsAreBounded ==
    ASSUME given \in Given
    PROVE  /\ Setting("concurrency") \in 1 .. 4 /\ CpuConcurrency \in 1 .. 4
           /\ Threads \in 1 .. MaxThreads
<1>1. Setting("concurrency") \in 1 .. 4
  <2>1. Defaults["concurrency"] = 1
      BY DEF Defaults
  <2>2. /\ "concurrency" \in DOMAIN given.file => given.file["concurrency"] \in 1 .. 4
        /\ "concurrency" \in DOMAIN given.env => given.env["concurrency"] \in 1 .. 4
      BY GivenAssumption DEF GivenAssumption
  <2> QED BY <2>1, <2>2 DEF Setting
<1>2. ASSUME NEW n \in Nat \ {0} PROVE Cores(n) \in Int
  <2>1. CASE Limited
    <3>1. given.machine.cpu_max \in (Nat \ {0}) \X (Nat \ {0})
        BY <2>1, GivenAssumption DEF Limited
    <3>2. PICK q \in Nat \ {0}, p \in Nat \ {0} :
              given.machine.cpu_max[1] = q /\ given.machine.cpu_max[2] = p
        BY <3>1
    <3>3. PICK m \in Nat \ {0} : m = n * p
      <4>1. n * p \in Nat /\ n * p # 0
          BY SMT
      <4> QED BY <4>1
    <3>4. Cores(n) = q \div m
        BY <2>1, <3>2, <3>3 DEF Cores
    <3> QED BY <3>4
  <2>2. CASE ~Limited
    <3>1. PICK h \in Nat \ {0} : h = given.machine.host_cores
        BY GivenAssumption DEF GivenAssumption
    <3>2. Cores(n) = h \div n
        BY <2>2, <3>1 DEF Cores
    <3> QED BY <3>2
  <2> QED BY <2>1, <2>2
<1>3. ASSUME NEW x \in Int, NEW m \in Nat \ {0} PROVE AtLeastOne(Least(x, m)) \in 1 .. m
    BY DEF AtLeastOne, Least
<1>4. MaxThreads \in Nat \ {0}
    BY GivenAssumption
<1>5. CpuConcurrency \in 1 .. 4
  <2>1. PICK x \in Int : x = Cores(8)
      BY <1>2
  <2>2. CpuConcurrency = AtLeastOne(Least(x, 4))
      BY <2>1 DEF CpuConcurrency
  <2> QED BY <2>2 DEF AtLeastOne, Least
<1>6. Threads \in 1 .. MaxThreads
  <2>1. PICK x \in Int : x = Cores(1)
      BY <1>2
  <2> QED BY <1>3, <1>4, <2>1 DEF Threads
<1> QED BY <1>1, <1>5, <1>6

\* The presets are made for the enabled types, and for nothing but the choice.
LEMMA BuildStep ==
    ASSUME BootOK, Build, UNCHANGED given
    PROVE  BootOK'
<1>0. PICK types : types = Setting("enabled_types")
    OBVIOUS
<1>1. /\ boot.pc = "confirm" /\ Acceptable /\ Setting("presets") = <<>> /\ Ranking
      /\ boot.presets = <<>> /\ given \in Given /\ DOMAIN boot = BootFields
    BY DEF BootOK, Build, Booting
<1>2. PICK chosen : chosen = IF Selected = {} THEN Cand("x265", None, "selected")
                             ELSE boot.candidates[CHOOSE i \in Selected : TRUE]
    OBVIOUS
<1>3. Chosen(Mine(chosen))
  <2>1. CASE Selected = {}
      BY <1>2, <2>1 DEF Chosen, Build, Mine, Cand
  <2>2. CASE Selected # {}
      BY <1>2, <2>2 DEF Chosen
  <2> QED BY <2>1, <2>2
<1>4. PICK presets : presets = [i \in DOMAIN types |-> Built(types[i], chosen)]
    OBVIOUS
<1>5. PICK n \in 1 .. 4 : n = IF Written("concurrency") THEN Setting("concurrency")
                              ELSE IF Hardware(chosen.encoder) THEN 1 ELSE CpuConcurrency
    BY <1>1, CountsAreBounded
<1>6. /\ boot'.encoders = boot.encoders /\ boot'.va = boot.va
      /\ boot'.candidates = boot.candidates
      /\ boot'.passed = boot.passed /\ boot'.failed = boot.failed /\ DOMAIN boot' = BootFields
      /\ IF Elements(types) \subseteq {"VIDEO", "IMAGE"}
         THEN boot'.pc = "up" /\ boot'.presets = presets /\ boot'.concurrency = n
         ELSE boot'.pc = "refused" /\ boot'.presets = boot.presets
  <2>1. CASE Elements(types) \subseteq {"VIDEO", "IMAGE"}
    <3>1. boot' = [boot EXCEPT !.pc = "up", !.presets = presets, !.concurrency = n]
        BY <1>0, <1>2, <1>4, <1>5, <2>1, Zenon DEF Build
    <3> QED BY <1>1, <2>1, <3>1 DEF BootFields
  <2>2. CASE ~(Elements(types) \subseteq {"VIDEO", "IMAGE"})
    <3>1. boot' = [boot EXCEPT !.pc = "refused"]
        BY <1>0, <2>2, Zenon DEF Build
    <3> QED BY <1>1, <2>2, <3>1 DEF BootFields
  <2> QED BY <2>1, <2>2
<1>7. /\ Ranking' /\ \A c : Chosen(c)' <=> Chosen(c)
    BY <1>1, <1>6, SameRanking
<1>8. /\ Acceptable' /\ Setting("presets")' = <<>> /\ Setting("enabled_types")' = types
      /\ Setting("concurrency")' = Setting("concurrency")
      /\ Written("concurrency")' <=> Written("concurrency")
    BY <1>0, <1>1, SameGiven
<1>9. CASE ~(Elements(types) \subseteq {"VIDEO", "IMAGE"})
  <2>1. ~EnabledOnly({"VIDEO", "IMAGE"})'
      BY <1>8, <1>9 DEF EnabledOnly
  <2> QED BY <1>1, <1>6, <1>7, <1>8, <1>9, <2>1 DEF BootOK
<1>10. CASE Elements(types) \subseteq {"VIDEO", "IMAGE"}
  <2>1. ASSUME NEW i \in DOMAIN presets
        PROVE  /\ i \in DOMAIN types /\ types[i] \in {"VIDEO", "IMAGE"}
               /\ presets[i].type = types[i]
               /\ presets[i].normalize_orientation =>
                     presets[i].exiftool_copy /\ presets[i].auto_orient
               /\ presets[i].type = "VIDEO" =>
                     <<presets[i].encoder, presets[i].device>> = Mine(chosen)
    <3>1. i \in DOMAIN types /\ presets[i] = Built(types[i], chosen)
        BY <1>4
    <3>2. types[i] \in {"VIDEO", "IMAGE"}
        BY <1>10, <3>1 DEF Elements
    <3>3. CASE types[i] = "IMAGE"
        BY <3>1, <3>3 DEF Built, ImagePreset
    <3>4. CASE types[i] = "VIDEO"
        BY <3>1, <3>4 DEF Built, VideoPreset, Mine
    <3> QED BY <3>1, <3>2, <3>3, <3>4
  <2>2. ASSUME NEW t \in Elements(types) PROVE \E i \in DOMAIN presets : presets[i].type = t
    <3>1. PICK i \in DOMAIN types : types[i] = t
        BY DEF Elements
    <3> QED BY <1>4, <2>1, <3>1
  <2>3. boot'.presets = presets /\ boot'.pc = "up" /\ boot'.concurrency = n
      BY <1>6, <1>10
  <2>4. PresetsOK'
      BY <2>1, <2>3 DEF PresetsOK
  <2>5. \A i \in DOMAIN presets :
            presets[i].type = "VIDEO" => Chosen(<<presets[i].encoder, presets[i].device>>)'
      BY <1>3, <1>7, <2>1
  <2>6. (\A t \in Elements(Setting("enabled_types")) : Covers(boot.presets, t))'
      BY <1>8, <2>2, <2>3 DEF Covers
  <2>7. Written("concurrency")' => n = Setting("concurrency")'
      BY <1>5, <1>8
  <2>8. EnabledOnly({"VIDEO", "IMAGE"})'
      BY <1>8, <1>10 DEF EnabledOnly
  <2> QED BY <1>1, <1>5, <1>6, <1>7, <1>8, <2>3, <2>4, <2>5, <2>6, <2>7, <2>8 DEF BootOK
<1> QED BY <1>9, <1>10

\* A process that finds its own presets, and what the questions tell it.
LEMMA BootStep ==
    ASSUME BootOK, Startup
    PROVE  BootOK'
<1>0. UNCHANGED given /\ given \in Given /\ DOMAIN boot = BootFields
    BY DEF BootOK, Startup, Refuse, UsePresets, Detect, AskFfmpeg, AskVainfo, Hang, Rank,
       TestEncode, FallBack, Build
<1>1. /\ \A k : Setting(k)' = Setting(k) /\ (Written(k)' <=> Written(k))
      /\ (Acceptable' <=> Acceptable) /\ Nodes' = Nodes
    BY <1>0, SameGiven
<1>2. CASE boot.pc = "load" /\ (Refuse \/ UsePresets \/ Detect)
  <2>1. boot = Booting
      BY <1>2 DEF BootOK
  <2>2. /\ boot.candidates = <<>> /\ boot.passed = {} /\ boot.failed = {} /\ boot.va = <<>>
        /\ boot.presets = <<>>
      BY <2>1 DEF Booting
  <2>3. CASE Refuse
    <3>1. /\ ~Acceptable /\ boot' = [boot EXCEPT !.pc = "refused"]
        BY <2>3 DEF Refuse
    <3>2. /\ boot'.pc = "refused" /\ DOMAIN boot' = BootFields /\ boot'.candidates = <<>>
          /\ boot'.passed = {} /\ boot'.failed = {} /\ boot'.presets = <<>>
        BY <1>0, <2>2, <3>1 DEF BootFields
    <3> QED BY <1>0, <1>1, <3>1, <3>2 DEF BootOK, Unranked
  <2>4. CASE UsePresets
    <3>1. PICK q, n : q = Setting("presets") /\ n = Setting("concurrency")
        OBVIOUS
    <3>2. /\ Acceptable /\ q # <<>>
          /\ boot' = [boot EXCEPT !.pc = "up", !.presets = q, !.concurrency = n]
        BY <2>4, <3>1 DEF UsePresets
    <3>3. /\ boot'.pc = "up" /\ DOMAIN boot' = BootFields /\ boot'.candidates = <<>>
          /\ boot'.passed = {} /\ boot'.failed = {} /\ boot'.presets = q /\ boot'.concurrency = n
        BY <1>0, <2>2, <3>2 DEF BootFields
    <3> QED BY <1>0, <1>1, <3>1, <3>2, <3>3 DEF BootOK, Unranked
  <2>5. CASE Detect
    <3>1. /\ Acceptable /\ Setting("presets") = <<>> /\ boot' = [boot EXCEPT !.pc = "ffmpeg"]
        BY <2>5 DEF Detect
    <3>2. /\ boot'.pc = "ffmpeg" /\ DOMAIN boot' = BootFields /\ boot'.candidates = <<>>
          /\ boot'.passed = {} /\ boot'.failed = {} /\ boot'.presets = <<>> /\ boot'.va = <<>>
        BY <1>0, <2>2, <3>1 DEF BootFields
    <3>3. AskedOK'
        BY <3>2 DEF AskedOK
    <3> QED BY <1>0, <1>1, <3>1, <3>2, <3>3 DEF BootOK, Unranked
  <2> QED BY <1>2, <2>3, <2>4, <2>5
<1>3. CASE boot.pc \in {"ffmpeg", "nodes"} /\ (AskFfmpeg \/ AskVainfo \/ Hang \/ Rank)
  <2>1. /\ Acceptable /\ Setting("presets") = <<>> /\ Unranked /\ boot.presets = <<>> /\ AskedOK
      BY <1>3 DEF BootOK, Booting
  <2>2. CASE AskFfmpeg
    <3>1. PICK found : boot' = [boot EXCEPT !.pc = "nodes", !.encoders = found]
        BY <2>2 DEF AskFfmpeg
    <3>2. /\ boot'.pc = "nodes" /\ DOMAIN boot' = BootFields
          /\ boot'.candidates = boot.candidates /\ boot'.passed = boot.passed
          /\ boot'.failed = boot.failed /\ boot'.presets = boot.presets /\ boot'.va = boot.va
        BY <1>0, <3>1 DEF BootFields
    <3>3. AskedOK'
        BY <1>1, <2>1, <3>2 DEF AskedOK
    <3> QED BY <1>0, <1>1, <2>1, <3>2, <3>3 DEF BootOK, Unranked
  <2>3. CASE AskVainfo
    <3>1. PICK i \in DOMAIN Nodes :
              \E answer \in {"hevc", "none"} :
                  /\ answer = "hevc" => Nodes[i].readable
                  /\ boot' = [boot EXCEPT !.va = [p \in DOMAIN @ \cup {Nodes[i].path} |->
                                                    IF p = Nodes[i].path THEN answer ELSE @[p]]]
        BY <2>3 DEF AskVainfo
    <3>2. PICK answer \in {"hevc", "none"} :
                  /\ answer = "hevc" => Nodes[i].readable
                  /\ boot' = [boot EXCEPT !.va = [p \in DOMAIN @ \cup {Nodes[i].path} |->
                                                    IF p = Nodes[i].path THEN answer ELSE @[p]]]
        BY <3>1
    <3>3. PICK path : path = Nodes[i].path
        OBVIOUS
    <3>4. PICK va : va = [p \in DOMAIN boot.va \cup {path} |->
                             IF p = path THEN answer ELSE boot.va[p]]
        OBVIOUS
    <3>5. boot' = [boot EXCEPT !.va = va]
        BY <3>2, <3>3, <3>4
    <3>6. /\ boot'.pc = boot.pc /\ DOMAIN boot' = BootFields
          /\ boot'.candidates = boot.candidates /\ boot'.passed = boot.passed
          /\ boot'.failed = boot.failed /\ boot'.presets = boot.presets /\ boot'.va = va
        BY <1>0, <3>5 DEF BootFields
    <3>7. ASSUME NEW j \in DOMAIN Nodes, Nodes[j].path \in DOMAIN va, va[Nodes[j].path] = "hevc"
          PROVE  Nodes[j].readable
      <4>1. CASE j = i
          BY <3>2, <3>3, <3>4, <3>7, <4>1
      <4>2. CASE j # i
        <5>1. Nodes[j].path # path
            BY <1>0, <3>3, <4>2, NodesFacts
        <5>2. Nodes[j].path \in DOMAIN boot.va /\ boot.va[Nodes[j].path] = "hevc"
            BY <3>4, <3>7, <5>1
        <5> QED BY <2>1, <5>2 DEF AskedOK
      <4> QED BY <4>1, <4>2
    <3>8. AskedOK'
        BY <1>1, <3>6, <3>7 DEF AskedOK
    <3> QED BY <1>0, <1>1, <1>3, <2>1, <3>6, <3>8 DEF BootOK, Unranked
  <2>4. CASE Hang
    <3>1. boot' = [boot EXCEPT !.pc = "crashed"]
        BY <2>4 DEF Hang
    <3>2. /\ boot'.pc = "crashed" /\ DOMAIN boot' = BootFields
          /\ boot'.candidates = boot.candidates /\ boot'.passed = boot.passed
          /\ boot'.failed = boot.failed /\ boot'.presets = boot.presets
        BY <1>0, <3>1 DEF BootFields
    <3> QED BY <1>0, <2>1, <3>2 DEF BootOK, Unranked
  <2>5. CASE Rank
    <3>1. DOMAIN boot' = BootFields
        BY <1>0, <2>5 DEF Rank, BootFields
    <3> QED BY <1>0, <1>1, <2>1, <2>5, <3>1, RankStep DEF BootOK
  <2> QED BY <1>3, <2>2, <2>3, <2>4, <2>5
<1>4. CASE boot.pc = "confirm" /\ (FallBack \/ \E works \in BOOLEAN : TestEncode(works))
  <2>1. Acceptable /\ Setting("presets") = <<>> /\ Ranking /\ boot.presets = <<>>
      BY <1>4 DEF BootOK, Booting
  <2>2. ASSUME Ranking', DOMAIN boot' = BootFields, boot'.pc = "confirm", boot'.presets = <<>>
        PROVE  BootOK'
      BY <1>0, <1>1, <2>1, <2>2 DEF BootOK
  <2>3. CASE FallBack
    <3>1. PICK i \in Untried : /\ NextIs(i) /\ ~Hardware(boot.candidates[i].encoder)
                               /\ boot' = [boot EXCEPT !.candidates[i].status = "selected"]
        BY <2>3 DEF FallBack
    <3>2. PICK q : q = [boot.candidates EXCEPT ![i].status = "selected"]
        OBVIOUS
    <3>3. boot' = [boot EXCEPT !.candidates = q]
        BY <3>1, <3>2
    <3>4. /\ DOMAIN boot' = BootFields /\ boot'.pc = "confirm" /\ boot'.candidates = q
          /\ boot'.presets = boot.presets /\ boot'.encoders = boot.encoders /\ boot'.va = boot.va
          /\ boot'.passed = boot.passed /\ boot'.failed = boot.failed
        BY <1>0, <1>4, <3>3 DEF BootFields
    <3>5. Selected = {}
        BY <2>3 DEF FallBack
    <3>6. Ranking'
        BY <1>0, <2>1, <3>1, <3>2, <3>4, <3>5, StatusStep
    <3> QED BY <2>1, <2>2, <3>4, <3>6
  <2>4. ASSUME NEW works \in BOOLEAN, TestEncode(works) PROVE BootOK'
    <3>1. PICK i \in Untried :
              /\ NextIs(i) /\ Hardware(boot.candidates[i].encoder)
              /\ boot' = [boot EXCEPT
                   !.candidates[i].status = IF works THEN "selected" ELSE "rejected",
                   !.passed = IF works THEN @ \cup {Mine(boot.candidates[i])} ELSE @,
                   !.failed = IF works THEN @ ELSE @ \cup {Mine(boot.candidates[i])}]
        BY <2>4 DEF TestEncode, Mine
    <3>2. PICK status \in {"selected", "rejected"} :
              status = IF works THEN "selected" ELSE "rejected"
        OBVIOUS
    <3>3. PICK passed : passed = IF works THEN boot.passed \cup {Mine(boot.candidates[i])}
                                 ELSE boot.passed
        OBVIOUS
    <3>4. PICK failed : failed = IF works THEN boot.failed
                                 ELSE boot.failed \cup {Mine(boot.candidates[i])}
        OBVIOUS
    <3>5. PICK q : q = [boot.candidates EXCEPT ![i].status = status]
        OBVIOUS
    <3>6. boot' = [boot EXCEPT !.candidates = q, !.passed = passed, !.failed = failed]
        BY <3>1, <3>2, <3>3, <3>4, <3>5
    <3>7. /\ DOMAIN boot' = BootFields /\ boot'.pc = "confirm" /\ boot'.candidates = q
          /\ boot'.presets = boot.presets /\ boot'.encoders = boot.encoders /\ boot'.va = boot.va
          /\ boot'.passed = passed /\ boot'.failed = failed
        BY <1>0, <1>4, <3>6 DEF BootFields
    <3>8. Selected = {}
        BY <2>4 DEF TestEncode
    <3>9. /\ boot.passed \subseteq passed /\ boot.failed \subseteq failed
          /\ passed \cup failed \subseteq boot.passed \cup boot.failed
                                          \cup {Mine(boot.candidates[i])}
          /\ status = "rejected" => Mine(boot.candidates[i]) \in failed
          /\ status = "selected" => Mine(boot.candidates[i]) \in passed
        BY <3>2, <3>3, <3>4
    <3>10. Ranking'
        BY <1>0, <2>1, <3>1, <3>5, <3>7, <3>8, <3>9, StatusStep
    <3> QED BY <2>1, <2>2, <3>7, <3>10
  <2> QED BY <1>4, <2>3, <2>4
<1>5. CASE Build
    BY <1>0, <1>5, BuildStep
<1> QED BY <1>2, <1>3, <1>4, <1>5
        DEF Startup, Refuse, UsePresets, Detect, AskFfmpeg, AskVainfo, Hang, Rank, TestEncode, FallBack

-----------------------------------------------------------------------------
(* What holds of every process and every job.                              *)

WalkOK == walk.pc \in {"closed", "segment", "scan", "found", "unknown"}

EncoderInv == BootOK /\ JobInv /\ WalkOK

LEMMA BootPresets == ASSUME BootOK PROVE PresetsOK
<1>1. CASE boot.presets = Setting("presets") /\ Acceptable
  <2>1. \A i \in DOMAIN boot.presets : PresetAllowed(boot.presets[i])
      BY <1>1 DEF Acceptable
  <2> QED BY <2>1 DEF PresetsOK, PresetAllowed
<1>2. CASE boot.presets = <<>>
    BY <1>2 DEF PresetsOK
<1> QED BY <1>1, <1>2 DEF BootOK, Booting

LEMMA InitInv == ASSUME Init PROVE EncoderInv
BY DEF Init, StartupInit, EncoderInv, BootOK, Booting, BootFields, JobInv, WalkOK, Unopened

LEMMA StepInv ==
    ASSUME EncoderInv, [Next]_<<svars, jvars>>
    PROVE  EncoderInv'
<1>1. JobInv'
    BY BootPresets, JobPreserves DEF EncoderInv
<1>2. WalkOK'
  <2>1. CASE UNCHANGED walk
      BY <2>1 DEF EncoderInv, WalkOK
  <2>2. CASE OpenStill
      BY <2>2 DEF OpenStill, Open, WalkOK
  <2>3. CASE WalkStill
      BY <2>3 DEF WalkStill, Walk, EndOfImage, Standalone, Segment, CannotTell, Entropy,
         EndOfScan, ScanBreaksOff, Go, WalkOK
  <2>4. \/ UNCHANGED walk \/ OpenStill \/ WalkStill
      BY DEF Next, JobStep, Begin, Fail, Download, AskWalk, AskTags, AskQuality, ProbeSource,
         RunEncoder, EncoderRefuses, CopyMetadata, Inspect, VerifyMetadata, CheckSanity, jvars
  <2> QED BY <2>1, <2>2, <2>3, <2>4
<1>3. BootOK'
  <2>1. CASE Startup
      BY <2>1, BootStep DEF EncoderInv
  <2>2. CASE UNCHANGED svars
    <3>1. given' = given /\ boot' = boot
        BY <2>2 DEF svars
    <3>2. /\ \A k : Setting(k)' = Setting(k) /\ (Written(k)' <=> Written(k))
          /\ (Acceptable' <=> Acceptable) /\ Nodes' = Nodes
          /\ \A types : EnabledOnly(types)' <=> EnabledOnly(types)
        BY <3>1, SameGiven
    <3>3. /\ Ranking' <=> Ranking
          /\ \A c : Chosen(c)' <=> Chosen(c)
        BY <3>1, SameRanking
    <3>4. (AskedOK' <=> AskedOK) /\ (Unranked' <=> Unranked) /\ (PresetsOK' <=> PresetsOK)
        BY <3>1, <3>2 DEF AskedOK, Unranked, PresetsOK
    <3> QED BY <3>1, <3>2, <3>3, <3>4 DEF EncoderInv, BootOK
  <2> QED BY <2>1, <2>2 DEF Next, jvars
<1> QED BY <1>1, <1>2, <1>3 DEF EncoderInv

LEMMA EncoderAlways == Spec => []EncoderInv
<1>1. Init => EncoderInv
    BY InitInv
<1>2. EncoderInv /\ [Next]_<<svars, jvars>> => EncoderInv'
    BY StepInv
<1> QED BY <1>1, <1>2, PTL DEF Spec

\* At most one encoder is selected.
LEMMA OneSelected == ASSUME BootOK PROVE Cardinality(Selected) <= 1
<1>1. ASSUME Ranking, NEW i \in Selected PROVE Selected = {i}
  <2>1. DOMAIN boot.candidates \subseteq Nat \ {0}
      BY <1>1 DEF Ranking
  <2>2. ASSUME NEW j \in Selected, NEW k \in Selected, j < k PROVE FALSE
    <3>1. j \in 1 .. k - 1
        BY <2>1, <2>2 DEF Selected
    <3> QED BY <1>1, <2>2, <3>1 DEF Ranking, Selected
  <2>3. ASSUME NEW j \in Selected PROVE j = i
    <3>1. i \in Nat /\ j \in Nat
        BY <1>1, <2>1 DEF Selected
    <3> QED BY <1>1, <2>2, <3>1
  <2> QED BY <1>1, <2>3
<1>2. Selected = {} => Cardinality(Selected) = 0
    BY FS_EmptySet
<1>3. \A i : Selected = {i} => Cardinality(Selected) = 1
    BY FS_Singleton
<1>4. CASE Ranking
    BY <1>1, <1>2, <1>3, <1>4
<1>5. CASE boot.candidates = <<>>
    BY <1>2, <1>5 DEF Selected
<1> QED BY <1>4, <1>5 DEF BootOK, Booting, Unranked

(***************************************************************************)
(* Every variable has its type: no process works with more jobs at a time  *)
(* than the configuration admits or with more threads than _MAX_THREADS,   *)
(* no ranking selects two encoders, and in the directory of a job there is *)
(* nothing but the source and the output, under two names.                 *)
(***************************************************************************)
THEOREM MediaTypes == Spec => []TypeOK
<1>1. ASSUME EncoderInv PROVE TypeOK
  <2>1. given \in Given /\ boot.pc \in {"load", "refused", "crashed", "ffmpeg", "nodes", "confirm", "up"}
      BY <1>1 DEF EncoderInv, BootOK
  <2>2. boot.pc = "up" => boot.concurrency \in 1 .. 4
      BY <1>1, <2>1, CountsAreBounded DEF EncoderInv, BootOK, Booting
  <2>3. \A i \in DOMAIN boot.candidates :
            boot.candidates[i].status \in {"selected", "rejected", "not_tried"}
    <3>1. CASE Ranking
      <4>1. \A i \in DOMAIN boot.candidates : boot.candidates[i] \in Candidate
          BY <3>1 DEF Ranking
      <4> QED BY <4>1 DEF Candidate
    <3>2. CASE boot.candidates = <<>>
        BY <3>2
    <3> QED BY <1>1, <3>1, <3>2 DEF EncoderInv, BootOK, Booting, Unranked
  <2>4. Cardinality(Selected) <= 1 /\ Threads \in 1 .. MaxThreads
      BY <1>1, <2>1, OneSelected, CountsAreBounded DEF EncoderInv
  <2>5. /\ job.pc \in Working \cup {"idle", "failed", "skipped", "accepted"}
        /\ job.pc # "idle" => job.src \in Sources /\ DOMAIN dir \subseteq {SourceName, OutputName}
      BY <1>1 DEF EncoderInv, JobInv, Idle, JobOK, Plan, Files, Ends
  <2>6. SourceName # OutputName
      BY TwoNames
  <2> QED BY <1>1, <2>1, <2>2, <2>3, <2>4, <2>5, <2>6 DEF TypeOK, EncoderInv, WalkOK
<1> QED BY <1>1, EncoderAlways, PTL

\* Nothing that is wanted is before itself, and the CPU's encoder is after all of it.
LEMMA WantedPlaces ==
    ASSUME given \in Given, NEW w \in Wanted
    PROVE  /\ Hardware(w[1]) /\ ~Before(w, w)
           /\ \A d : Before(w, <<"x265", d>>)
<1>1. \/ w = <<"nvenc", None>>
      \/ \E n \in Elements(Nodes) : w = <<"qsv", n.path>>
      \/ \E n \in Elements(Nodes) : w = <<"vaapi", n.path>>
    BY WantedAre
<1>2. ASSUME NEW e \in {"nvenc", "qsv", "vaapi"}, NEW d, w = <<e, d>>,
             d = None \/ \E i \in DOMAIN Nodes : d = Nodes[i].path
      PROVE  /\ Hardware(w[1]) /\ ~Before(w, w)
             /\ \A c : Before(w, <<"x265", c>>)
  <2>1. PICK a : a = Place(w)
      OBVIOUS
  <2>2. a[1] \in 1 .. 3
    <3>1. /\ Place(<<"nvenc", d>>)[1] = 1 /\ Place(<<"qsv", d>>)[1] = 2
          /\ Place(<<"vaapi", d>>)[1] = 3
        BY PlaceFacts
    <3> QED BY <1>2, <2>1, <3>1
  <2>3. a[2] \in Nat
    <3>1. d = None => Place(<<e, d>>)[2] = 0
        BY PlaceFacts
    <3>2. \A i \in DOMAIN Nodes : d = Nodes[i].path => Place(<<e, d>>)[2] = i
        BY PlaceFacts
    <3>3. DOMAIN Nodes \subseteq Nat
        BY NodesFacts
    <3> QED BY <1>2, <2>1, <3>1, <3>2, <3>3
  <2>4. ~Before(w, w)
      BY <2>1, <2>2, <2>3 DEF Before
  <2>5. ASSUME NEW c PROVE Before(w, <<"x265", c>>)
    <3>1. Place(<<"x265", c>>)[1] = 4
        BY PlaceFacts
    <3> QED BY <2>1, <2>2, <3>1 DEF Before
  <2> QED BY <1>2, <2>4, <2>5, CatalogFacts
<1>3. \A n \in Elements(Nodes) : \E i \in DOMAIN Nodes : n.path = Nodes[i].path
    BY NodesFacts
<1> QED BY <1>1, <1>2, <1>3

(***************************************************************************)
(* The encoder of a generated video preset is the best the machine can     *)
(* run, whatever devices it has, whatever ffmpeg and vainfo say, and       *)
(* whichever test encodes fail: the ranked list is in the catalog's order, *)
(* everything wanted is on it, and what is before the selected one has     *)
(* been tried.                                                             *)
(***************************************************************************)
THEOREM TheBestEncoderWorks == Spec => []BestWorkingEncoder
<1>1. ASSUME EncoderInv PROVE BestWorkingEncoder
  <2> SUFFICES ASSUME NEW k \in DOMAIN boot.presets, Detected, boot.presets[k].type = "VIDEO"
               PROVE  IF Hardware(boot.presets[k].encoder)
                      THEN /\ <<boot.presets[k].encoder, boot.presets[k].device>>
                                 \in boot.passed \cap Wanted
                           /\ \A c \in Wanted :
                                 Before(c, <<boot.presets[k].encoder, boot.presets[k].device>>)
                                     => c \in boot.failed
                      ELSE Wanted \subseteq boot.failed
      BY Zenon DEF BestWorkingEncoder
  <2>1. PICK e, d : e = boot.presets[k].encoder /\ d = boot.presets[k].device
      OBVIOUS
  <2>2. given \in Given /\ Ranking /\ Chosen(<<e, d>>)
      BY <1>1, <2>1 DEF EncoderInv, BootOK, Detected, Booting
  <2>3. PICK q : q = boot.candidates
      OBVIOUS
  <2>4. PICK n \in Nat : DOMAIN q = 1 .. n
      BY <2>2, <2>3 DEF Ranking
  <2>5. \A i \in 1 .. n : q[i].encoder \in Encoders
                          /\ q[i].status \in {"selected", "rejected", "not_tried"}
    <3>1. \A i \in 1 .. n : q[i] \in Candidate
        BY <2>2, <2>3, <2>4 DEF Ranking
    <3> QED BY <3>1 DEF Candidate, Encoders
  <2>6. CASE Selected = {} /\ Untried = {} /\ e = "x265"
    <3>1. \A i \in 1 .. n : q[i].status = "rejected"
        BY <2>3, <2>4, <2>5, <2>6 DEF Selected, Untried
    <3>2. Wanted \subseteq boot.failed
        BY <2>2, <2>3, <2>4, <3>1 DEF Ranking
    <3> QED BY <2>1, <2>6, <3>2, CatalogFacts
  <2>7. ASSUME NEW s \in Selected, Mine(q[s]) = <<e, d>>
        PROVE  IF Hardware(e)
               THEN /\ <<e, d>> \in boot.passed \cap Wanted
                    /\ \A c \in Wanted : Before(c, <<e, d>>) => c \in boot.failed
               ELSE Wanted \subseteq boot.failed
    <3>1. /\ s \in 1 .. n /\ q[s].status = "selected" /\ q[s].encoder = e
          /\ \A j \in 1 .. s - 1 : q[j].status = "rejected"
          /\ Hardware(e) => <<e, d>> \in boot.passed
        BY <2>2, <2>3, <2>4, <2>7 DEF Selected, Ranking, Mine
    <3>2. ASSUME NEW c \in Wanted, Before(c, <<e, d>>) PROVE c \in boot.failed
      <4>1. PICK j \in 1 .. n : Mine(q[j]) = c /\ (q[j].status = "rejected" => c \in boot.failed)
          BY <2>2, <2>3, <2>4 DEF Ranking
      <4>2. CASE j < s
        <5>1. j \in 1 .. s - 1
            BY <3>1, <4>2
        <5> QED BY <3>1, <4>1, <5>1
      <4>3. CASE j = s
          BY <2>2, <2>7, <3>2, <4>1, <4>3, WantedPlaces
      <4>4. CASE s < j
        <5>1. ~Before(Mine(q[j]), Mine(q[s]))
            BY <2>2, <2>3, <2>4, <3>1, <4>4 DEF Ranking, Sorted
        <5> QED BY <2>7, <3>2, <4>1, <5>1
      <4> QED BY <3>1, <4>2, <4>3, <4>4
    <3>3. CASE Hardware(e)
        BY <2>2, <3>1, <3>2, <3>3 DEF Ranking
    <3>4. CASE ~Hardware(e)
      <4>1. e = "x265"
          BY <2>5, <3>1, <3>4, CatalogFacts DEF Encoders
      <4>2. \A c \in Wanted : Before(c, <<e, d>>)
          BY <2>2, <4>1, WantedPlaces
      <4> QED BY <3>2, <3>4, <4>2
    <3> QED BY <3>3, <3>4
  <2> QED BY <2>1, <2>2, <2>3, <2>6, <2>7 DEF Chosen
<1> QED BY <1>1, EncoderAlways, PTL

\* What is set of the settings a configuration can be at fault for, and what
\* the operator has said of them.
LEMMA SaidOfSettings ==
    /\ Setting("presets") = Handmade /\ Elements(Setting("enabled_types")) = Enabled
    /\ "secrets" \notin DOMAIN given.file =>
          (Setting("secrets") <=> "secrets" \in DOMAIN given.env /\ given.env["secrets"])
    /\ Permanent <=> Written("delete_mode") /\ Wish("delete_mode") = "permanent"
    /\ Setting("trash_original") <=> Written("trash_original") /\ Wish("trash_original")
    /\ ~Setting("dry_run") <=> Written("dry_run") /\ ~Wish("dry_run")
    /\ Setting("metadata_verify") # "strict" <=>
          Written("metadata_verify") /\ Wish("metadata_verify") # "strict"
    /\ Setting("max_asset_age_hours") = None <=>
          Written("max_asset_age_hours") /\ Wish("max_asset_age_hours") = None
<1>1. ASSUME NEW k PROVE Setting(k) = IF Written(k) THEN Wish(k) ELSE Defaults[k]
    BY DEF Setting, Written, Wish
<1>2. /\ Defaults["presets"] = <<>> /\ Defaults["enabled_types"] = <<"VIDEO">>
      /\ Defaults["secrets"] = FALSE /\ Defaults["delete_mode"] = "trash"
      /\ Defaults["trash_original"] = FALSE /\ Defaults["dry_run"] = TRUE
      /\ Defaults["metadata_verify"] = "strict" /\ Defaults["max_asset_age_hours"] = 24
    BY DEF Defaults
<1>3. Setting("presets") = Handmade /\ Elements(Setting("enabled_types")) = Enabled
    BY <1>1, <1>2 DEF Handmade, Enabled
<1>4. "secrets" \notin DOMAIN given.file =>
          (Setting("secrets") <=> "secrets" \in DOMAIN given.env /\ given.env["secrets"])
    BY <1>2, Zenon DEF Setting
<1>5. Permanent <=> Written("delete_mode") /\ Wish("delete_mode") = "permanent"
    BY <1>1, <1>2 DEF Permanent
<1>6. Setting("trash_original") <=> Written("trash_original") /\ Wish("trash_original")
    BY <1>1, <1>2, Zenon
<1>7. ~Setting("dry_run") <=> Written("dry_run") /\ ~Wish("dry_run")
    BY <1>1, <1>2, Zenon
<1>8. Setting("metadata_verify") # "strict" <=>
          Written("metadata_verify") /\ Wish("metadata_verify") # "strict"
    BY <1>1, <1>2
<1>9. Setting("max_asset_age_hours") = None <=>
          Written("max_asset_age_hours") /\ Wish("max_asset_age_hours") = None
  <2>1. 24 # None
      BY EncoderAssumption
  <2> QED BY <1>1, <1>2, <2>1
<1> QED BY <1>3, <1>4, <1>5, <1>6, <1>7, <1>8, <1>9

\* A configuration is at fault when it is not acceptable, or when the catalog
\* is to make presets for types it has no recipe for; and only then.
LEMMA FaultsAreTold ==
    AtFault <=> \/ ~Acceptable
                \/ Setting("presets") = <<>> /\ ~EnabledOnly({"VIDEO", "IMAGE"})
<1>1. UnclearDeletion <=>
          Permanent /\ ~(/\ Setting("trash_original")
                         /\ ~Setting("dry_run")
                         /\ Setting("metadata_verify") = "strict"
                         /\ Setting("max_asset_age_hours") # None)
    BY SaidOfSettings, Zenon DEF UnclearDeletion
<1>2. \A p : Contradicts(p) <=> ~PresetAllowed(p)
    BY Zenon DEF Contradicts, PresetAllowed
<1>3. Unserved <=>
          \/ Handmade # <<>> /\ ~(\A t \in Enabled : Covers(Handmade, t))
          \/ Handmade = <<>> /\ ~EnabledOnly({"VIDEO", "IMAGE"})
    BY SaidOfSettings DEF Unserved, Covers, EnabledOnly
<1>4. Acceptable <=>
          /\ "secrets" \notin DOMAIN given.file
          /\ "secrets" \in DOMAIN given.env /\ given.env["secrets"]
          /\ ~Written("renamed")
          /\ \A i \in DOMAIN Handmade : PresetAllowed(Handmade[i])
          /\ \A i, j \in DOMAIN Handmade : Handmade[i].name = Handmade[j].name => i = j
          /\ Handmade # <<>> => \A t \in Enabled : Covers(Handmade, t)
          /\ ~UnclearDeletion
    BY <1>1, SaidOfSettings, Zenon DEF Acceptable
<1> QED BY <1>2, <1>3, <1>4, SaidOfSettings, Zenon DEF AtFault

(***************************************************************************)
(* What the operator has written is kept.  A process comes up under no     *)
(* configuration with a fault, and so deletes for good only where every    *)
(* switch for it was thrown in writing; and no other is refused.           *)
(***************************************************************************)
THEOREM WhatIsWrittenIsKept == Spec => []WrittenIsKept
<1>1. ASSUME EncoderInv PROVE WrittenIsKept
  <2>1. BootOK
      BY <1>1 DEF EncoderInv, BootOK
  <2>2. \A k : Written(k) => Setting(k) = Wish(k)
      BY DEF Written, Setting, Wish
  <2>3. boot.pc = "up" /\ Written("concurrency") => boot.concurrency = Wish("concurrency")
      BY <2>1, <2>2 DEF BootOK, Booting
  <2>4. boot.pc = "up" /\ Handmade # <<>>
            => /\ boot.presets = Handmade
               /\ boot.passed = {} /\ boot.failed = {}
      BY <2>1, SaidOfSettings DEF BootOK, Booting, Unranked
  <2>5. ASSUME NEW c \in boot.passed \cup boot.failed
        PROVE  /\ Mode \in {"auto", c[1]}
               /\ c[2] = None \/ Pin \in {"auto", c[2]}
    <3>1. c \in Wanted
        BY <2>1, <2>5 DEF BootOK, Booting, Unranked, Ranking
    <3> QED BY <3>1, WantedAre
  <2>6. ASSUME boot.pc = "up" PROVE ~AtFault
      BY <2>1, <2>6, FaultsAreTold DEF BootOK, Booting
  <2>7. ASSUME boot.pc = "up", NEW t \in Enabled PROVE Covers(boot.presets, t)
    <3>1. t \in Elements(Setting("enabled_types"))
        BY SaidOfSettings
    <3>2. CASE Setting("presets") # <<>> /\ Acceptable /\ boot.presets = Setting("presets")
        BY <3>1, <3>2 DEF Acceptable
    <3> QED BY <2>1, <2>7, <3>1, <3>2 DEF BootOK, Booting
  <2>8. ASSUME boot.pc = "refused" PROVE AtFault
      BY <2>1, <2>8, FaultsAreTold DEF BootOK, Booting
  <2> QED BY <2>2, <2>3, <2>4, <2>5, <2>6, <2>7, <2>8, Zenon DEF WrittenIsKept, Mode, Pin
<1> QED BY <1>1, EncoderAlways, PTL

(***************************************************************************)
(* What an accepted job hands to the upload is a whole output of its own   *)
(* run, made from the original that was downloaded and described by the    *)
(* checksum of what is there; and under a strict gate no tag is missing.   *)
(***************************************************************************)
THEOREM AcceptedOutputIsFaithful == Spec => []AcceptedIsFaithful
<1>1. ASSUME EncoderInv PROVE AcceptedIsFaithful
  <2> SUFFICES ASSUME job.pc = "accepted" PROVE AcceptedIsFaithful
      BY DEF AcceptedIsFaithful
  <2>1. JobOK
      BY <1>1 DEF EncoderInv, JobInv, Idle
  <2>2. PICK out : out = dir[OutputName]
      OBVIOUS
  <2>3. Made(out) /\ dir[SourceName] = job.src.content /\ job.hash = out
      BY <2>1, <2>2 DEF JobOK, Files, Answered, HasOutput, HasSource, HasHash
  <2>4. job.preset.exiftool_copy /\ Setting("metadata_verify") = "strict"
            => \A t \in DOMAIN job.src.content.tags \ Ignored :
                   job.src.content.tags[t] # Absent => out.tags[t] # Absent
      BY <2>1, <2>2, <2>3 DEF JobOK, Answered, TagsLost, Differences
  <2>5. out.codec # job.src.content.codec =>
            \/ ~job.preset.copies_audio
            \/ job.src.content.codec = "unmuxable" /\ Effective("transcode_unsupported_audio")
      BY <2>3 DEF Made, MayEncode
  <2> QED BY <2>2, <2>3, <2>4, <2>5 DEF AcceptedIsFaithful, Made
<1> QED BY <1>1, EncoderAlways, PTL

\* Edges of two lengths tell how many of the quarter turns of a size are odd.
LEMMA EdgesTell ==
    ASSUME NEW size \in Nat \X Nat, size[1] # size[2], NEW t \in 0 .. 3,
           NEW baked \in {0, t}, NEW turn \in {0, t},
           Swapped(Swapped(size, baked), turn) = Swapped(size, t)
    PROVE  (baked + turn - t) % 4 \in {0, 2}
<1>1. PICK w \in Nat, h \in Nat : size = <<w, h>> /\ w # h
    OBVIOUS
<1>2. /\ 0 % 2 = 0 /\ 1 % 2 = 1 /\ 2 % 2 = 0 /\ 3 % 2 = 1
      /\ 0 % 4 = 0 /\ 2 % 4 = 2
      /\ \A x \in Int : x + 2 = 0 => x % 4 = 2
    BY SMT
<1>3. /\ \A s : Swapped(s, 0) = s /\ Swapped(s, 2) = s
      /\ \A s : Swapped(s, 1) = <<s[2], s[1]>> /\ Swapped(s, 3) = <<s[2], s[1]>>
    BY <1>2 DEF Swapped
<1>4. t = 0 \/ t = 1 \/ t = 2 \/ t = 3
    OBVIOUS
<1>5. PICK x \in Int : x = baked + turn - t
    OBVIOUS
<1>7. \/ x = 0 \/ x = 2 \/ x + 2 = 0
      \/ t \in {1, 3} /\ ((baked = 0 /\ turn = 0) \/ (baked = t /\ turn = t))
  <2>1. CASE baked = 0 /\ turn = 0
      BY <1>4, <1>5, <2>1
  <2>2. CASE baked = t /\ turn = t
      BY <1>4, <1>5, <2>2
  <2>3. CASE (baked = 0 /\ turn = t) \/ (baked = t /\ turn = 0)
      BY <1>5, <2>3
  <2> QED BY <2>1, <2>2, <2>3
<1>6. CASE t \in {1, 3} /\ ((baked = 0 /\ turn = 0) \/ (baked = t /\ turn = t))
  <2>1. Swapped(size, t) = <<h, w>>
      BY <1>1, <1>3, <1>6
  <2>2. Swapped(Swapped(size, baked), turn) = <<w, h>>
    <3>1. PICK s : s = Swapped(size, baked)
        OBVIOUS
    <3>2. CASE baked = 0 /\ turn = 0
        BY <1>1, <1>3, <3>1, <3>2
    <3>3. CASE baked = t /\ turn = t
      <4>1. s = <<h, w>>
          BY <2>1, <3>1, <3>3
      <4>2. Swapped(s, t) = <<s[2], s[1]>>
          BY <1>3, <1>6
      <4> QED BY <3>1, <3>3, <4>1, <4>2
    <3> QED BY <1>6, <3>2, <3>3
  <2> QED BY <1>1, <2>1, <2>2
<1> QED BY <1>2, <1>5, <1>6, <1>7

(***************************************************************************)
(* No accepted picture is shown turned by a quarter, and none at all where *)
(* the preset normalises the orientation: for every size with edges of two *)
(* lengths, whatever the command does to the orientation, and whichever    *)
(* tags the copy of the metadata carries over.                             *)
(***************************************************************************)
THEOREM PicturesStayUpright == Spec => []RightWayUp
<1>1. ASSUME EncoderInv PROVE RightWayUp
  <2> SUFFICES ASSUME job.pc = "accepted" PROVE RightWayUp
      BY DEF RightWayUp
  <2>1. JobOK
      BY <1>1 DEF EncoderInv, JobInv, Idle
  <2>2. PICK out, size : out = dir[OutputName] /\ size = job.src.content.size
      OBVIOUS
  <2>3. /\ job.src \in Sources /\ Made(out) /\ Sane
        /\ job.preset.normalize_orientation => out.turn = 0
        /\ job.known => job.seen = job.src.content /\ job.out = out
      BY <2>1, <2>2 DEF JobOK, Plan, Files, Answered, HasOutput, HasProbed, HasHash
  <2>4. PICK t \in 0 .. 3 : t = job.src.content.turn
      BY <2>3, EncoderAssumption
  <2>5. out.baked \in {0, t} /\ out.turn \in {0, t} /\ size \in Nat \X Nat
      BY <2>2, <2>3, <2>4, EncoderAssumption DEF Made
  <2>6. CASE job.preset.normalize_orientation
    <3>1. job.preset.auto_orient
        BY <1>1, <2>1, <2>6, BootPresets DEF EncoderInv, JobOK, Plan, PresetsOK
    <3>2. out.baked = t /\ out.turn = 0
        BY <2>3, <2>4, <2>6, <3>1 DEF Made
    <3>3. (out.baked + out.turn - t) % 4 = 0
        BY <3>2
    <3> QED BY <2>2, <2>4, <3>3 DEF RightWayUp
  <2>7. ASSUME job.known, Setting("require_same_resolution"), 0 \notin Elements(size),
               size[1] # size[2]
        PROVE  (out.baked + out.turn - t) % 4 \in {0, 2}
    <3>1. Swapped(out.size, out.turn) = Swapped(size, t)
      <4>1. DisplaySize(job.out) = DisplaySize(job.seen)
          BY <2>2, <2>3, <2>7 DEF Sane
      <4> QED BY <2>2, <2>3, <2>4, <2>7, <4>1 DEF DisplaySize
    <3>2. out.size = Swapped(size, out.baked)
      <4>1. ASSUME out.size \in Nat \X Nat, out.size \notin {size, Transposed(size)} PROVE FALSE
        <5>1. PICK a \in Nat, b \in Nat : out.size = <<a, b>>
            BY <4>1
        <5>2. PICK w \in Nat, h \in Nat : size = <<w, h>>
            BY <2>5
        <5>3. \/ out.size = size \/ out.size = Transposed(size)
              \/ <<b, a>> = size \/ <<b, a>> = Transposed(size)
            BY <3>1, <5>1 DEF Swapped, Transposed
        <5>4. Transposed(size) = <<h, w>>
            BY <5>2 DEF Transposed
        <5> QED BY <4>1, <5>1, <5>2, <5>3, <5>4
      <4> QED BY <2>2, <2>3, <4>1 DEF Made
    <3> QED BY <2>5, <2>7, <3>1, <3>2, EdgesTell
  <2> QED BY <2>2, <2>3, <2>4, <2>6, <2>7 DEF RightWayUp
<1> QED BY <1>1, EncoderAlways, PTL

-----------------------------------------------------------------------------
(* The walk over a JPEG, for files of any length and any content.          *)

\* One code follows the fill bytes, and a part has one end.
LEMMA OneMarker ==
    ASSUME NEW d, NEW a \in Nat, NEW c, NEW e, Len(d) \in Nat, Marker(d, a, c), Marker(d, a, e)
    PROVE  c = e
<1>1. ASSUME NEW x \in Nat, NEW y \in Nat, Marker(d, a, x), Marker(d, a, y), x < y PROVE FALSE
  <2>1. x \in a .. y - 1
      BY <1>1 DEF Marker
  <2> QED BY <1>1, <2>1 DEF Marker
<1>2. c \in Nat /\ e \in Nat
    BY DEF Marker
<1> QED BY <1>1, <1>2

\* Files and where a segment of them ends.
File == Seq(0 .. 255)

LEMMA BytesAreNumbers ==
    ASSUME NEW d \in File, NEW i \in 1 .. Len(d), NEW j \in 1 .. Len(d)
    PROVE  \E x \in Nat, y \in Nat : x = d[i] /\ y = d[j]
<1>1. PICK S : S = 0 .. 255
    OBVIOUS
<1>2. d \in Seq(S)
    BY <1>1 DEF File
<1>3. d[i] \in S /\ d[j] \in S
    BY <1>2, ElementOfSeq
<1>4. PICK x, y : x = d[i] /\ y = d[j]
    OBVIOUS
<1>5. S \subseteq Nat
    BY <1>1
<1> QED BY <1>3, <1>4, <1>5

LEMMA AfterIsBehind ==
    ASSUME NEW d \in File, NEW c \in Nat, HasLength(d, c)
    PROVE  After(d, c) \in Nat /\ After(d, c) >= c + 3
<1>1. c + 2 \in 1 .. Len(d) /\ c + 3 \in 1 .. Len(d)
    BY DEF HasLength, File
<1>2. PICK x \in Nat, y \in Nat : x = d[c + 2] /\ y = d[c + 3]
    BY <1>1, BytesAreNumbers
<1>3. 256 * x + y >= 2 /\ After(d, c) = c + 1 + 256 * x + y
    BY <1>2 DEF HasLength, After
<1> QED BY <1>2, <1>3

LEMMA OneScanEnd ==
    ASSUME NEW d, NEW h \in Nat, NEW x \in Nat, NEW y \in Nat, h <= x,
           Coded(d, h, y), ScanEnds(d, x)
    PROVE  ~(x < y)
<1>1. x < y => x \in h .. y - 1
    OBVIOUS
<1> QED BY <1>1 DEF Coded, ScanEnds

LEMMA OnePart ==
    ASSUME NEW d \in File, NEW a \in Nat, NEW x, NEW y, Part(d, a, x), Part(d, a, y)
    PROVE  x = y
<1>0. Len(d) \in Nat
    BY DEF File
<1>1. PICK c \in a + 1 .. x - 1 :
          /\ Marker(d, a, c)
          /\ \/ d[c + 1] \in Standalones /\ x = c + 1
             \/ d[c + 1] \notin Standalones \cup {EOI, SOS} /\ HasLength(d, c) /\ x = After(d, c)
             \/ /\ d[c + 1] = SOS /\ HasLength(d, c) /\ After(d, c) <= x
                /\ Coded(d, After(d, c), x) /\ ScanEnds(d, x)
    BY DEF Part
<1>2. PICK e \in a + 1 .. y - 1 :
          /\ Marker(d, a, e)
          /\ \/ d[e + 1] \in Standalones /\ y = e + 1
             \/ d[e + 1] \notin Standalones \cup {EOI, SOS} /\ HasLength(d, e) /\ y = After(d, e)
             \/ /\ d[e + 1] = SOS /\ HasLength(d, e) /\ After(d, e) <= y
                /\ Coded(d, After(d, e), y) /\ ScanEnds(d, y)
    BY DEF Part
<1>3. e = c
    BY <1>0, <1>1, <1>2, OneMarker
<1>4. SOS \notin Standalones
    BY DEF SOS, Standalones, Restarts, SOI
<1>5. CASE d[c + 1] # SOS
    BY <1>1, <1>2, <1>3, <1>5
<1>6. CASE d[c + 1] = SOS
  <2>1. PICK h \in Nat : h = After(d, c) /\ h <= x /\ h <= y
      BY <1>1, <1>2, <1>3, <1>4, <1>6, AfterIsBehind
  <2>2. x \in Nat /\ y \in Nat
      BY <1>0 DEF Part
  <2>3. /\ Coded(d, h, x) /\ ScanEnds(d, x) /\ Coded(d, h, y) /\ ScanEnds(d, y)
      BY <1>1, <1>2, <1>3, <1>4, <1>6, <2>1
  <2> QED BY <2>1, <2>2, <2>3, OneScanEnd
<1> QED BY <1>5, <1>6

LEMMA Codes ==
    /\ EOI \notin Standalones /\ SOS \notin Standalones /\ EOI # SOS
    /\ InScan = {0} \cup Restarts /\ 255 \notin InScan
BY DEF EOI, SOS, SOI, Standalones, Restarts, InScan

\* Where the picture goes on, and where it does not.
LEMMA PartOrLast ==
    ASSUME NEW d \in File, NEW a \in Nat, NEW b, NEW e, Part(d, a, b)
    PROVE  ~LastPart(d, a, e)
<1>0. Len(d) \in Nat
    BY DEF File
<1>1. PICK c \in a + 1 .. b - 1 : Marker(d, a, c) /\ d[c + 1] # EOI
    BY Codes DEF Part
<1>2. SUFFICES ASSUME LastPart(d, a, e) PROVE FALSE
    OBVIOUS
<1>3. PICK f \in a + 1 .. Len(d) - 1 : Marker(d, a, f) /\ d[f + 1] = EOI
    BY <1>2 DEF LastPart
<1>4. f = c
    BY <1>0, <1>1, <1>3, OneMarker
<1> QED BY <1>1, <1>3, <1>4

LEMMA SourceFacts ==
    ASSUME NEW s \in Sources
    PROVE  /\ s.data \in File /\ Len(s.data) \in Nat /\ None \notin Nat
           /\ ~IsJpeg(s.data) => s.end = None
           /\ IsJpeg(s.data) =>
                 /\ 2 \in s.parts /\ s.parts \subseteq 2 .. Len(s.data)
                 /\ \A a \in s.parts : \/ \E b \in s.parts : Part(s.data, a, b)
                                       \/ LastPart(s.data, a, s.end)
                                       \/ s.end = None /\ BreaksOff(s.data, a)
<1>1. /\ s.data \in File /\ LaidOut(s) /\ None \notin Nat
    BY EncoderAssumption DEF File
<1>2. Len(s.data) \in Nat
    BY <1>1 DEF File
<1> QED BY <1>1, <1>2 DEF LaidOut

LEMMA GoesOn ==
    ASSUME NEW s \in Sources, IsJpeg(s.data), NEW a \in s.parts, NEW b, Part(s.data, a, b), b >= a
    PROVE  b \in s.parts
<1>1. PICK d : d = s.data
    OBVIOUS
<1>2. d \in File /\ Len(d) \in Nat /\ a \in Nat /\ b \in 0 .. Len(d)
    BY <1>1, SourceFacts DEF Part
<1>3. ~LastPart(d, a, s.end)
    BY <1>1, <1>2, PartOrLast
<1>4. \A x : Part(d, a, x) => x = b
    BY <1>1, <1>2, OnePart
<1>5. ~BreaksOff(d, a)
    BY <1>1, <1>2 DEF BreaksOff
<1> QED BY <1>1, <1>3, <1>4, <1>5, SourceFacts

\* A scan of the part at a, as far as p.
ScanOf(d, a, c, p) ==
    /\ Marker(d, a, c) /\ d[c + 1] = SOS /\ HasLength(d, c)
    /\ After(d, c) <= p /\ Coded(d, After(d, c), p)

(***************************************************************************)
(* Where the walk over a source stands: where a part of its picture        *)
(* begins, or behind a part that the file has lost the end of; or in the   *)
(* scan of one of its parts, between two of its bytes that belong together *)
(* at no time.                                                             *)
(***************************************************************************)
WalkAt(s) ==
    /\ data = s.data /\ walk.pos \in Nat
    /\ walk.pc \in {"segment", "scan", "found", "unknown"}
    /\ walk.pc \in {"segment", "scan"} => IsJpeg(s.data)
    /\ walk.pc = "segment" =>
          walk.pos \in s.parts \/ (walk.pos > Len(s.data) /\ s.end = None)
    /\ walk.pc = "scan" => \E a \in s.parts : \E c \in Nat : ScanOf(s.data, a, c, walk.pos)
    /\ walk.pc = "found" => s.end # None /\ walk.pos = s.end
    /\ walk.pc = "unknown" => s.end = None

LEMMA OpenWalk ==
    ASSUME NEW s \in Sources, Open(s.data)
    PROVE  WalkAt(s)'
<1>1. CASE IsJpeg(s.data)
  <2>1. data' = s.data /\ walk' = [pc |-> "segment", pos |-> 2]
      BY <1>1 DEF Open, IsJpeg
  <2> QED BY <1>1, <2>1, SourceFacts DEF WalkAt
<1>2. CASE ~IsJpeg(s.data)
  <2>1. data' = s.data /\ walk' = [pc |-> "unknown", pos |-> 0]
      BY <1>2 DEF Open, IsJpeg
  <2> QED BY <1>2, <2>1, SourceFacts DEF WalkAt
<1> QED BY <1>1, <1>2

LEMMA SegmentWalk ==
    ASSUME NEW s \in Sources, WalkAt(s), walk.pc = "segment", Walk
    PROVE  WalkAt(s)'
<1>0. PICK d, a : d = s.data /\ a = walk.pos
    OBVIOUS
<1>1. /\ data = d /\ a \in Nat /\ d \in File /\ Len(d) \in Nat /\ IsJpeg(d) /\ data' = data
    BY <1>0, SourceFacts DEF WalkAt, Walk, EndOfImage, Standalone, Segment, CannotTell, Entropy,
       EndOfScan, ScanBreaksOff, Go
<1>2. \A c : IsCode(c) <=> Marker(d, a, c)
    BY <1>0, <1>1 DEF IsCode, Marker, Size, At
<1>3. \A c \in Nat : Measured(c) <=> HasLength(d, c)
    BY <1>1 DEF Measured, HasLength, Size, Length, At
<1>7. \A c \in 2 .. Size : c \in Nat /\ At(c) = d[c + 1]
    BY <1>1 DEF At, Size
<1>4. \/ EndOfImage \/ Standalone \/ Segment \/ CannotTell
    BY DEF Walk, Entropy, EndOfScan, ScanBreaksOff
<1>5. CASE a > Len(d) /\ s.end = None
  <2>1. \A c : ~IsCode(c)
      BY <1>1, <1>2, <1>5 DEF Marker
  <2>2. walk' = [pc |-> "unknown", pos |-> 0]
      BY <1>4, <2>1 DEF EndOfImage, Standalone, Segment, CannotTell, Go
  <2> QED BY <1>0, <1>1, <1>5, <2>2 DEF WalkAt
<1>6. CASE a \in s.parts
  <2>0. a >= 2 /\ a <= Len(d) /\ \A c : Marker(d, a, c) => c \in Nat /\ c > a /\ c < Len(d)
    <3>1. a \in 2 .. Len(d)
        BY <1>0, <1>1, <1>6, SourceFacts
    <3> QED BY <1>1, <3>1 DEF Marker
  <2>1. \/ \E b \in s.parts : Part(d, a, b)
        \/ LastPart(d, a, s.end)
        \/ s.end = None /\ BreaksOff(d, a)
      BY <1>0, <1>1, <1>6, SourceFacts
  <2>2. CASE EndOfImage
    <3>1. PICK c \in Nat : /\ Marker(d, a, c) /\ d[c + 1] = EOI
                           /\ walk' = [pc |-> "found", pos |-> c + 1]
        BY <1>2, <1>7, <2>2, Zenon DEF EndOfImage, Go
    <3>2. LastPart(d, a, c + 1)
        BY <1>1, <2>0, <3>1 DEF LastPart
    <3>3. \A b : ~Part(d, a, b)
        BY <1>1, <3>2, PartOrLast
    <3>4. ~BreaksOff(d, a)
        BY <1>1, <2>0, <3>1, <3>2 DEF BreaksOff
    <3>5. PICK f \in a + 1 .. Len(d) - 1 : Marker(d, a, f) /\ s.end = f + 1
        BY <2>1, <3>3, <3>4 DEF LastPart
    <3>6. f = c
        BY <1>1, <3>1, <3>5, OneMarker
    <3>7. s.end = c + 1 /\ s.end # None
        BY <3>1, <3>5, <3>6, SourceFacts
    <3> QED BY <1>0, <1>1, <3>1, <3>7 DEF WalkAt
  <2>3. CASE Standalone
    <3>1. PICK c \in Nat : /\ Marker(d, a, c) /\ d[c + 1] \in Standalones
                           /\ walk' = [pc |-> "segment", pos |-> c + 1]
        BY <1>2, <1>7, <2>3, Zenon DEF Standalone, Go
    <3>2. Part(d, a, c + 1)
        BY <1>1, <2>0, <3>1 DEF Part
    <3>3. c + 1 \in s.parts
        BY <1>0, <1>1, <1>6, <2>0, <3>1, <3>2, GoesOn
    <3> QED BY <1>0, <1>1, <3>1, <3>3 DEF WalkAt
  <2>4. CASE Segment
    <3>1. PICK c \in Nat :
              /\ Marker(d, a, c) /\ d[c + 1] \notin Standalones \cup {EOI} /\ HasLength(d, c)
              /\ walk' = [pc |-> IF d[c + 1] = SOS THEN "scan" ELSE "segment",
                          pos |-> c + 1 + Length(c + 1)]
        BY <1>2, <1>3, <1>7, <2>4, Zenon DEF Segment, Go
    <3>2. PICK h \in Nat : h = After(d, c) /\ h >= c + 3 /\ c + 1 + Length(c + 1) = h
      <4>1. After(d, c) \in Nat /\ After(d, c) >= c + 3
          BY <1>1, <3>1, AfterIsBehind
      <4>2. PICK x \in Nat, y \in Nat : x = d[c + 2] /\ y = d[c + 3]
        <5>1. c + 2 \in 1 .. Len(d) /\ c + 3 \in 1 .. Len(d)
            BY <1>1, <3>1 DEF HasLength
        <5> QED BY <1>1, <5>1, BytesAreNumbers
      <4>3. Length(c + 1) = 256 * x + y
        <5>1. At(c + 1) = x /\ At((c + 1) + 1) = y
          <6>1. (c + 1) + 1 = c + 2 /\ ((c + 1) + 1) + 1 = c + 3
              OBVIOUS
          <6> QED BY <1>1, <4>2, <6>1 DEF At
        <5> QED BY <5>1 DEF Length
      <4>4. After(d, c) = c + 1 + 256 * x + y
          BY <4>2 DEF After
      <4> QED BY <4>1, <4>3, <4>4
    <3>3. CASE d[c + 1] = SOS
      <4>1. walk' = [pc |-> "scan", pos |-> h]
          BY <3>1, <3>2, <3>3
      <4>2. Coded(d, h, h)
          BY DEF Coded
      <4>3. ScanOf(d, a, c, h)
          BY <3>1, <3>2, <3>3, <4>2 DEF ScanOf
      <4> QED BY <1>0, <1>1, <1>6, <4>1, <4>3 DEF WalkAt
    <3>4. CASE d[c + 1] # SOS /\ h <= Len(d)
      <4>1. c \in a + 1 .. h - 1 /\ h \in 0 .. Len(d)
          BY <1>1, <2>0, <3>1, <3>2, <3>4
      <4>2. Part(d, a, h)
          BY <3>1, <3>2, <3>4, <4>1 DEF Part
      <4>3. h \in s.parts
          BY <1>0, <1>1, <1>6, <3>2, <4>1, <4>2, GoesOn
      <4> QED BY <1>0, <1>1, <3>1, <3>2, <3>4, <4>3 DEF WalkAt
    <3>5. CASE d[c + 1] # SOS /\ h > Len(d)
      <4>1. ~LastPart(d, a, s.end)
          BY <1>1, <3>1, OneMarker DEF LastPart
      <4>2. ASSUME NEW b \in s.parts, Part(d, a, b) PROVE FALSE
        <5>1. PICK f \in a + 1 .. b - 1 :
                /\ Marker(d, a, f)
                /\ d[f + 1] \in Standalones \/ d[f + 1] = SOS \/ b = After(d, f)
            BY <4>2 DEF Part
        <5>2. f = c
            BY <1>1, <3>1, <5>1, OneMarker
        <5>3. b <= Len(d)
            BY <1>1, <4>2 DEF Part
        <5> QED BY <1>1, <3>1, <3>2, <3>5, <5>1, <5>2, <5>3
      <4>3. s.end = None
          BY <2>1, <4>1, <4>2
      <4> QED BY <1>0, <1>1, <3>1, <3>2, <3>5, <4>3 DEF WalkAt
    <3> QED BY <1>1, <3>2, <3>3, <3>4, <3>5
  <2>5. CASE CannotTell
    <3>1. /\ walk' = [pc |-> "unknown", pos |-> 0]
          /\ \A c : Marker(d, a, c) => ~(d[c + 1] \in Standalones \cup {EOI} \/ HasLength(d, c))
      <4>1. \A c : Marker(d, a, c) => c \in 2 .. Size /\ At(c) = d[c + 1]
          BY <1>1, <2>0 DEF Size, At
      <4> QED BY <1>2, <1>3, <2>0, <2>5, <4>1 DEF CannotTell, Go
    <3>2. ~LastPart(d, a, s.end)
        BY <3>1 DEF LastPart
    <3>3. \A b : ~Part(d, a, b)
        BY <3>1 DEF Part
    <3> QED BY <1>0, <1>1, <2>1, <3>1, <3>2, <3>3 DEF WalkAt
  <2> QED BY <1>4, <2>2, <2>3, <2>4, <2>5
<1> QED BY <1>0, <1>5, <1>6 DEF WalkAt

LEMMA ScanWalk ==
    ASSUME NEW s \in Sources, WalkAt(s), walk.pc = "scan", Walk
    PROVE  WalkAt(s)'
<1>0. PICK d, p : d = s.data /\ p = walk.pos
    OBVIOUS
<1>1. /\ data = d /\ p \in Nat /\ d \in File /\ Len(d) \in Nat /\ IsJpeg(d) /\ data' = data
    BY <1>0, SourceFacts DEF WalkAt, Walk, EndOfImage, Standalone, Segment, CannotTell, Entropy,
       EndOfScan, ScanBreaksOff, Go
<1>2. PICK a \in s.parts : \E f \in Nat : ScanOf(d, a, f, p)
    BY <1>0 DEF WalkAt
<1>3. PICK c \in Nat : ScanOf(d, a, c, p)
    BY <1>2
<1>4. PICK h \in Nat : h = After(d, c) /\ h >= c + 3 /\ h <= p
    BY <1>1, <1>3, AfterIsBehind DEF ScanOf
<1>5. /\ Marker(d, a, c) /\ d[c + 1] = SOS /\ HasLength(d, c) /\ Coded(d, h, p)
      /\ a \in Nat /\ a <= Len(d) /\ c > a
  <2>1. a \in 2 .. Len(d)
      BY <1>0, <1>1, <1>2, SourceFacts
  <2> QED BY <1>1, <1>3, <1>4, <2>1 DEF ScanOf, Marker
<1>6. \A i : IsMark(i) <=> /\ i \in p .. Len(d) - 2 /\ d[i + 1] = 255
                           /\ \A j \in p .. i - 1 : d[j + 1] # 255
    BY <1>0, <1>1 DEF IsMark, At, Size
<1>7. \A i \in 2 .. Size : i \in Nat /\ At(i + 1) = d[i + 2]
  <2>1. ASSUME NEW i \in Nat PROVE (i + 1) + 1 = i + 2
      OBVIOUS
  <2> QED BY <1>1, <2>1 DEF At, Size
<1>8. Entropy \/ EndOfScan \/ ScanBreaksOff
    BY DEF Walk, EndOfImage, Standalone, Segment, CannotTell
<1>9. CASE Entropy
  <2>1. PICK i \in Nat : /\ IsMark(i) /\ d[i + 2] \in InScan
                         /\ walk' = [pc |-> "scan", pos |-> i + 2]
      BY <1>7, <1>9, Codes, Zenon DEF Entropy, Go
  <2>2. ASSUME NEW j \in h .. (i + 2) - 1, d[j + 1] = 255
        PROVE  j + 1 < i + 2 /\ d[j + 2] \in InScan
    <3>1. j \in Nat /\ i >= p
        BY <1>6, <2>1
    <3>2. CASE j < p
      <4>1. j \in h .. p - 1
          BY <1>1, <1>4, <3>1, <3>2
      <4>2. j + 1 < p /\ d[j + 2] \in InScan
          BY <1>5, <2>2, <4>1 DEF Coded
      <4> QED BY <1>1, <3>1, <4>2
    <3>3. CASE j >= p /\ j < i
      <4>1. j \in p .. i - 1
          BY <1>1, <3>1, <3>3
      <4> QED BY <1>6, <2>1, <2>2, <4>1
    <3>4. CASE j = i
        BY <2>1, <3>4
    <3>5. CASE j = i + 1
      <4>1. j + 1 = i + 2
          BY <3>5
      <4> QED BY <2>1, <2>2, <4>1, Codes
    <3> QED BY <1>1, <3>1, <3>2, <3>3, <3>4, <3>5
  <2>3. Coded(d, h, i + 2)
      BY <2>2 DEF Coded
  <2>4. i + 2 \in Nat /\ h <= i + 2
      BY <1>1, <1>4, <1>6, <2>1
  <2>5. ScanOf(d, a, c, i + 2)
      BY <1>4, <1>5, <2>3, <2>4 DEF ScanOf
  <2> QED BY <1>0, <1>1, <1>2, <2>1, <2>4, <2>5 DEF WalkAt
<1>10. CASE EndOfScan
  <2>1. PICK i \in Nat : /\ IsMark(i) /\ d[i + 2] \notin InScan
                         /\ walk' = [pc |-> "segment", pos |-> i]
      BY <1>7, <1>10, Codes, Zenon DEF EndOfScan, Go
  <2>2. i >= p /\ i + 1 < Len(d) /\ i \in 0 .. Len(d) /\ d[i + 1] = 255
      BY <1>1, <1>6, <2>1
  <2>3. ASSUME NEW j \in h .. i - 1, d[j + 1] = 255
        PROVE  j + 1 < i /\ d[j + 2] \in InScan
    <3>1. CASE j < p
      <4>1. j \in h .. p - 1
          BY <1>1, <1>4, <3>1
      <4>2. j + 1 < p /\ d[j + 2] \in InScan
          BY <1>5, <2>3, <4>1 DEF Coded
      <4> QED BY <1>1, <1>4, <2>2, <4>2
    <3>2. CASE j >= p
      <4>1. j \in p .. i - 1
          BY <1>1, <1>4, <3>2
      <4> QED BY <1>6, <2>1, <2>3, <4>1
    <3> QED BY <1>1, <1>4, <3>1, <3>2
  <2>4. Coded(d, h, i) /\ ScanEnds(d, i)
      BY <2>1, <2>2, <2>3 DEF Coded, ScanEnds
  <2>5. c \in a + 1 .. i - 1 /\ h <= i /\ i >= a
      BY <1>1, <1>4, <1>5, <2>2
  <2>6. Part(d, a, i)
      BY <1>4, <1>5, <2>2, <2>4, <2>5 DEF Part
  <2>7. i \in s.parts
      BY <1>0, <1>1, <2>5, <2>6, GoesOn
  <2> QED BY <1>0, <1>1, <2>1, <2>7 DEF WalkAt
<1>11. CASE ScanBreaksOff
  <2>1. walk' = [pc |-> "unknown", pos |-> 0] /\ \A i \in 2 .. Size : ~IsMark(i)
      BY <1>11 DEF ScanBreaksOff, Go
  <2>2. ~LastPart(d, a, s.end)
      BY <1>1, <1>5, OneMarker, Codes DEF LastPart
  <2>3. ASSUME NEW b \in s.parts, Part(d, a, b) PROVE FALSE
    <3>1. PICK f \in a + 1 .. b - 1 :
            /\ Marker(d, a, f)
            /\ \/ d[f + 1] # SOS
               \/ After(d, f) <= b /\ Coded(d, After(d, f), b) /\ ScanEnds(d, b)
        BY <2>3, Codes DEF Part
    <3>2. f = c
        BY <1>1, <1>5, <3>1, OneMarker
    <3>3. h <= b /\ ScanEnds(d, b) /\ b \in Nat
        BY <1>1, <1>4, <1>5, <2>3, <3>1, <3>2 DEF Part
    <3>4. ~(b < p)
        BY <1>1, <1>4, <1>5, <3>3, OneScanEnd
    <3>5. PICK T : T = {i \in p .. Len(d) - 2 : d[i + 1] = 255}
        OBVIOUS
    <3>6. b \in T /\ T \in SUBSET Nat
        BY <1>1, <3>3, <3>4, <3>5 DEF ScanEnds
    <3>7. PICK n \in T : \A m \in T : n <= m
        BY <3>6, LeastNat
    <3>8. n \in p .. Len(d) - 2 /\ d[n + 1] = 255
        BY <3>5
    <3>9. ASSUME NEW j \in p .. n - 1 PROVE d[j + 1] # 255
      <4>1. j \in p .. Len(d) - 2 /\ ~(n <= j)
          BY <1>1, <3>8
      <4> QED BY <3>5, <3>7, <4>1
    <3>10. IsMark(n) /\ n \in 2 .. Size
        BY <1>1, <1>4, <1>6, <3>8, <3>9 DEF Size
    <3> QED BY <2>1, <3>10
  <2>4. s.end = None
      BY <1>0, <1>1, <1>2, <2>2, <2>3, SourceFacts
  <2> QED BY <1>0, <1>1, <2>1, <2>4 DEF WalkAt
<1> QED BY <1>8, <1>9, <1>10, <1>11

LEMMA WalkFollows ==
    ASSUME NEW s \in Sources, WalkAt(s), Walk
    PROVE  WalkAt(s)'
<1>1. walk.pc = "segment" \/ walk.pc = "scan"
    BY DEF Walk, EndOfImage, Standalone, Segment, CannotTell, Entropy, EndOfScan, ScanBreaksOff
<1> QED BY <1>1, SegmentWalk, ScanWalk

\* The steps behind the question about the walk; a job only gets there with a
\* still that has nothing attached.
Attached(s) == s.end # None /\ Len(s.data) - s.end > MaxHarmless

BeforeTheAnswer == {"idle", "download", "open", "walk", "failed", "skipped"}

KeptInv ==
    Still => /\ job.pc = "walk" => WalkAt(job.src)
             /\ Attached(job.src) => job.pc \in BeforeTheAnswer
             /\ job.why = "embedded_media" => Attached(job.src) \/ job.src.motion

LEMMA KeptOnward ==
    ASSUME KeptInv, job.pc # "idle", job'.src = job.src, job'.pc # "walk",
           job'.pc \in BeforeTheAnswer \/ job.pc \notin BeforeTheAnswer
               \/ ~Still \/ ~Attached(job.src),
           \/ job'.why = job.why \/ job'.why # "embedded_media"
           \/ Attached(job.src) \/ job.src.motion
    PROVE  KeptInv'
<1> SUFFICES ASSUME Still'
             PROVE  /\ Attached(job.src) => job'.pc \in BeforeTheAnswer
                    /\ job'.why = "embedded_media" => Attached(job.src) \/ job.src.motion
    BY DEF KeptInv, Attached
<1>1. Still
    BY DEF Still
<1> QED BY <1>1 DEF KeptInv

LEMMA KeptStep ==
    ASSUME JobInv, KeptInv, [Next]_<<svars, jvars>>
    PROVE  KeptInv'
<1>1. CASE UNCHANGED jvars
  <2>1. job' = job /\ data' = data /\ walk' = walk
      BY <1>1 DEF jvars
  <2> QED BY <2>1 DEF KeptInv, Still, WalkAt, Attached
<1>2. CASE Begin
  <2>1. job'.pc = "download" /\ job'.why = None
      BY <1>2 DEF Begin
  <2> QED BY <2>1, EncoderAssumption DEF KeptInv, BeforeTheAnswer
<1>3. CASE JobStep /\ ~Begin
  <2>0. JobOK /\ DOMAIN job = JobFields /\ job.pc \in Working \cup Ends /\ job.src \in Sources
    <3>1. job.pc # "idle"
        BY <1>3 DEF JobStep, Fail, Working, Download, OpenStill, WalkStill, AskWalk, AskTags,
           AskQuality, ProbeSource, RunEncoder, EncoderRefuses, CopyMetadata, Inspect,
           VerifyMetadata, CheckSanity, In
    <3> QED BY <3>1 DEF JobInv, Idle, JobOK, Plan
  <2>1. job.pc # "idle"
      BY <2>0 DEF Working, Ends
  <2>2. PICK s \in Sources : s = job.src
      BY <2>0
  <2>3. CASE OpenStill
    <3>1. Open(s.data) /\ job'.src = s /\ job'.pc = "walk" /\ job'.why = job.why /\ job.pc = "open"
        BY <2>0, <2>2, <2>3 DEF OpenStill, GoOn, In, JobFields
    <3>2. WalkAt(s)'
        BY <3>1, OpenWalk
    <3>3. WalkAt(job.src)'
        BY <3>1, <3>2 DEF WalkAt
    <3> QED BY <2>2, <3>1, <3>3 DEF KeptInv, Still, Attached, BeforeTheAnswer
  <2>4. CASE WalkStill
    <3>1. Walk /\ job' = job /\ job.pc = "walk"
        BY <2>4 DEF WalkStill, In
    <3>2. CASE Still
      <4>1. WalkAt(s)
          BY <2>2, <3>1, <3>2 DEF KeptInv
      <4>2. WalkAt(s)'
          BY <3>1, <4>1, WalkFollows
      <4>3. WalkAt(job.src)'
          BY <2>2, <3>1, <4>2 DEF WalkAt
      <4> QED BY <3>1, <3>2, <4>3 DEF KeptInv, Still, Attached
    <3>3. CASE ~Still
        BY <3>1, <3>3 DEF KeptInv, Still
    <3> QED BY <3>2, <3>3
  <2>5. CASE AskWalk
    <3>1. job.pc = "walk" /\ Walked
        BY <2>5 DEF AskWalk, In
    <3>2. Still => (Payload <=> Attached(s))
      <4>1. SUFFICES ASSUME WalkAt(s) PROVE Payload <=> Attached(s)
          BY <2>2, <3>1 DEF KeptInv
      <4> QED BY <3>1, <4>1 DEF WalkAt, Walked, Payload, Size, Attached
    <3>3. CASE Payload /\ Skip("embedded_media")
      <4>1. job'.pc = "skipped" /\ job'.src = job.src
          BY <2>0, <3>3 DEF Skip, JobFields
      <4>2. CASE Still
          BY <2>1, <2>2, <3>2, <3>3, <4>1, <4>2, KeptOnward DEF BeforeTheAnswer
      <4>3. CASE ~Still
          BY <4>1, <4>3, <2>1 DEF KeptInv, Still
      <4> QED BY <4>2, <4>3
    <3>4. CASE ~Payload /\ GoOn("tags")
      <4>1. job'.pc = "tags" /\ job'.src = job.src /\ job'.why = job.why
          BY <2>0, <3>4 DEF GoOn, JobFields
      <4> QED BY <2>1, <2>2, <3>2, <3>4, <4>1, KeptOnward
    <3> QED BY <2>5, <3>3, <3>4 DEF AskWalk
  <2>6. CASE AskTags
    <3>1. job.pc = "tags"
        BY <2>6 DEF AskTags, In
    <3>2. \/ job.src.motion /\ Skip("embedded_media")
          \/ GoOn("probe") \/ GoOn("quality")
        BY <2>6 DEF AskTags
    <3>3. CASE job.src.motion /\ Skip("embedded_media")
      <4>1. job'.src = job.src /\ job'.pc # "walk"
          BY <2>0, <3>3 DEF Skip, JobFields
      <4> QED BY <2>1, <3>1, <3>3, <4>1, KeptOnward DEF BeforeTheAnswer
    <3>4. CASE GoOn("probe") \/ GoOn("quality")
      <4>1. job'.src = job.src /\ job'.pc # "walk" /\ job'.why = job.why
          BY <2>0, <3>4 DEF GoOn, JobFields
      <4> QED BY <2>1, <3>1, <4>1, KeptOnward DEF BeforeTheAnswer
    <3> QED BY <3>2, <3>3, <3>4
  <2>7. CASE Download
    <3>1. PICK p : /\ p = IF job.src.type = "VIDEO" THEN "probe" ELSE "open"
                   /\ job' = [job EXCEPT !.pc = p]
        BY <2>7 DEF Download, GoOn
    <3>2. job'.src = job.src /\ job'.pc = p /\ job'.why = job.why
        BY <2>0, <3>1 DEF JobFields
    <3> QED BY <2>1, <3>1, <3>2, KeptOnward DEF BeforeTheAnswer, Still
  <2>8. CASE Fail
    <3>1. job'.src = job.src /\ job'.pc = "failed" /\ job'.why = job.why
        BY <2>0, <2>8 DEF Fail, GoOn, JobFields
    <3> QED BY <2>1, <3>1, KeptOnward DEF BeforeTheAnswer
  <2>9. CASE \/ AskQuality \/ ProbeSource \/ RunEncoder \/ EncoderRefuses \/ CopyMetadata
             \/ Inspect \/ VerifyMetadata \/ CheckSanity
    <3>1. job.pc \notin BeforeTheAnswer
        BY <2>9 DEF AskQuality, ProbeSource, RunEncoder, EncoderRefuses, CopyMetadata, Inspect,
           VerifyMetadata, CheckSanity, In, BeforeTheAnswer
    <3>2. job'.src = job.src /\ job'.pc # "walk" /\ (job'.why = job.why \/ job'.why # "embedded_media")
      <4>1. CASE AskQuality
        <5>1. Skip("source_quality") \/ GoOn("probe")
            BY <4>1 DEF AskQuality
        <5> QED BY <2>0, <5>1 DEF Skip, GoOn, JobFields
      <4>2. CASE ProbeSource
        <5>1. PICK e, x : job' = [job EXCEPT !.pc = "encode", !.known = e, !.seen = x]
            BY <4>2 DEF ProbeSource
        <5> QED BY <2>0, <5>1 DEF JobFields
      <4>3. CASE RunEncoder
          BY <2>0, <4>3 DEF RunEncoder, GoOn, JobFields
      <4>4. CASE EncoderRefuses
        <5>1. PICK e, p : /\ job' = [job EXCEPT !.aac = e, !.pc = p]
                          /\ p \in {"retry", "failed"}
            BY <4>4, Zenon DEF EncoderRefuses
        <5> QED BY <2>0, <5>1 DEF JobFields
      <4>5. CASE CopyMetadata
          BY <2>0, <4>5 DEF CopyMetadata, GoOn, JobFields
      <4>6. CASE Inspect
        <5>1. PICK p : p = IF job.preset.exiftool_copy THEN "verify" ELSE "sanity"
            OBVIOUS
        <5>2. PICK e, x : job' = [job EXCEPT !.pc = p, !.known = @ /\ e,
                                             !.out = x, !.hash = dir[OutputName]]
            BY <4>6, <5>1 DEF Inspect
        <5> QED BY <2>0, <5>1, <5>2 DEF JobFields
      <4>7. CASE VerifyMetadata
        <5>1. GoOn("failed") \/ GoOn("sanity")
            BY <4>7 DEF VerifyMetadata
        <5> QED BY <2>0, <5>1 DEF GoOn, JobFields
      <4>8. CASE CheckSanity
        <5>1. GoOn("accepted") \/ Skip("no_gain")
            BY <4>8 DEF CheckSanity
        <5> QED BY <2>0, <5>1 DEF Skip, GoOn, JobFields
      <4> QED BY <2>9, <4>1, <4>2, <4>3, <4>4, <4>5, <4>6, <4>7, <4>8
    <3> QED BY <2>1, <3>1, <3>2, KeptOnward
  <2> QED BY <1>3, <2>3, <2>4, <2>5, <2>6, <2>7, <2>8, <2>9 DEF JobStep
<1> QED BY <1>1, <1>2, <1>3 DEF Next

(***************************************************************************)
(* No still with something attached to it is encoded, and none is taken    *)
(* for one: in every file that is laid out as a JPEG, of any length and    *)
(* with any bytes in its segments, its scans and behind it, the walk finds *)
(* the end of the picture where it is, and in one that breaks off it finds *)
(* none.                                                                   *)
(***************************************************************************)
THEOREM WhatIsAttachedIsKept == Spec => []AttachedMediaIsKept
<1>1. Init => KeptInv
    BY DEF Init, Idle, KeptInv, Still
<1>2. JobInv /\ KeptInv /\ [Next]_<<svars, jvars>> => KeptInv'
    BY KeptStep
<1>3. EncoderInv => JobInv
    BY DEF EncoderInv
<1>4. KeptInv => AttachedMediaIsKept
    BY DEF KeptInv, AttachedMediaIsKept, Attached, BeforeTheAnswer, Still
<1> QED BY <1>1, <1>2, <1>3, <1>4, EncoderAlways, PTL DEF Spec

=============================================================================
