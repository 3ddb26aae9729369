------------------------------ MODULE Encoder ------------------------------
(***************************************************************************)
(* The media steps of one job, from the download to the verdict: what      *)
(* _run_media_steps of pipeline.py does between its guards and its upload, *)
(* and the functions of encoder.py it does it with.  An action is one      *)
(* external command, or one decision about a file.                         *)
(***************************************************************************)
EXTENDS Startup, JpegWalk, MetadataDiff

CONSTANTS
    Sources,      \* originals: [type, ext, data, parts, end, motion, quality, content]
    Alterations,  \* what a run of an encoder may change, as some of the fields of a content
    Carried       \* the tags exiftool may leave on a file it copies them to

\* A content is what a file holds, a record with these fields.  baked and turn
\* are quarter turns, those in the pixels and those in the orientation tag.
\* parts, end and motion are what a file really is: where the parts of its
\* picture begin, where the last one ends (None in a damaged one), and whether
\* tags call it a motion photo.

Fields == {"bytes", "tags", "baked", "turn", "size", "streams", "audio", "codec", "date",
           "depth", "hdr", "duration", "whole"}

LaidOut(s) ==
    IF IsJpeg(s.data)
    THEN /\ 2 \in s.parts /\ s.parts \subseteq 2 .. Len(s.data)
         /\ \A a \in s.parts : \/ \E b \in s.parts : Part(s.data, a, b)
                                \/ LastPart(s.data, a, s.end)
                                \/ (s.end = None /\ BreaksOff(s.data, a))
    ELSE s.end = None

\* A source is whole, with its pixels as they were taken.  A run that ends well
\* leaves a whole file in the codec it was asked for; what it does to the
\* orientation is in Turned.  It may resize the picture, but it does not
\* stretch it into one with the two edges swapped.
ASSUME EncoderAssumption ==
    /\ None \notin Nat /\ None # "embedded_media"
    /\ \A s \in Sources :
          /\ s.data \in Seq(0 .. 255) /\ LaidOut(s)
          /\ DOMAIN s.content = Fields
          /\ s.content.whole /\ s.content.baked = 0 /\ s.content.turn \in 0 .. 3
          /\ s.content.size \in Nat \X Nat
    /\ \A a \in Alterations :
          /\ DOMAIN a \subseteq Fields \ {"baked", "turn", "codec", "whole"}
          /\ "size" \in DOMAIN a =>
                /\ a.size \in Nat \X Nat
                /\ \A s \in Sources :
                      a.size \notin {s.content.size, <<s.content.size[2], s.content.size[1]>>}

VARIABLES
    job,    \* the job's local state
    dir     \* its temporary directory: the files by their names

jvars == <<job, dir, data, walk>>

Idle == [pc |-> "idle"]

Working == {"download", "open", "walk", "tags", "quality", "probe", "encode", "retry",
            "written", "inspect", "verify", "sanity"}

-----------------------------------------------------------------------------
(* Presets, names and files.                                               *)

Accepts(p, s) == p.type = s.type /\ (p.extensions = {} \/ s.ext \in p.extensions)
PresetFor(s)  == {i \in DOMAIN boot.presets :
                     /\ Accepts(boot.presets[i], s)
                     /\ \A j \in 1 .. i - 1 : ~Accepts(boot.presets[j], s)}

Effective(k) == IF job.preset[k] = None THEN Setting(k) ELSE job.preset[k]

SourceName == <<"clip", job.src.ext>>

\* Mutant: the output may have the name of the source.
OutputNamePlain == <<"clip", job.preset.suffix>>

OutputName == <<IF job.preset.suffix = job.src.ext THEN "clip.encoded" ELSE "clip", job.preset.suffix>>

Store(name, content) ==
    dir' = [n \in DOMAIN dir \cup {name} |-> IF n = name THEN content ELSE dir[n]]
Removed(name) == [n \in DOMAIN dir \ {name} |-> dir[n]]

Overlaid(content, some) ==
    [k \in DOMAIN content |-> IF k \in DOMAIN some THEN some[k] ELSE content[k]]

In(pc) == job.pc = pc /\ boot.pc = "up"
GoOn(pc) == job' = [job EXCEPT !.pc = pc]
Skip(why) == job' = [job EXCEPT !.pc = "skipped", !.why = why]

-----------------------------------------------------------------------------
(* Before the encode.                                                      *)

Begin ==
    /\ In("idle")
    /\ \E s \in Sources : \E i \in PresetFor(s) :
           job' = [pc |-> "download", src |-> s, preset |-> boot.presets[i], why |-> None,
                   aac |-> FALSE, known |-> TRUE, seen |-> None, out |-> None, hash |-> None]
    /\ UNCHANGED <<dir, data, walk>>

\* Any command that fails, times out or finds no space ends the attempt.
Fail == /\ job.pc \in Working
        /\ GoOn("failed")
        /\ UNCHANGED <<dir, data, walk>>

Download ==
    /\ In("download")
    /\ Store(SourceName, job.src.content)
    /\ GoOn(IF job.src.type = "VIDEO" THEN "probe" ELSE "open")
    /\ UNCHANGED <<data, walk>>

OpenStill == In("open") /\ Open(job.src.data) /\ GoOn("walk") /\ UNCHANGED dir

WalkStill == In("walk") /\ Walk /\ UNCHANGED <<job, dir>>

\* embedded_media_reason, first half.
AskWalk ==
    /\ In("walk") /\ Walked
    /\ IF Payload THEN Skip("embedded_media") ELSE GoOn("tags")
    /\ UNCHANGED <<dir, data, walk>>

\* Second half.  exiftool may be missing or fail, which counts as no.
AskTags ==
    /\ In("tags")
    /\ \E answer \in {job.src.motion, FALSE} :
           IF answer THEN Skip("embedded_media")
           ELSE GoOn(IF job.preset.min_source_quality = None THEN "probe" ELSE "quality")
    /\ UNCHANGED <<dir, data, walk>>

\* identify may be missing or fail, which counts as good enough.
AskQuality ==
    /\ In("quality")
    /\ \E answer \in {job.src.quality, None} :
           IF answer # None /\ answer < job.preset.min_source_quality
           THEN Skip("source_quality") ELSE GoOn("probe")
    /\ UNCHANGED <<dir, data, walk>>

\* probe: of a still, exiftool tells date and orientation.  Without its answer
\* there is no rotation, and a date only if ffprobe has met one.
Answers == IF job.src.type = "VIDEO" THEN {TRUE} ELSE BOOLEAN

Probed(content, exif) ==
    IF exif THEN {content}
    ELSE {[content EXCEPT !.turn = 0, !.date = met] : met \in {content.date, FALSE}}

ProbeSource ==
    /\ In("probe")
    /\ \E exif \in Answers :
           \E seen \in Probed(dir[SourceName], exif) :
               job' = [job EXCEPT !.pc = "encode", !.known = exif, !.seen = seen]
    /\ UNCHANGED <<dir, data, walk>>

-----------------------------------------------------------------------------
(* encode.                                                                 *)

\* What a run may leave behind.  An encoder keeps the orientation tag, turns
\* the pixels and drops the tag, or drops it; -auto-orient turns them.
Turned(content) ==
    LET t == content.turn
        all == {[baked |-> 0, turn |-> t], [baked |-> t, turn |-> 0], [baked |-> 0, turn |-> 0]}
    IN IF job.preset.auto_orient THEN {[baked |-> t, turn |-> 0]} ELSE all

Swapped(size, turn) == IF turn % 2 = 1 THEN <<size[2], size[1]>> ELSE size

CopiesAudio == job.preset.copies_audio /\ ~job.aac
Refused     == CopiesAudio /\ job.src.content.codec = "unmuxable"

Output(r, a) ==
    LET source == dir[SourceName]
        audio  == IF CopiesAudio THEN job.src.content.codec ELSE "aac"
        turned == [source EXCEPT !.codec = audio, !.size = Swapped(@, r.baked)]
    IN Overlaid(Overlaid(turned, r), a)

\* Mutant: an output is taken for this run's that an earlier one has left.
RunEncoderKeeps ==
    /\ In("encode") \/ In("retry")
    /\ ~Refused /\ SourceName \in DOMAIN Removed(OutputName)
    /\ \/ \E r \in Turned(dir[SourceName]), a \in Alterations : Store(OutputName, Output(r, a))
       \/ dir' = dir
    /\ GoOn("written")
    /\ UNCHANGED <<data, walk>>

\* What is there of the output is removed first.  The command exits with 0,
\* and mostly with an output.
RunEncoder ==
    /\ In("encode") \/ In("retry")
    /\ ~Refused /\ SourceName \in DOMAIN Removed(OutputName)
    /\ \/ \E r \in Turned(dir[SourceName]), a \in Alterations : Store(OutputName, Output(r, a))
       \/ dir' = Removed(OutputName)
    /\ GoOn("written")
    /\ UNCHANGED <<data, walk>>

\* The container will not carry the audio: once more with the audio encoded,
\* if that is allowed, otherwise the job has failed.
EncoderRefuses ==
    /\ In("encode") /\ Refused
    /\ Store(OutputName, [job.src.content EXCEPT !.whole = FALSE, !.bytes = 1])
    /\ job' = [job EXCEPT !.aac = Effective("transcode_unsupported_audio"),
                          !.pc = IF Effective("transcode_unsupported_audio")
                                 THEN "retry" ELSE "failed"]
    /\ UNCHANGED <<data, walk>>

\* An output, not empty, gets the metadata of the source from exiftool; the
\* orientation only if the command has not turned the pixels.
CopyMetadata ==
    /\ In("written")
    /\ OutputName \in DOMAIN dir /\ dir[OutputName].bytes > 0
    /\ IF job.preset.exiftool_copy
       THEN \E t \in Carried \cup {dir[SourceName].tags} :
                Store(OutputName,
                      [dir[OutputName] EXCEPT
                         !.tags = t,
                         !.turn = IF job.preset.normalize_orientation THEN 0
                                  ELSE dir[SourceName].turn])
       ELSE UNCHANGED dir
    /\ GoOn("inspect")
    /\ UNCHANGED <<data, walk>>

\* Probe and checksum, after the last write.  The checksum is the content.
Inspect ==
    /\ In("inspect")
    /\ \E exif \in Answers :
           \E seen \in Probed(dir[OutputName], exif) :
               job' = [job EXCEPT !.pc = IF job.preset.exiftool_copy THEN "verify" ELSE "sanity",
                                  !.known = @ /\ exif,
                                  !.out   = seen,
                                  !.hash  = dir[OutputName]]
    /\ UNCHANGED <<dir, data, walk>>

-----------------------------------------------------------------------------
(* The verdict.                                                            *)

TagsLost == Differences(dir[SourceName].tags, dir[OutputName].tags)

VerifyMetadata ==
    /\ In("verify")
    /\ GoOn(IF TagsLost # {} /\ Setting("metadata_verify") = "strict" THEN "failed" ELSE "sanity")
    /\ UNCHANGED <<dir, data, walk>>

\* Mutant: only one of the two sideways rotations swaps the edges.
DisplaySizeOneWay(p) == IF p.turn = 1 THEN <<p.size[2], p.size[1]>> ELSE p.size

DisplaySize(p) == Swapped(p.size, p.turn)

Saves ==
    LET saved == job.seen.bytes - job.out.bytes
    IN /\ 100 * job.out.bytes <= Effective("max_ratio") * job.seen.bytes
       /\ saved >= Effective("min_savings_bytes")

SameLength ==
    \/ job.seen.duration = None
    \/ /\ job.out.duration # None
       /\ Abs(job.seen.duration - job.out.duration) <= Setting("duration_tolerance")

\* check_sanity.  A depth of 0 is one that is not known.
Sane ==
    LET before == job.seen
        after  == job.out
    IN /\ Saves
       /\ after.streams > 0
       /\ Setting("require_same_resolution") /\ 0 \notin Elements(before.size)
              => DisplaySize(after) = DisplaySize(before)
       /\ before.depth > 0 /\ after.depth > 0 => after.depth >= before.depth
       /\ before.hdr => after.hdr
       /\ job.src.type = "VIDEO" => SameLength /\ after.audio = before.audio
       /\ Effective("require_date_time_original") /\ before.date => after.date

CheckSanity ==
    /\ In("sanity")
    /\ IF Sane THEN GoOn("accepted") ELSE Skip("no_gain")
    /\ UNCHANGED <<dir, data, walk>>

-----------------------------------------------------------------------------

Init == /\ StartupInit
        /\ job = Idle /\ dir = <<>>
        /\ data = <<>> /\ walk = Unopened

JobStep == \/ Begin \/ Fail \/ Download
           \/ OpenStill \/ WalkStill \/ AskWalk \/ AskTags \/ AskQuality
           \/ ProbeSource \/ RunEncoder \/ EncoderRefuses \/ CopyMetadata \/ Inspect
           \/ VerifyMetadata \/ CheckSanity

Next == \/ Startup /\ UNCHANGED jvars
        \/ JobStep /\ UNCHANGED svars

Spec == Init /\ [][Next]_<<svars, jvars>>

-----------------------------------------------------------------------------
(* What is true of a job.                                                  *)

TypeOK ==
    /\ given \in Given
    /\ boot.pc \in {"load", "refused", "crashed", "ffmpeg", "nodes", "confirm", "up"}
    /\ boot.pc = "up" => boot.concurrency \in 1 .. 4
    /\ \A i \in DOMAIN boot.candidates :
           boot.candidates[i].status \in {"selected", "rejected", "not_tried"}
    /\ Cardinality(Selected) <= 1
    /\ Threads \in 1 .. MaxThreads
    /\ job.pc \in Working \cup {"idle", "failed", "skipped", "accepted"}
    /\ job.pc # "idle" => /\ job.src \in Sources
                          /\ DOMAIN dir \subseteq {SourceName, OutputName}
                          /\ SourceName # OutputName
    /\ walk.pc \in {"closed", "segment", "scan", "found", "unknown"}

Still == job.pc # "idle" /\ job.src.type = "IMAGE"

\* A still with something attached is not encoded, for the encode would drop
\* it and every later check would report success: wherever its picture really
\* ends, whatever bytes its thumbnail, its scans or the attachment hold.  And
\* a plain one is not taken for one.  What breaks off before its end tells
\* nothing, and then the tags decide.
AttachedMediaIsKept ==
    Still =>
        LET attached == job.src.end # None /\ Len(job.src.data) - job.src.end > MaxHarmless
        IN /\ attached => job.pc \in {"download", "open", "walk", "failed", "skipped"}
           /\ job.why = "embedded_media" => attached \/ job.src.motion

\* What is handed to the upload is a whole output of the last run of the
\* command, described by the checksum the row will carry; the source it was
\* compared with is what was downloaded; under a strict gate no tag of the
\* source is missing; and audio that is no longer the source's was encoded by
\* the preset's own command or because the container refused it and the
\* configuration allows it.
AcceptedIsFaithful ==
    job.pc = "accepted" =>
        LET out == dir[OutputName]
            tags == job.src.content.tags
        IN /\ out.whole /\ job.hash = out
           /\ dir[SourceName] = job.src.content
           /\ job.preset.exiftool_copy /\ Setting("metadata_verify") = "strict"
                 => \A t \in DOMAIN tags \ Ignored : tags[t] # Absent => out.tags[t] # Absent
           /\ out.codec # job.src.content.codec =>
                 \/ ~job.preset.copies_audio
                 \/ job.src.content.codec = "unmuxable" /\ Effective("transcode_unsupported_audio")

\* A picture is not shown turned by a quarter: whether a command keeps the
\* orientation tag, turns the pixels or loses it, and whatever the copy of the
\* metadata then writes, a wrong quarter turn is seen in the edge lengths.  A
\* half turn is not, except where the preset normalises the orientation:
\* there it is right.  This needs exiftool's answer for both files, and edges
\* of two lengths, which ffprobe has to tell.
RightWayUp ==
    job.pc = "accepted" =>
        LET out   == dir[OutputName]
            wrong == (out.baked + out.turn - job.src.content.turn) % 4
        IN /\ job.preset.normalize_orientation => wrong = 0
           /\ /\ job.known /\ Setting("require_same_resolution")
              /\ 0 \notin Elements(job.src.content.size)
              /\ job.src.content.size[1] # job.src.content.size[2]
              => wrong \in {0, 2}

=============================================================================
