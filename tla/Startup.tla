------------------------------ MODULE Startup ------------------------------
(***************************************************************************)
(* How a process arrives at the presets it works with: load_settings of    *)
(* config.py, and behind it the detection of the hardware package, which   *)
(* asks ffmpeg and vainfo what the machine can do, ranks the encoders, and *)
(* believes none of it before a one-frame encode has succeeded.  An action *)
(* is one external command with what is done about its answer.             *)
(***************************************************************************)
EXTENDS Integers, Filter, FiniteSets

CONSTANTS
    Given,      \* [file, env, machine]: what a process may be started with
    MaxThreads, \* _MAX_THREADS
    None        \* not set; no device

\* file and env hold settings as their types in config.py admit them, no two
\* devices have the same path, and a quota of the cgroup that is not positive
\* counts as none.
ASSUME GivenAssumption ==
    /\ MaxThreads \in Nat \ {0}
    /\ \A g \in Given :
          LET nodes == g.machine.nodes
              quota == g.machine.cpu_max
          IN /\ "concurrency" \in DOMAIN g.file => g.file.concurrency \in 1 .. 4
             /\ "concurrency" \in DOMAIN g.env => g.env.concurrency \in 1 .. 4
             /\ nodes \in Seq(Elements(nodes))
             /\ \A i \in DOMAIN nodes : nodes[i].path # None
             /\ \A i, j \in DOMAIN nodes : nodes[i].path = nodes[j].path => i = j
             /\ g.machine.host_cores \in Nat \ {0}
             /\ quota = None \/ quota \in (Nat \ {0}) \X (Nat \ {0})

VARIABLES
    given,  \* what this process was started with
    boot    \* how far it has come, and what it has found out

svars == <<given, boot>>

-----------------------------------------------------------------------------
(* The configuration.                                                      *)

\* As shipped: nothing is changed on the server, and nothing is deleted.
Defaults ==
    [presets |-> <<>>, mode |-> "auto", render_node |-> "auto", enabled_types |-> <<"VIDEO">>,
     concurrency |-> 1, quality |-> "balanced", delete_mode |-> "trash", trash_original |-> FALSE,
     dry_run |-> TRUE, metadata_verify |-> "strict", max_asset_age_hours |-> 24,
     transcode_unsupported_audio |-> FALSE, require_date_time_original |-> TRUE,
     require_same_resolution |-> TRUE, max_ratio |-> 60, min_savings_bytes |-> 1,
     duration_tolerance |-> 0, secrets |-> FALSE]

\* file and env give some of the settings a value; the environment wins.
\* A ratio is in percent here, and bytes and seconds are in units of their own.
Written(k) == k \in DOMAIN given.env \cup DOMAIN given.file

\* Mutant: the file is put above the environment.
SettingFileFirst(k) ==
    IF k \in DOMAIN given.file THEN given.file[k]
    ELSE IF k \in DOMAIN given.env THEN given.env[k]
    ELSE Defaults[k]

Setting(k) ==
    IF k \in DOMAIN given.env THEN given.env[k]
    ELSE IF k \in DOMAIN given.file THEN given.file[k]
    ELSE Defaults[k]

\* A preset of its own merits.  wellformed stands for placeholders, suffix,
\* extensions and the shell syntax a command may not use.
PresetAllowed(p) ==
    /\ p.wellformed
    /\ p.normalize_orientation => p.exiftool_copy /\ p.auto_orient
    /\ p.transcode_unsupported_audio = TRUE => p.copies_audio

Covers(presets, type) == \E i \in DOMAIN presets : presets[i].type = type

Permanent == Setting("delete_mode") = "permanent"

Acceptable ==
    LET presets == Setting("presets")
    IN /\ "secrets" \notin DOMAIN given.file /\ Setting("secrets")
       /\ ~Written("renamed")
       /\ \A i \in DOMAIN presets : PresetAllowed(presets[i])
       /\ \A i, j \in DOMAIN presets : presets[i].name = presets[j].name => i = j
       /\ presets # <<>> => \A t \in Elements(Setting("enabled_types")) : Covers(presets, t)
       /\ Permanent => /\ Setting("trash_original")
                       /\ ~Setting("dry_run")
                       /\ Setting("metadata_verify") = "strict"
                       /\ Setting("max_asset_age_hours") # None

-----------------------------------------------------------------------------
(* The catalog, and what a machine is.                                     *)

VideoEncoders == <<"nvenc", "qsv", "vaapi", "x265">>
Vendors == [nvenc |-> {"nvidia"}, qsv |-> {"intel"}, vaapi |-> {"intel", "amd"}, x265 |-> {}]
Hardware(e) == Vendors[e] # {}
OnRenderNode == {"qsv", "vaapi"}

MinSourceQuality == [higher |-> 92, balanced |-> 86, smaller |-> 79]

VideoPreset(e, device) ==
    [name |-> "auto-video", type |-> "VIDEO", extensions |-> {}, suffix |-> ".mp4",
     encoder |-> e, device |-> device, wellformed |-> TRUE, auto_orient |-> FALSE,
     exiftool_copy |-> FALSE, normalize_orientation |-> FALSE, copies_audio |-> e # "x265",
     transcode_unsupported_audio |-> None, require_date_time_original |-> None,
     max_ratio |-> None, min_savings_bytes |-> None, min_source_quality |-> None]

ImagePreset ==
    [name |-> "auto-image-jpeg", type |-> "IMAGE", extensions |-> {".jpg", ".jpeg", ".jpe", ".jfif"},
     suffix |-> ".jpg", encoder |-> "magick", device |-> None, wellformed |-> TRUE,
     auto_orient |-> TRUE, exiftool_copy |-> TRUE, normalize_orientation |-> TRUE,
     copies_audio |-> FALSE, transcode_unsupported_audio |-> None,
     require_date_time_original |-> FALSE, max_ratio |-> 90, min_savings_bytes |-> None,
     min_source_quality |-> MinSourceQuality[Setting("quality")]]

Nodes == given.machine.nodes    \* a sequence of [path, vendor, readable]

\* CpuBudget: the cgroup's quota and period, or the cores of the host.
Least(x, y) == IF x < y THEN x ELSE y
AtLeastOne(x) == IF x < 1 THEN 1 ELSE x
Limited == given.machine.cpu_max # None
Cores(n) == IF Limited THEN given.machine.cpu_max[1] \div (n * given.machine.cpu_max[2])
            ELSE given.machine.host_cores \div n
Threads      == AtLeastOne(Least(Cores(1), MaxThreads))
CpuConcurrency == AtLeastOne(Least(Cores(8), 4))

-----------------------------------------------------------------------------
(* Ranking: a function of what was collected.                              *)

Cand(e, device, status) == [encoder |-> e, device |-> device, status |-> status]

Mode == Setting("mode")
Pin  == Setting("render_node")
Pinned(node) == Pin \in {"auto", node.path}

RejectedByMode(e) == Hardware(e) /\ Mode # "auto" /\ Mode # e

StaticRejection(e) ==
    \/ RejectedByMode(e)
    \/ e \notin boot.encoders
    \/ e = "nvenc" /\ ~given.machine.nvidia
    \/ /\ e \in OnRenderNode
       /\ \/ \A n \in Elements(Nodes) : ~Pinned(n)
          \/ \A n \in Elements(Nodes) : n.vendor \notin Vendors[e]

DeviceRejection(e, node) ==
    \/ ~node.readable
    \/ e = "vaapi" /\ boot.va[node.path] # "hevc"

Candidates(e) ==
    LET fits == Only(Nodes, {n \in Elements(Nodes) : n.vendor \in Vendors[e] /\ Pinned(n)})
        verdict(n) == IF DeviceRejection(e, n) THEN "rejected" ELSE "not_tried"
    IN IF StaticRejection(e) THEN <<Cand(e, None, "rejected")>>
       ELSE IF e \notin OnRenderNode THEN <<Cand(e, None, "not_tried")>>
       ELSE [i \in DOMAIN fits |-> Cand(e, fits[i].path, verdict(fits[i]))]

Ranked == Candidates(VideoEncoders[1]) \o Candidates(VideoEncoders[2])
          \o Candidates(VideoEncoders[3]) \o Candidates(VideoEncoders[4])

-----------------------------------------------------------------------------
(* The process.  passed and failed are history: the test encodes that were *)
(* run, and how they ended.                                                *)

Booting == [pc |-> "load", encoders |-> {}, va |-> <<>>, candidates |-> <<>>, presets |-> <<>>,
            concurrency |-> 0, passed |-> {}, failed |-> {}]

StartupInit == given \in Given /\ boot = Booting

Refuse == /\ boot.pc = "load" /\ ~Acceptable
          /\ boot' = [boot EXCEPT !.pc = "refused"]
          /\ UNCHANGED given

UsePresets ==
    /\ boot.pc = "load" /\ Acceptable /\ Setting("presets") # <<>>
    /\ boot' = [boot EXCEPT !.pc = "up", !.presets = Setting("presets"),
                            !.concurrency = Setting("concurrency")]
    /\ UNCHANGED given

Detect == /\ boot.pc = "load" /\ Acceptable /\ Setting("presets") = <<>>
          /\ boot' = [boot EXCEPT !.pc = "ffmpeg"]
          /\ UNCHANGED given

\* ffmpeg -encoders, which may be missing or fail: no encoder is known then.
AskFfmpeg ==
    /\ boot.pc = "ffmpeg"
    /\ \E found \in {{}, given.machine.encoders} : boot' = [boot EXCEPT !.pc = "nodes", !.encoders = found]
    /\ UNCHANGED given

Unasked == {n \in Elements(Nodes) : n.path \notin DOMAIN boot.va}

\* vainfo for the next node; one that cannot be opened is not asked.
AskVainfo ==
    /\ boot.pc = "nodes"
    /\ \E i \in DOMAIN Nodes, answer \in {"hevc", "none"} :
           LET node == Nodes[i]
           IN /\ node \in Unasked /\ \A j \in 1 .. i - 1 : Nodes[j] \notin Unasked
              /\ answer = "hevc" => node.readable /\ node.path \in given.machine.hevc
              /\ boot' = [boot EXCEPT !.va = [p \in DOMAIN @ \cup {node.path} |->
                                                IF p = node.path THEN answer ELSE @[p]]]
    /\ UNCHANGED given

\* run_command raises on a timeout, and neither of the two calls catches it.
Hang == /\ boot.pc = "ffmpeg" \/ (boot.pc = "nodes" /\ \E n \in Unasked : n.readable)
        /\ boot' = [boot EXCEPT !.pc = "crashed"]
        /\ UNCHANGED given

Rank == /\ boot.pc = "nodes" /\ Unasked = {}
        /\ boot' = [boot EXCEPT !.pc = "confirm", !.candidates = Ranked]
        /\ UNCHANGED given

Selected  == {i \in DOMAIN boot.candidates : boot.candidates[i].status = "selected"}
Untried   == {i \in DOMAIN boot.candidates : boot.candidates[i].status = "not_tried"}

\* Mutant: the candidates are gone through from the last to the first.
NextIsLast(i) == i \in Untried /\ \A j \in Untried : j <= i

\* The candidate whose turn it is: the first that has not been rejected.
NextIs(i) == i \in Untried /\ \A j \in Untried : i <= j

\* The one-frame encode of the next hardware candidate.
TestEncode(works) ==
    /\ boot.pc = "confirm" /\ Selected = {}
    /\ \E i \in Untried :
           LET c == boot.candidates[i]
           IN /\ NextIs(i) /\ Hardware(c.encoder)
              /\ boot' = [boot EXCEPT
                   !.candidates[i].status = IF works THEN "selected" ELSE "rejected",
                   !.passed = IF works THEN @ \cup {<<c.encoder, c.device>>} ELSE @,
                   !.failed = IF works THEN @ ELSE @ \cup {<<c.encoder, c.device>>}]
    /\ UNCHANGED given

FallBack ==
    /\ boot.pc = "confirm" /\ Selected = {}
    /\ \E i \in Untried : /\ NextIs(i) /\ ~Hardware(boot.candidates[i].encoder)
                          /\ boot' = [boot EXCEPT !.candidates[i].status = "selected"]
    /\ UNCHANGED given

\* The preset of one enabled type; without a selection, that of the last encoder.
Built(type, chosen) ==
    IF type = "IMAGE" THEN ImagePreset ELSE VideoPreset(chosen.encoder, chosen.device)

\* build_presets and apply_to_settings.  The catalog has no recipe for other types.
Build ==
    LET types  == Setting("enabled_types")
        chosen == IF Selected = {} THEN Cand("x265", None, "selected")
                  ELSE boot.candidates[CHOOSE i \in Selected : TRUE]
    IN /\ boot.pc = "confirm" /\ (Selected # {} \/ Untried = {})
       /\ IF Elements(types) \subseteq {"VIDEO", "IMAGE"}
          THEN boot' = [boot EXCEPT
                 !.pc = "up",
                 !.presets = [i \in DOMAIN types |-> Built(types[i], chosen)],
                 !.concurrency = IF Written("concurrency") THEN Setting("concurrency")
                                 ELSE IF Hardware(chosen.encoder) THEN 1 ELSE CpuConcurrency]
          ELSE boot' = [boot EXCEPT !.pc = "refused"]
       /\ UNCHANGED given

Startup == \/ Refuse \/ UsePresets \/ Detect
           \/ AskFfmpeg \/ AskVainfo \/ Hang \/ Rank
           \/ \E works \in BOOLEAN : TestEncode(works)
           \/ FallBack \/ Build

-----------------------------------------------------------------------------
(* What detection is for.                                                  *)

\* What the machine might run on, said without the ranking: an encoder this
\* ffmpeg has, on a device of its vendor that can be opened, that vainfo has
\* not ruled out, and that nothing in the configuration rules out.
Possible ==
    (IF given.machine.nvidia THEN {<<"nvenc", None>>} ELSE {})
    \cup {<<"qsv", n.path>> : n \in {x \in Elements(Nodes) : x.vendor = "intel" /\ x.readable}}
    \cup {<<"vaapi", n.path>> : n \in {x \in Elements(Nodes) :
                                  x.vendor \in {"intel", "amd"} /\ boot.va[x.path] = "hevc"}}

Wanted == {c \in Possible : /\ c[1] \in boot.encoders
                            /\ Mode \in {"auto", c[1]}
                            /\ c[2] # None => Pin \in {"auto", c[2]}}

Place(c) == <<CHOOSE i \in 1 .. 4 : VideoEncoders[i] = c[1],
              IF c[2] = None THEN 0 ELSE CHOOSE i \in DOMAIN Nodes : Nodes[i].path = c[2]>>
Before(c, d) == \/ Place(c)[1] < Place(d)[1]
                \/ Place(c)[1] = Place(d)[1] /\ Place(c)[2] < Place(d)[2]

Detected == boot.pc = "up" /\ Setting("presets") = <<>>

\* The encoder of a generated video preset is the best this machine can run:
\* its one-frame encode has succeeded, and that of every encoder the catalog
\* puts before it has been tried and has failed.  It is the CPU's only when
\* every other has failed.
BestWorkingEncoder ==
    \A i \in DOMAIN boot.presets :
        LET p    == boot.presets[i]
            mine == <<p.encoder, p.device>>
        IN Detected /\ p.type = "VIDEO" =>
             IF Hardware(p.encoder)
             THEN /\ mine \in boot.passed \cap Wanted
                  /\ \A c \in Wanted : Before(c, mine) => c \in boot.failed
             ELSE Wanted \subseteq boot.failed

-----------------------------------------------------------------------------
(* What the operator may rely on.                                          *)

\* What the operator says of a setting that is written at all.
Wish(k) == IF k \in DOMAIN given.env THEN given.env[k] ELSE given.file[k]

Handmade == IF Written("presets") THEN Wish("presets") ELSE <<>>
Enabled  == Elements(IF Written("enabled_types") THEN Wish("enabled_types") ELSE <<"VIDEO">>)

\* Originals are to be deleted for good, and one of the things that takes is
\* missing.  Leaving a switch out does not throw it.
UnclearDeletion ==
    /\ Written("delete_mode") /\ Wish("delete_mode") = "permanent"
    /\ \/ ~Written("trash_original") \/ ~Wish("trash_original")
       \/ ~Written("dry_run") \/ Wish("dry_run")
       \/ Written("metadata_verify") /\ Wish("metadata_verify") # "strict"
       \/ Written("max_asset_age_hours") /\ Wish("max_asset_age_hours") = None

\* A preset says two things that cannot both be meant.
Contradicts(p) ==
    \/ ~p.wellformed
    \/ p.normalize_orientation /\ ~(p.exiftool_copy /\ p.auto_orient)
    \/ p.transcode_unsupported_audio = TRUE /\ ~p.copies_audio

\* There are presets, and one asset type has none; or the catalog is to make
\* them, and has no recipe for a type.
Unserved ==
    IF Handmade # <<>>
    THEN \E t \in Enabled : \A i \in DOMAIN Handmade : Handmade[i].type # t
    ELSE \E t \in Enabled : t \notin {"VIDEO", "IMAGE"}

AtFault ==
    \/ "secrets" \in DOMAIN given.file
    \/ "secrets" \notin DOMAIN given.env \/ ~given.env["secrets"]
    \/ Written("renamed")
    \/ UnclearDeletion
    \/ \E i \in DOMAIN Handmade : Contradicts(Handmade[i])
    \/ \E i, j \in DOMAIN Handmade : i # j /\ Handmade[i].name = Handmade[j].name
    \/ Unserved

\* What the operator has written is kept: presets are used as they are and no
\* encoder is looked for, a concurrency is not replaced by a derived one, the
\* environment wins over the file, and no encoder or device but a pinned one
\* is as much as tried.  A process comes up only under a configuration without
\* a fault: above all, one that may delete originals for good has been told so
\* in each of the places that takes, since none of the defaults consents to
\* it.  And only a fault keeps a process from coming up, or a command that
\* hangs.
WrittenIsKept ==
    LET up    == boot.pc = "up"
        tried == boot.passed \cup boot.failed
    IN /\ up /\ Written("concurrency") => boot.concurrency = Wish("concurrency")
       /\ up /\ Handmade # <<>> => boot.presets = Handmade /\ tried = {}
       /\ Written("mode") /\ Wish("mode") # "auto" => \A c \in tried : c[1] = Wish("mode")
       /\ Written("render_node") /\ Wish("render_node") # "auto"
              => \A c \in tried : c[2] \in {None, Wish("render_node")}
       /\ up => ~AtFault /\ \A t \in Enabled : Covers(boot.presets, t)
       /\ boot.pc = "refused" => AtFault

=============================================================================
