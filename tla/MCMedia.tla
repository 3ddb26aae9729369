------------------------------ MODULE MCMedia ------------------------------
(***************************************************************************)
(* An instance of Encoder, and with it of Startup, JpegWalk and            *)
(* MetadataDiff, for TLC.                                                  *)
(***************************************************************************)
EXTENDS Encoder, SequencesExt, TLC

Set(r, some) == [k \in DOMAIN r |-> IF k \in DOMAIN some THEN some[k] ELSE r[k]]

-----------------------------------------------------------------------------
(* What a process is started with: three machines, and configurations that *)
(* differ from the defaults in a point or two.                             *)

Node(path, vendor, readable) == [path |-> path, vendor |-> vendor, readable |-> readable]

TwoCards == [nodes |-> <<Node("D128", "intel", TRUE), Node("D129", "amd", TRUE)>>,
             hevc |-> {"D128", "D129"}, nvidia |-> TRUE,
             encoders |-> {"nvenc", "qsv", "vaapi", "x265"},
             host_cores |-> 64, cpu_max |-> <<33, 2>>]
Locked   == [nodes |-> <<Node("D128", "intel", FALSE), Node("D129", "unknown", TRUE)>>,
             hevc |-> {"D129"}, nvidia |-> FALSE, encoders |-> {"qsv", "vaapi", "x265"},
             host_cores |-> 1, cpu_max |-> None]
Bare     == [nodes |-> <<>>, hevc |-> {}, nvidia |-> FALSE, encoders |-> {"x265"},
             host_cores |-> 200, cpu_max |-> None]

Started(machine, file, env) ==
    [file |-> file, env |-> env @@ [secrets |-> TRUE], machine |-> machine]

Blank == [name |-> "hand", type |-> "IMAGE", extensions |-> {".jpg"}, suffix |-> ".jpg",
          encoder |-> "magick", device |-> None, wellformed |-> TRUE, auto_orient |-> FALSE,
          exiftool_copy |-> FALSE, normalize_orientation |-> FALSE, copies_audio |-> FALSE,
          transcode_unsupported_audio |-> None, require_date_time_original |-> FALSE,
          max_ratio |-> None, min_savings_bytes |-> None, min_source_quality |-> None]
Plain  == Blank
Copied == Set(Blank, [exiftool_copy |-> TRUE])
Clip   == Set(Blank, [name |-> "clip", type |-> "VIDEO", extensions |-> {}, suffix |-> ".mp4",
                      encoder |-> "x265", copies_audio |-> TRUE,
                      transcode_unsupported_audio |-> TRUE])
Both   == [enabled_types |-> <<"VIDEO", "IMAGE">>]
Empty  == [k \in {} |-> None]

\* All it takes to have originals deleted for good.
Consent == [delete_mode |-> "permanent", trash_original |-> TRUE, dry_run |-> FALSE]

MCGiven ==
    {Started(m, f, Empty) : m \in {TwoCards, Locked}, f \in {Empty, [enabled_types |-> <<"AUDIO">>]}}
    \cup {Started(Bare, Both @@ v, Empty) : v \in {Empty, [metadata_verify |-> "warn"]}}
    \cup {Started(TwoCards, f, Empty) : f \in
            {[mode |-> "cpu"], [mode |-> "qsv"], [mode |-> "vaapi"],
             [mode |-> "vaapi", render_node |-> "D129"], [render_node |-> "D129"],
             [render_node |-> "D130"], [concurrency |-> 3],
             Consent, [delete_mode |-> "permanent"],
             [delete_mode |-> "permanent", trash_original |-> TRUE],
             [delete_mode |-> "permanent", dry_run |-> FALSE],
             Consent @@ [metadata_verify |-> "warn"], Consent @@ [max_asset_age_hours |-> None],
             [renamed |-> TRUE], [secrets |-> TRUE],
             [presets |-> <<Plain>>], [presets |-> <<Plain, Plain>>] @@ Both,
             [presets |-> <<Clip, Plain>>] @@ Both,
             [presets |-> <<Clip, Copied>>, metadata_verify |-> "warn"] @@ Both,
             [presets |-> <<Clip>>, transcode_unsupported_audio |-> FALSE],
             [presets |-> <<Set(Clip, [transcode_unsupported_audio |-> None])>>]}}
    \cup {Started(TwoCards, [mode |-> "qsv", concurrency |-> 2],
                  [mode |-> "nvenc", concurrency |-> 4])}
    \cup {Started(TwoCards, Consent, [dry_run |-> TRUE]),
          [file |-> Empty, env |-> Empty, machine |-> Bare]}

-----------------------------------------------------------------------------
(* Stills: every way of putting a JPEG together from a few segments, of    *)
(* which some hold an end-of-image marker of their own, and every way of   *)
(* breaking one off.                                                       *)

Thumbnail == <<255, 225, 0, 4, 255, 217>>
Headers   == {<<>>, <<Thumbnail>>, <<Thumbnail, <<255, 1>>, <<255, 255, 219, 0, 3, 9>>>>}
Scans     == {<<255, 218, 0, 2>> \o e : e \in {<<17>>, <<17, 255, 0, 17>>, <<255, 208, 17>>}}
MoreScans == {<<>>, <<<<255, 196, 0, 3, 9>>, <<255, 218, 0, 2, 17>>>>}
Pictures  == {h \o <<s>> \o t \o <<<<255, 217>>>> : h \in Headers, s \in Scans, t \in MoreScans}
Trailers  == {<<>>, <<0, 0>>, <<17, 255, 217, 17>>}

Bytes(p) == <<255, 216>> \o FlattenSeq(p)
Parts(p) == {Len(Bytes(SubSeq(p, 1, n))) : n \in 0 .. Len(p) - 1}

Tags(model, altitude, created, turn) ==
    [Model |-> model, GPSAltitude |-> altitude, TimeCreated |-> created, Orientation |-> turn]

\* Numbers so large that a millionth of one is still a whole number.
Written0 == Tags(Text("X"), Num(2000000, 2, "m"), Time(11, Absent), Text("sideways"))
MCCarried == {Tags(Text("X"), Num(1000001, 1, "m"), Time(11, 0), Text("normal")),
              Tags(Text("X"), Absent, Time(11, 0), Text("normal")),
              Tags(Text("X"), Num(1000003, 1, "m"), Time(11, 60), Absent)}

Frame == [bytes |-> 10, tags |-> Written0, baked |-> 0, turn |-> 0, size |-> <<3, 2>>,
          streams |-> 1, audio |-> 0, codec |-> "none", date |-> TRUE, depth |-> 8,
          hdr |-> FALSE, duration |-> None, whole |-> TRUE]

StillOf(bytes, parts, end) ==
    [type |-> "IMAGE", ext |-> ".jpg", data |-> bytes, parts |-> parts, end |-> end,
     motion |-> FALSE, quality |-> 95, content |-> Frame]

Intact(p, trailer) == StillOf(Bytes(p) \o trailer, Parts(p), Len(Bytes(p)))
OneStill == Intact(CHOOSE p \in Pictures : TRUE, <<>>)

\* What is left of a picture after n bytes.
Cut(p, n) == StillOf(SubSeq(Bytes(p), 1, n), {a \in Parts(p) : a <= n}, None)
Damaged   == {Cut(p, n) : p \in {q \in Pictures : Len(Bytes(q)) > 27}, n \in 0 .. 27}
             \cup {StillOf(<<255, 216, 255, 225, 0, 1, 255, 217>>, {2}, None),
                   StillOf(<<137, 80, 78, 71>>, {}, None)}

Film == [type |-> "VIDEO", ext |-> ".mov", data |-> <<>>, parts |-> {}, end |-> None,
         motion |-> FALSE, quality |-> None,
         content |-> Set(Frame, [audio |-> 1, codec |-> "aac", depth |-> 10, hdr |-> TRUE, duration |-> 5])]

Every ==
    {Intact(p, t) : p \in Pictures, t \in Trailers} \cup Damaged
    \cup {Set(OneStill, [content |-> Set(Frame, [turn |-> t])]) : t \in 1 .. 3}
    \cup {Set(OneStill, v) : v \in {[motion |-> TRUE], [quality |-> 60], [ext |-> ".png"]}}
    \cup {Set(Film, [content |-> Set(Film.content, [turn |-> t])]) : t \in {0, 1, 3}}
    \cup {Set(Film, [content |-> Set(Film.content, [codec |-> "unmuxable"])]),
          Set(Film, [ext |-> ".mp4"])}

\* As a set that TLC has listed: each state looks a source up in it.
MCSources == {s : s \in Every}

Smaller == [bytes |-> 4]
MCAlterations ==
    {Smaller, [bytes |-> 9], [bytes |-> 0]}
    \cup {Smaller @@ a : a \in
            {[date |-> FALSE], [audio |-> 0], [depth |-> 8], [hdr |-> FALSE], [streams |-> 0],
             [duration |-> None], [duration |-> 7], [size |-> <<1, 1>>]}}

=============================================================================
