---------------------------- MODULE MCRecognition ----------------------------
(***************************************************************************)
(* Small instances of Recognition. Three products are in the catalogue and *)
(* one is added; p0 comes first and is not to be recognised. Frames come   *)
(* while the index script runs: x2 after x1, x3 at any time. The catalogue *)
(* is seeded by op at any time, and by x3 before the frames of f1.         *)
(***************************************************************************)
EXTENDS Recognition

CONSTANTS p0, p1, p2, p3, f1, f2, x1, x2, x3, op,
          i1, i2, i3, i4, i5, clear, alike, other

MCByProductId == <<p0, p1, p2, p3>>
MCImage == {clear, alike, other}
MCDefaultProductIds == <<p1, p2>>

\* clear shows p1, each of whose images is nearer to it than any other by the
\* margin, and one hardly better than the next; alike shows p1 or p2; other
\* is near to nothing.
MCSimilarity ==
    [image \in MCImage |-> [i \in Picture |->
        CASE image = clear -> (CASE i = i1 -> 80
                                 [] i = i2 -> 78
                                 [] i = i5 -> 70
                                 [] OTHER -> 60)
          [] image = alike -> (CASE i = i1 -> 70
                                 [] i = i3 -> 68
                                 [] OTHER -> 50)
          [] image = other -> (IF i = i4 THEN 61 ELSE 20)]]

MCCatalogue ==
    [p \in Product |-> CASE p = p0 -> "off" [] p = p3 -> "absent" [] OTHER -> "on"]

MCFiles ==
    [p \in Product |-> CASE p = p1 -> {i1, i2} [] p = p2 -> {i3} [] OTHER -> {}]

\* The reference images are changed: one of p1 for another, some for p3.
NewFiles == [MCFiles EXCEPT ![p1] = {i1, i5}, ![p3] = {i4}]

WithP3 == [p \in Product |-> IF p = p0 THEN "off" ELSE "on"]
NothingOn == [p \in Product |-> "off"]
OnlyP3 == [p \in Product |-> IF p = p3 THEN "on" ELSE "off"]

FramesOf(images, providers) ==
    [op : {"frame"}, image : images, provider : providers]
Runs(lists)   == [op : {"index"}, products : lists]
Seeds(tables) == [op : {"seed"}, catalogue : tables]
Changes(f)    == {[op |-> "files", files |-> f]}

IndexingReq == {f1, f2, x1, x2, x3, op}
IndexingBefore ==
    [r \in Req |-> CASE r \in {x2, f2} -> {x1}
                     [] r = f1 -> {x2, x3}
                     [] OTHER -> {}]
IndexingCalls ==
    [r \in Req |->
        CASE r = f1 -> FramesOf({other}, {"openai", "scripted", "openclip"})
                         \cup FramesOf({Unreadable}, {"openclip", "keyless"})
          [] r = f2 -> FramesOf({clear, alike}, {"openclip"})
          [] r = x1 -> Runs({<<>>, <<p1, p3>>, <<p1, p1>>})
          [] r = x2 -> Runs({<<p1>>, <<Stranger>>})
          [] r = x3 -> Runs({<<p1>>}) \cup Seeds({OnlyP3})
          [] r = op -> Seeds({WithP3, OnlyP3, NothingOn}) \cup Changes(NewFiles)]
=============================================================================
