------------------------------ MODULE LiveProofs ------------------------------
(***************************************************************************)
(* Theorems about a debugging session and its history, for programs,       *)
(* strides, rings and numbers of steps of any size.                        *)
(*                                                                         *)
(* The argument for the history: of every frame it is known which keyframe *)
(* it builds on and, page by page, which frame after it was the last to    *)
(* hold the page.  Appending, truncating and evicting leave that alone for *)
(* the frames that stay.                                                   *)
(***************************************************************************)
EXTENDS Live, SequenceTheorems, TLAPS

PageMaps == UNION {[S -> Nat] : S \in SUBSET Nat}
FrameType == [key : BOOLEAN, pages : PageMaps, len : SUBSET Nat]
LogType == [frames : Seq(FrameType), prev : PageMaps, since : Int]

\* Frame k is the keyframe that frame i builds on.
KeyFor(fr, i, k) == k \in 1..i /\ fr[k].key /\ \A j \in k + 1..i : ~fr[j].key

\* The frames from k to i leave c in page p.
Gives(fr, k, i, p, c) ==
  \/ c = 0 /\ \A j \in k..i : p \notin DOMAIN fr[j].pages
  \/ \E n \in k..i : /\ p \in DOMAIN fr[n].pages /\ c = fr[n].pages[p]
                     /\ \A j \in n + 1..i : p \notin DOMAIN fr[j].pages

\* Frame i stands for an image.
Shows(fr, i, image) ==
  \E k \in 1..i : /\ KeyFor(fr, i, k) /\ fr[k].len = DOMAIN image
                  /\ \A p \in DOMAIN image : Gives(fr, k, i, p, image[p])

\* A log stands for images of the pages D.
LogOK(log, images, D) ==
  /\ log \in LogType /\ images \in Seq([D -> Nat]) /\ Len(log.frames) = Len(images)
  /\ \A i \in 1..Len(images) : Shows(log.frames, i, images[i])
  /\ Len(images) > 0 => log.prev = images[Len(images)]
-----------------------------------------------------------------------------
(* RamLog.                                                                  *)

LEMMA KeyIs ==
  ASSUME NEW log, NEW i \in Nat, NEW k, KeyFor(log.frames, i, k)
  PROVE  KeyOf(log, i) = k
<1> DEFINE fr == log.frames
           Q(n) == fr[n].key /\ \A j \in (n + 1)..i : ~fr[j].key
<1>1. k \in 1..i /\ Q(k)
  BY DEF KeyFor
<1>2. ASSUME NEW n \in 1..i, Q(n)
      PROVE  n = k
  <2>1. CASE n < k
    BY <1>1, <1>2, <2>1
  <2>2. CASE k < n
    BY <1>1, <1>2, <2>2
  <2> QED BY <1>1, <2>1, <2>2
<1>3. KeyOf(log, i) = CHOOSE n \in 1..i : Q(n)
  BY DEF KeyOf
<1> HIDE DEF Q
<1> QED BY <1>1, <1>2, <1>3

LEMMA PageIs ==
  ASSUME NEW log, NEW i \in Nat, NEW k \in Nat, NEW p, NEW c, Gives(log.frames, k, i, p, c)
  PROVE  apply_pages(log, k, i, p) = c
<1> DEFINE fr == log.frames
           having == {n \in k..i : p \in DOMAIN fr[n].pages}
           newest == CHOOSE n \in having : \A j \in having : j <= n
<1>1. apply_pages(log, k, i, p) = IF having = {} THEN 0 ELSE fr[newest].pages[p]
  BY DEF apply_pages
<1>2. CASE c = 0 /\ \A j \in k..i : p \notin DOMAIN fr[j].pages
  <2>1. having = {}
    BY <1>2
  <2> QED BY <1>1, <1>2, <2>1
<1>3. ASSUME NEW n \in k..i, p \in DOMAIN fr[n].pages, c = fr[n].pages[p],
             \A j \in n + 1..i : p \notin DOMAIN fr[j].pages
      PROVE  apply_pages(log, k, i, p) = c
  <2>1. n \in having
    BY <1>3
  <2>2. \A j \in having : j \in Int /\ j <= n
    <3>1. ASSUME NEW j \in having PROVE j \in Int /\ j <= n
      <4>1. j \in k..i /\ j \notin n + 1..i
        BY <1>3
      <4> QED BY <4>1
    <3> QED BY <3>1
  <2> HIDE DEF having
  <2>3. newest \in having /\ \A j \in having : j <= newest
    BY <2>1, <2>2
  <2>4. newest = n
    <3>1. newest \in Int /\ newest <= n /\ n <= newest
      BY <2>1, <2>2, <2>3
    <3> HIDE DEF newest
    <3> QED BY <3>1
  <2> QED BY <1>1, <1>3, <2>1, <2>4
<1> QED BY <1>2, <1>3 DEF Gives

\* reconstruct gives back the image that a frame stands for.
LEMMA ReconstructIs ==
  ASSUME NEW log, NEW i \in Nat, NEW D, NEW image \in [D -> Nat], Shows(log.frames, i, image)
  PROVE  reconstruct(log, i) = image
<1> DEFINE fr == log.frames
<1>1. PICK k \in 1..i : /\ KeyFor(fr, i, k) /\ fr[k].len = DOMAIN image
                        /\ \A p \in DOMAIN image : Gives(fr, k, i, p, image[p])
  BY DEF Shows
<1>2. KeyOf(log, i) = k
  BY <1>1, KeyIs
<1>3. \A p \in D : apply_pages(log, k, i, p) = image[p]
  BY <1>1, PageIs
<1>4. reconstruct(log, i) = [p \in D |-> apply_pages(log, k, i, p)]
  BY <1>1, <1>2 DEF reconstruct
<1> QED BY <1>3, <1>4

\* Only the frames up to i matter.
LEMMA ShowsPrefix ==
  ASSUME NEW fr, NEW fr2, NEW i \in Nat, \A j \in 1..i : fr2[j] = fr[j], NEW image, Shows(fr, i, image)
  PROVE  Shows(fr2, i, image)
<1>1. PICK k \in 1..i : /\ KeyFor(fr, i, k) /\ fr[k].len = DOMAIN image
                        /\ \A p \in DOMAIN image : Gives(fr, k, i, p, image[p])
  BY DEF Shows
<1>2. KeyFor(fr2, i, k) /\ fr2[k].len = DOMAIN image
  <2>1. \A j \in k + 1..i : j \in 1..i
    BY <1>1
  <2> QED BY <1>1, <2>1 DEF KeyFor
<1>3. \A j \in k..i : j \in 1..i
  BY <1>1
<1>4. \A n \in k..i : \A j \in n + 1..i : j \in 1..i
  BY <1>1
<1>5. ASSUME NEW p \in DOMAIN image
      PROVE  Gives(fr2, k, i, p, image[p])
  <2>1. Gives(fr, k, i, p, image[p])
    BY <1>1
  <2> QED BY <1>3, <1>4, <2>1 DEF Gives
<1> QED BY <1>2, <1>5 DEF Shows

\* The pages of an image that are not zero, and those that differ from another.
NonZero(pages, image) ==
  /\ pages \in PageMaps
  /\ DOMAIN pages = {p \in DOMAIN image : image[p] # 0}
  /\ \A p \in DOMAIN pages : pages[p] = image[p]
Differing(pages, before, image) ==
  /\ pages \in PageMaps
  /\ DOMAIN pages = {p \in DOMAIN image : before[p] # image[p]}
  /\ \A p \in DOMAIN pages : pages[p] = image[p]

LEMMA ChangedIs ==
  ASSUME NEW D \in SUBSET Nat, NEW cur \in [D -> Nat], NEW base, NEW pages, pages = changed_pages(base, cur)
  PROVE  /\ base = <<>> => NonZero(pages, cur)
         /\ base \in [D -> Nat] => Differing(pages, base, cur)
         /\ pages \in PageMaps
<1> DEFINE differs == {p \in D : IF p \in DOMAIN base THEN base[p] # cur[p] ELSE cur[p] # 0}
<1>1. pages = [p \in differs |-> cur[p]]
  BY DEF changed_pages
<1>2. differs \in SUBSET Nat /\ [p \in differs |-> cur[p]] \in [differs -> Nat]
  OBVIOUS
<1>3. base = <<>> => differs = {p \in D : cur[p] # 0}
  <2> SUFFICES ASSUME base = <<>> PROVE differs = {p \in D : cur[p] # 0}
    OBVIOUS
  <2>1. \A p \in D : p \notin DOMAIN base
    OBVIOUS
  <2> QED BY <2>1
<1>4. base \in [D -> Nat] => differs = {p \in D : base[p] # cur[p]}
  OBVIOUS
<1> HIDE DEF differs
<1>5. pages \in PageMaps
  BY <1>1, <1>2 DEF PageMaps
<1>6. DOMAIN pages = differs /\ \A p \in differs : pages[p] = cur[p]
  BY <1>1
<1> QED BY <1>3, <1>4, <1>5, <1>6 DEF NonZero, Differing

LEMMA KeyframeIs ==
  ASSUME NEW D \in SUBSET Nat, NEW image \in [D -> Nat]
  PROVE  /\ Keyframe(image) \in FrameType /\ Keyframe(image).key /\ Keyframe(image).len = D
         /\ NonZero(Keyframe(image).pages, image)
<1> DEFINE none == <<>>
           pages == changed_pages(none, image)
<1>1. Keyframe(image) = [key |-> TRUE, pages |-> pages, len |-> D]
  BY DEF Keyframe
<1>2. none = <<>>
  OBVIOUS
<1> HIDE DEF none
<1>3. NonZero(pages, image) /\ pages \in PageMaps
  BY <1>2, ChangedIs
<1> HIDE DEF pages
<1> QED BY <1>1, <1>3 DEF FrameType

\* A keyframe stands for its image, whatever is before it.
LEMMA KeyframeShows ==
  ASSUME NEW D \in SUBSET Nat, NEW image \in [D -> Nat], NEW fr, NEW i \in Nat \ {0},
         fr[i].key, fr[i].len = D, NonZero(fr[i].pages, image)
  PROVE  Shows(fr, i, image)
<1>1. KeyFor(fr, i, i) /\ i \in 1..i
  BY DEF KeyFor
<1>2. ASSUME NEW p \in D
      PROVE  Gives(fr, i, i, p, image[p])
  <2>1. i..i = {i} /\ i + 1..i = {}
    OBVIOUS
  <2> QED BY <2>1 DEF Gives, NonZero
<1> QED BY <1>1, <1>2 DEF Shows

\* A delta stands for what the frame before it stands for, with its pages.
LEMMA DeltaShows ==
  ASSUME NEW D \in SUBSET Nat, NEW image \in [D -> Nat], NEW before \in [D -> Nat], NEW fr,
         NEW i \in Nat \ {0}, Shows(fr, i, before), ~fr[i + 1].key,
         Differing(fr[i + 1].pages, before, image)
  PROVE  Shows(fr, i + 1, image)
<1>1. PICK k \in 1..i : /\ KeyFor(fr, i, k) /\ fr[k].len = DOMAIN before
                        /\ \A p \in DOMAIN before : Gives(fr, k, i, p, before[p])
  BY DEF Shows
<1>2. KeyFor(fr, i + 1, k) /\ k \in 1..i + 1
  <2>1. k \in 1..i + 1 /\ \A j \in k + 1..i + 1 : j = i + 1 \/ j \in k + 1..i
    BY <1>1
  <2> QED BY <1>1, <2>1 DEF KeyFor
<1>3. ASSUME NEW p \in D
      PROVE  Gives(fr, k, i + 1, p, image[p])
  <2>1. CASE p \in DOMAIN fr[i + 1].pages
    <3>1. i + 1 \in k..i + 1 /\ i + 1 + 1..i + 1 = {}
      BY <1>1
    <3>2. image[p] = fr[i + 1].pages[p]
      BY <2>1 DEF Differing
    <3> QED BY <2>1, <3>1, <3>2 DEF Gives
  <2>2. CASE p \notin DOMAIN fr[i + 1].pages
    <3>1. Gives(fr, k, i, p, image[p])
      BY <1>1, <2>2 DEF Differing
    <3>2. \A j \in k..i + 1 : j = i + 1 \/ j \in k..i
      BY <1>1
    <3>3. \A n \in k..i : n \in k..i + 1 /\ \A j \in n + 1..i + 1 : j = i + 1 \/ j \in n + 1..i
      BY <1>1
    <3> QED BY <2>2, <3>1, <3>2, <3>3 DEF Gives
  <2> QED BY <2>1, <2>2
<1> QED BY <1>1, <1>2, <1>3 DEF Shows

LEMMA PushOK ==
  ASSUME NEW D \in SUBSET Nat, NEW log, NEW images, LogOK(log, images, D), NEW image \in [D -> Nat]
  PROVE  LogOK(push(log, image), Append(images, image), D)
<1> DEFINE n == Len(images)
           key == log.frames = <<>> \/ log.since >= Stride
           delta == [key |-> FALSE, pages |-> changed_pages(log.prev, image), len |-> {}]
           frame == IF key THEN Keyframe(image) ELSE delta
           fr == log.frames
           fr2 == Append(fr, frame)
           images2 == Append(images, image)
<1>1. /\ fr \in Seq(FrameType) /\ images \in Seq([D -> Nat]) /\ Len(fr) = n /\ n \in Nat
      /\ \A i \in 1..n : Shows(fr, i, images[i])
      /\ n > 0 => log.prev = images[n]
      /\ log.since \in Int
  BY DEF LogOK, LogType
<1>2. push(log, image) = [frames |-> fr2, prev |-> image, since |-> IF key THEN 0 ELSE log.since + 1]
  BY DEF push
<1>3. delta \in FrameType /\ delta.key = FALSE /\ delta.pages = changed_pages(log.prev, image)
  <2>1. changed_pages(log.prev, image) \in PageMaps
    BY ChangedIs
  <2> QED BY <2>1 DEF FrameType
<1>4. frame \in FrameType
  BY <1>3, KeyframeIs
<1>5. ~key => n > 0
  BY <1>1
<1> HIDE DEF key, delta
<1>6. ~key => frame = delta
  OBVIOUS
<1>7. key => frame = Keyframe(image)
  OBVIOUS
<1> HIDE DEF frame
<1>8. /\ fr2 \in Seq(FrameType) /\ Len(fr2) = n + 1
      /\ fr2[n + 1] = frame /\ \A i \in 1..n : fr2[i] = fr[i]
  BY <1>1, <1>4
<1>9. /\ images2 \in Seq([D -> Nat]) /\ Len(images2) = n + 1
      /\ images2[n + 1] = image /\ \A i \in 1..n : images2[i] = images[i]
  BY <1>1
<1> HIDE DEF fr2, images2
<1>10. ASSUME NEW i \in 1..n
       PROVE  Shows(fr2, i, images2[i])
  <2>1. i \in Nat /\ \A j \in 1..i : j \in 1..n
    BY <1>1
  <2>2. \A j \in 1..i : fr2[j] = fr[j]
    BY <1>8, <2>1
  <2> QED BY <1>1, <1>9, <2>1, <2>2, ShowsPrefix
<1>11. Shows(fr2, n + 1, image)
  <2>1. CASE key
    <3>1. n + 1 \in Nat \ {0} /\ fr2[n + 1] = Keyframe(image)
      BY <1>1, <1>7, <1>8, <2>1
    <3> DEFINE i == n + 1
    <3> HIDE DEF i
    <3>2. i \in Nat \ {0} /\ fr2[i].key /\ fr2[i].len = D /\ NonZero(fr2[i].pages, image)
      BY <3>1, KeyframeIs DEF i
    <3>3. Shows(fr2, i, image)
      BY <3>2, KeyframeShows
    <3> QED BY <3>3 DEF i
  <2>2. CASE ~key
    <3>1. n \in Nat \ {0} /\ n \in 1..n
      BY <1>1, <1>5, <2>2
    <3>2. images[n] \in [D -> Nat] /\ log.prev = images[n]
      BY <1>1, <3>1
    <3>3. Shows(fr2, n, images[n])
      BY <1>9, <1>10, <3>1
    <3>4. ~fr2[n + 1].key /\ fr2[n + 1].pages = changed_pages(images[n], image)
      BY <1>3, <1>6, <1>8, <2>2, <3>2
    <3>5. Differing(fr2[n + 1].pages, images[n], image)
      <4> DEFINE before == images[n]
                 pages == fr2[n + 1].pages
      <4>1. before \in [D -> Nat] /\ pages = changed_pages(before, image)
        BY <3>2, <3>4
      <4> HIDE DEF before, pages
      <4>2. Differing(pages, before, image)
        BY <4>1, ChangedIs
      <4> QED BY <4>2 DEF before, pages
    <3> QED BY <3>1, <3>2, <3>3, <3>4, <3>5, DeltaShows
  <2> QED BY <2>1, <2>2
<1>12. \A i \in 1..n + 1 : Shows(fr2, i, images2[i])
  <2>1. \A i \in 1..n + 1 : i \in 1..n \/ i = n + 1
    BY <1>1
  <2> QED BY <1>9, <1>10, <1>11, <2>1
<1>13. image \in PageMaps
  BY DEF PageMaps
<1>14. (IF key THEN 0 ELSE log.since + 1) \in Int
  BY <1>1
<1>15. push(log, image) \in LogType /\ push(log, image).frames = fr2 /\ push(log, image).prev = image
  BY <1>2, <1>8, <1>13, <1>14 DEF LogType
<1>16. LogOK(push(log, image), images2, D)
  BY <1>8, <1>9, <1>12, <1>15 DEF LogOK
<1> QED BY <1>16 DEF images2

LEMMA PrefixIs ==
  ASSUME NEW X, NEW s \in Seq(X), NEW i \in Nat, i <= Len(s)
  PROVE  SubSeq(s, 1, i) \in Seq(X) /\ Len(SubSeq(s, 1, i)) = i /\ \A j \in 1..i : SubSeq(s, 1, i)[j] = s[j]
OBVIOUS

LEMMA TruncateOK ==
  ASSUME NEW D \in SUBSET Nat, NEW log, NEW images, LogOK(log, images, D), NEW i \in 1..Len(images)
  PROVE  LogOK(truncate_after(log, i), SubSeq(images, 1, i), D)
<1> DEFINE n == Len(images)
           fr == log.frames
           fr2 == SubSeq(fr, 1, i)
           images2 == SubSeq(images, 1, i)
<1>1. /\ fr \in Seq(FrameType) /\ images \in Seq([D -> Nat]) /\ Len(fr) = n /\ n \in Nat
      /\ \A j \in 1..n : Shows(fr, j, images[j])
  BY DEF LogOK, LogType
<1>2. i \in Nat /\ i >= 1 /\ i <= n
  BY <1>1
<1>3. /\ images2 \in Seq([D -> Nat]) /\ Len(images2) = i /\ \A j \in 1..i : images2[j] = images[j]
  BY <1>1, <1>2, PrefixIs
<1>4. /\ fr2 \in Seq(FrameType) /\ Len(fr2) = i /\ \A j \in 1..i : fr2[j] = fr[j]
  BY <1>1, <1>2, PrefixIs
<1>5. images[i] \in [D -> Nat] /\ Shows(fr, i, images[i])
  BY <1>1, <1>2
<1>6. CASE i >= n
  <2>1. i = n /\ truncate_after(log, i) = log
    BY <1>1, <1>2, <1>6 DEF truncate_after
  <2>2. images2 = images
    BY <1>1, <2>1
  <2> QED BY <2>1, <2>2
<1>7. CASE i < n
  <2>1. truncate_after(log, i) = [frames |-> fr2, prev |-> reconstruct(log, i), since |-> i - KeyOf(log, i)]
    BY <1>1, <1>2, <1>7 DEF truncate_after
  <2>2. reconstruct(log, i) = images[i]
    BY <1>2, <1>5, ReconstructIs
  <2>3. i - KeyOf(log, i) \in Int
    <3>1. PICK k \in 1..i : KeyFor(fr, i, k)
      BY <1>5 DEF Shows
    <3>2. KeyOf(log, i) = k
      BY <1>2, <3>1, KeyIs
    <3> QED BY <1>2, <3>1, <3>2
  <2>4. images[i] \in PageMaps
    BY <1>5 DEF PageMaps
  <2> HIDE DEF fr2, images2
  <2>5. /\ truncate_after(log, i) \in LogType
        /\ truncate_after(log, i).frames = fr2 /\ truncate_after(log, i).prev = images[i]
    BY <1>4, <2>1, <2>2, <2>3, <2>4 DEF LogType
  <2>6. ASSUME NEW j \in 1..i
        PROVE  Shows(fr2, j, images2[j])
    <3>1. j \in Nat /\ j \in 1..n /\ \A h \in 1..j : h \in 1..i
      BY <1>1, <1>2
    <3>2. \A h \in 1..j : fr2[h] = fr[h]
      BY <1>4, <3>1
    <3> QED BY <1>1, <1>3, <3>1, <3>2, ShowsPrefix
  <2>7. i \in 1..i
    BY <1>2
  <2>8. LogOK(truncate_after(log, i), images2, D)
    BY <1>3, <1>4, <2>5, <2>6, <2>7 DEF LogOK
  <2> QED BY <2>8 DEF images2
<1> QED BY <1>1, <1>2, <1>6, <1>7

\* The frames after a keyframe that stays, one place further to the front.
LEMMA ShiftShows ==
  ASSUME NEW fr, NEW fr2, NEW i \in Nat, NEW k \in 2..i + 1, \A j \in k - 1..i : fr2[j] = fr[j + 1],
         NEW image, KeyFor(fr, i + 1, k), fr[k].len = DOMAIN image,
         \A p \in DOMAIN image : Gives(fr, k, i + 1, p, image[p])
  PROVE  Shows(fr2, i, image)
<1> DEFINE h == k - 1
<1>1. h \in 1..i /\ h + 1 = k /\ h \in h..i
  OBVIOUS
<1> HIDE DEF h
<1>2. \A j \in h..i : fr2[j] = fr[j + 1]
  BY DEF h
<1>3. fr2[h].key /\ fr2[h].len = DOMAIN image
  BY <1>1, <1>2 DEF KeyFor
<1>4. \A j \in h + 1..i : j + 1 \in k + 1..i + 1 /\ j \in h..i
  BY <1>1
<1>5. KeyFor(fr2, i, h)
  BY <1>1, <1>2, <1>3, <1>4 DEF KeyFor
<1>6. ASSUME NEW p \in DOMAIN image
      PROVE  Gives(fr2, h, i, p, image[p])
  <2>1. CASE image[p] = 0 /\ \A j \in k..i + 1 : p \notin DOMAIN fr[j].pages
    <3>1. \A j \in h..i : j + 1 \in k..i + 1
      BY <1>1
    <3> QED BY <1>2, <2>1, <3>1 DEF Gives
  <2>2. ASSUME NEW n \in k..i + 1, p \in DOMAIN fr[n].pages, image[p] = fr[n].pages[p],
               \A j \in n + 1..i + 1 : p \notin DOMAIN fr[j].pages
        PROVE  Gives(fr2, h, i, p, image[p])
    <3> DEFINE m == n - 1
    <3>1. m \in h..i /\ m + 1 = n
      BY <1>1
    <3>2. fr2[m] = fr[n]
      BY <1>2, <3>1
    <3>3. \A j \in m + 1..i : j + 1 \in n + 1..i + 1 /\ j \in h..i
      BY <1>1, <3>1
    <3> HIDE DEF m
    <3>4. p \in DOMAIN fr2[m].pages /\ image[p] = fr2[m].pages[p]
      BY <2>2, <3>2
    <3>5. \A j \in m + 1..i : p \notin DOMAIN fr2[j].pages
      BY <1>2, <2>2, <3>3
    <3> QED BY <3>1, <3>4, <3>5 DEF Gives
  <2>3. Gives(fr, k, i + 1, p, image[p])
    OBVIOUS
  <2> QED BY <2>1, <2>2, <2>3 DEF Gives
<1> QED BY <1>1, <1>3, <1>5, <1>6 DEF Shows

\* The frames after a keyframe that goes: the second frame takes its place.
LEMMA RekeyedShows ==
  ASSUME NEW D \in SUBSET Nat, NEW log, NEW fr2, NEW i \in Nat \ {0}, NEW second \in [D -> Nat],
         NEW image \in [D -> Nat],
         fr2[1].key, fr2[1].len = D, NonZero(fr2[1].pages, second),
         \A j \in 2..i : fr2[j] = log.frames[j + 1],
         KeyFor(log.frames, i + 1, 1),
         \A p \in D : Gives(log.frames, 1, 2, p, second[p]),
         \A p \in D : Gives(log.frames, 1, i + 1, p, image[p])
  PROVE  Shows(fr2, i, image)
<1> DEFINE fr == log.frames
<1>1. 1 \in 1..i /\ \A j \in 1 + 1..i : j \in 2..i /\ j + 1 \in 1 + 1..i + 1
  OBVIOUS
<1>2. KeyFor(fr2, i, 1)
  BY <1>1 DEF KeyFor
<1>3. ASSUME NEW p \in D
      PROVE  Gives(fr2, 1, i, p, image[p])
  <2> DEFINE c == image[p]
  <2>1. CASE \E n \in 3..i + 1 : /\ p \in DOMAIN fr[n].pages /\ c = fr[n].pages[p]
                                 /\ \A j \in n + 1..i + 1 : p \notin DOMAIN fr[j].pages
    <3>1. PICK n \in 3..i + 1 : /\ p \in DOMAIN fr[n].pages /\ c = fr[n].pages[p]
                                /\ \A j \in n + 1..i + 1 : p \notin DOMAIN fr[j].pages
      BY <2>1
    <3> DEFINE m == n - 1
    <3>2. m \in 2..i /\ m \in 1..i /\ m + 1 = n /\ \A j \in m + 1..i : j \in 2..i /\ j + 1 \in n + 1..i + 1
      BY <3>1
    <3> HIDE DEF m
    <3>3. p \in DOMAIN fr2[m].pages /\ c = fr2[m].pages[p]
      BY <3>1, <3>2
    <3>4. \A j \in m + 1..i : p \notin DOMAIN fr2[j].pages
      BY <3>1, <3>2
    <3> QED BY <3>2, <3>3, <3>4 DEF Gives
  <2>2. CASE Gives(fr, 1, 2, p, c) /\ \A j \in 3..i + 1 : p \notin DOMAIN fr[j].pages
    <3>1. apply_pages(log, 1, 2, p) = c /\ apply_pages(log, 1, 2, p) = second[p]
      BY <2>2, PageIs
    <3>2. \A j \in 1 + 1..i : p \notin DOMAIN fr2[j].pages
      <4>1. \A j \in 1 + 1..i : j \in 2..i /\ j + 1 \in 3..i + 1
        OBVIOUS
      <4> QED BY <2>2, <4>1
    <3>3. CASE c = 0
      <4>1. p \notin DOMAIN fr2[1].pages
        BY <3>1, <3>3 DEF NonZero
      <4>2. \A j \in 1..i : j = 1 \/ j \in 1 + 1..i
        OBVIOUS
      <4> QED BY <3>2, <3>3, <4>1, <4>2 DEF Gives
    <3>4. CASE c # 0
      <4>1. p \in DOMAIN fr2[1].pages /\ c = fr2[1].pages[p]
        BY <3>1, <3>4 DEF NonZero
      <4> QED BY <1>1, <3>2, <4>1 DEF Gives
    <3> QED BY <3>3, <3>4
  <2>3. Gives(fr, 1, i + 1, p, c)
    OBVIOUS
  <2>4. CASE c = 0 /\ \A j \in 1..i + 1 : p \notin DOMAIN fr[j].pages
    <3>1. (\A j \in 1..2 : j \in 1..i + 1) /\ \A j \in 3..i + 1 : j \in 1..i + 1
      OBVIOUS
    <3>2. Gives(fr, 1, 2, p, c) /\ \A j \in 3..i + 1 : p \notin DOMAIN fr[j].pages
      BY <2>4, <3>1 DEF Gives
    <3> QED BY <2>2, <3>2
  <2>5. ASSUME NEW n \in 1..i + 1, p \in DOMAIN fr[n].pages, c = fr[n].pages[p],
               \A j \in n + 1..i + 1 : p \notin DOMAIN fr[j].pages
        PROVE  Gives(fr2, 1, i, p, c)
    <3>1. CASE n >= 3
      <4>1. n \in 3..i + 1
        BY <3>1
      <4> QED BY <2>1, <2>5, <4>1
    <3>2. CASE n < 3
      <4>1. n \in 1..2 /\ (\A j \in n + 1..2 : j \in n + 1..i + 1) /\ \A j \in 3..i + 1 : j \in n + 1..i + 1
        BY <3>2
      <4>2. Gives(fr, 1, 2, p, c)
        BY <2>5, <4>1 DEF Gives
      <4> QED BY <2>2, <2>5, <4>1, <4>2
    <3> QED BY <3>1, <3>2
  <2>6. \/ c = 0 /\ \A j \in 1..i + 1 : p \notin DOMAIN fr[j].pages
        \/ \E n \in 1..i + 1 : /\ p \in DOMAIN fr[n].pages /\ c = fr[n].pages[p]
                              /\ \A j \in n + 1..i + 1 : p \notin DOMAIN fr[j].pages
    BY <2>3 DEF Gives
  <2>7. CASE \E n \in 1..i + 1 : /\ p \in DOMAIN fr[n].pages /\ c = fr[n].pages[p]
                                /\ \A j \in n + 1..i + 1 : p \notin DOMAIN fr[j].pages
    BY <2>5, <2>7
  <2> QED BY <2>4, <2>6, <2>7
<1> QED BY <1>1, <1>2, <1>3 DEF Shows

LEMMA SuffixIs ==
  ASSUME NEW X, NEW s \in Seq(X), Len(s) >= 2
  PROVE  /\ SubSeq(s, 3, Len(s)) \in Seq(X) /\ Len(SubSeq(s, 3, Len(s))) = Len(s) - 2
         /\ \A j \in 1..Len(s) - 2 : SubSeq(s, 3, Len(s))[j] = s[j + 2]
<1> DEFINE n == Len(s)
           t == SubSeq(s, 3, n)
<1>1. n \in Int /\ 3 \in Int /\ n >= 2 /\ \A i \in 1..n : s[i] \in X
  OBVIOUS
<1> HIDE DEF n
<1>2. \A i \in 3..n : s[i] \in X
  BY <1>1
<1>3. /\ t \in Seq(X) /\ Len(t) = IF 3 <= n THEN n - 3 + 1 ELSE 0
      /\ \A i \in 1..n - 3 + 1 : t[i] = s[3 + i - 1]
  BY <1>1, <1>2, SubSeqProperties
<1> HIDE DEF t
<1>4. Len(t) = n - 2
  BY <1>1, <1>3
<1>5. \A j \in 1..n - 2 : t[j] = s[j + 2]
  <2> SUFFICES ASSUME NEW j \in 1..n - 2 PROVE t[j] = s[j + 2]
    OBVIOUS
  <2>1. j \in 1..n - 3 + 1 /\ 3 + j - 1 = j + 2
    BY <1>1
  <2> QED BY Zenon, <1>3, <2>1
<1> QED BY Zenon, <1>3, <1>4, <1>5 DEF n, t

LEMMA EvictOK ==
  ASSUME NEW D \in SUBSET Nat, NEW log, NEW images, LogOK(log, images, D), Len(images) >= 2
  PROVE  LogOK(evict_front(log), Tail(images), D)
<1> DEFINE n == Len(images)
           fr == log.frames
           second == IF fr[2].key THEN fr[2] ELSE Keyframe(reconstruct(log, 2))
           rest == SubSeq(fr, 3, n)
           fr2 == <<second>> \o rest
           images2 == Tail(images)
<1>1. /\ fr \in Seq(FrameType) /\ images \in Seq([D -> Nat]) /\ Len(fr) = n /\ n \in Nat /\ n >= 2
      /\ \A j \in 1..n : Shows(fr, j, images[j])
      /\ log.prev = images[n] /\ log.prev \in PageMaps /\ log.since \in Int /\ log \in LogType
  BY DEF LogOK, LogType
<1>2. evict_front(log) = [log EXCEPT !.frames = fr2]
  BY <1>1 DEF evict_front
<1>3. 2 \in 1..n /\ 2 \in Nat /\ images[2] \in [D -> Nat] /\ Shows(fr, 2, images[2])
  BY <1>1
<1>4. reconstruct(log, 2) = images[2]
  BY <1>3, ReconstructIs
<1>5. second \in FrameType
  <2>1. fr[2] \in FrameType
    BY <1>1
  <2>2. Keyframe(images[2]) \in FrameType
    BY <1>3, KeyframeIs
  <2> QED BY <1>4, <2>1, <2>2
<1>6. fr[2].key => second = fr[2]
  OBVIOUS
<1>7. ~fr[2].key => second.key /\ second.len = D /\ NonZero(second.pages, images[2])
  BY <1>3, <1>4, KeyframeIs
<1> HIDE DEF second
<1>8. rest \in Seq(FrameType) /\ Len(rest) = n - 2 /\ \A j \in 1..n - 2 : rest[j] = fr[j + 2]
  <2>1. fr \in Seq(FrameType) /\ Len(fr) = n /\ n >= 2
    BY <1>1
  <2> HIDE DEF n
  <2> QED BY <2>1, SuffixIs
<1> HIDE DEF rest
<1>9. /\ fr2 \in Seq(FrameType) /\ Len(fr2) = n - 1 /\ fr2[1] = second
      /\ \A j \in 2..n - 1 : fr2[j] = fr[j + 1]
  <2>1. fr2 \in Seq(FrameType) /\ Len(fr2) = n - 1 /\ fr2[1] = second
    BY <1>1, <1>5, <1>8
  <2>2. \A j \in 2..n - 1 : fr2[j] = rest[j - 1] /\ j - 1 \in 1..n - 2 /\ j - 1 + 2 = j + 1
    BY <1>1, <1>5, <1>8
  <2> QED BY <1>8, <2>1, <2>2
<1>10. /\ images2 \in Seq([D -> Nat]) /\ Len(images2) = n - 1 /\ \A j \in 1..n - 1 : images2[j] = images[j + 1]
  BY <1>1
<1> HIDE DEF fr2, images2
<1>11. ASSUME NEW i \in 1..n - 1
       PROVE  Shows(fr2, i, images[i + 1])
  <2>1. i \in Nat \ {0} /\ i + 1 \in 1..n /\ images[i + 1] \in [D -> Nat] /\ \A j \in 2..i : j \in 2..n - 1
    BY <1>1
  <2> DEFINE image == images[i + 1]
  <2>2. PICK k \in 1..i + 1 : /\ KeyFor(fr, i + 1, k) /\ fr[k].len = DOMAIN image
                              /\ \A p \in DOMAIN image : Gives(fr, k, i + 1, p, image[p])
    <3>1. Shows(fr, i + 1, image)
      BY <1>1, <2>1
    <3> HIDE DEF image
    <3> QED BY <3>1 DEF Shows
  <2>3. image \in [D -> Nat]
    BY <2>1
  <2> HIDE DEF image
  <2>4. CASE k >= 2
    <3>1. k \in 2..i + 1 /\ \A j \in k - 1..i : j \in 1..n - 1 /\ (j = 1 => k = 2)
      BY <1>1, <2>1, <2>2, <2>4
    <3>2. \A j \in k - 1..i : fr2[j] = fr[j + 1]
      <4> SUFFICES ASSUME NEW j \in k - 1..i PROVE fr2[j] = fr[j + 1]
        OBVIOUS
      <4>1. CASE j = 1
        <5>1. fr[2].key
          BY <2>2, <3>1, <4>1 DEF KeyFor
        <5> QED BY <1>6, <1>9, <4>1, <5>1
      <4>2. CASE j # 1
        <5>1. j \in 2..n - 1
          BY <3>1, <4>2
        <5> QED BY <1>9, <5>1
      <4> QED BY <4>1, <4>2
    <3>3. Shows(fr2, i, image)
      BY <2>1, <2>2, <3>1, <3>2, ShiftShows
    <3> QED BY <3>3 DEF image
  <2>5. CASE k < 2
    <3>1. k = 1 /\ 2 \in k + 1..i + 1
      BY <2>1, <2>2, <2>5
    <3>2. ~fr[2].key
      BY <2>2, <3>1 DEF KeyFor
    <3>3. \A p \in D : Gives(fr, 1, 2, p, images[2][p])
      <4>1. PICK h \in 1..2 : KeyFor(fr, 2, h) /\ \A p \in DOMAIN images[2] : Gives(fr, h, 2, p, images[2][p])
        BY <1>3 DEF Shows
      <4>2. h = 1
        BY <3>2, <4>1 DEF KeyFor
      <4> QED BY <1>3, <4>1, <4>2
    <3>4. fr2[1].key /\ fr2[1].len = D /\ NonZero(fr2[1].pages, images[2])
      BY <1>7, <1>9, <3>2
    <3>5. \A j \in 2..i : fr2[j] = fr[j + 1]
      BY <1>9, <2>1
    <3>6. KeyFor(fr, i + 1, 1) /\ \A p \in D : Gives(fr, 1, i + 1, p, image[p])
      BY <2>2, <2>3, <3>1
    <3>7. Shows(fr2, i, image)
      BY <1>3, <2>1, <2>3, <3>3, <3>4, <3>5, <3>6, RekeyedShows
    <3> QED BY <3>7 DEF image
  <2> QED BY <2>2, <2>4, <2>5
<1>12. /\ evict_front(log) \in LogType /\ evict_front(log).frames = fr2 /\ evict_front(log).prev = images[n]
  BY <1>1, <1>2, <1>9 DEF LogType
<1>13. Len(images2) > 0 => images2[Len(images2)] = images[n]
  <2>1. n - 1 \in 1..n - 1 /\ n - 1 + 1 = n
    BY <1>1
  <2> QED BY <1>10, <2>1
<1>14. \A i \in 1..Len(images2) : Shows(fr2, i, images2[i])
  BY <1>10, <1>11
<1>15. LogOK(evict_front(log), images2, D)
  BY <1>9, <1>10, <1>12, <1>13, <1>14 DEF LogOK
<1> QED BY <1>15 DEF images2

-----------------------------------------------------------------------------
(* The ring: what is kept of each captured machine.                         *)

Machines == [pc : Int, ra : Int, depth : Int, retired : Nat, ram : [0..1 -> Nat], fb : [0..0 -> Nat]]

RamFor(log, c) ==
  \E images : /\ LogOK(log, images, 0..1) /\ Len(images) = Len(c)
              /\ \A i \in 1..Len(c) : images[i] = c[i].ram

FbFor(log, c) ==
  \E images : /\ LogOK(log, images, 0..0) /\ Len(images) = Len(c)
              /\ \A i \in 1..Len(c) : images[i] = c[i].fb

LightOf(g) == snapshot(g).light
Lights == [pc : Int, ra : Int, depth : Int, retired : Nat]

LightsFor(s, c) == s \in Seq(Lights) /\ Len(s) = Len(c) /\ \A i \in 1..Len(c) : s[i] = LightOf(c[i])

CountsFor(s, c) == s \in Seq(Nat) /\ Len(s) = Len(c) /\ \A i \in 1..Len(c) : s[i] = c[i].retired

\* The logs and lists of a timeline stand for the machines of c.
Holds(t, c) ==
  /\ c \in Seq(Machines)
  /\ RamFor(t.ram, c) /\ FbFor(t.fb, c) /\ LightsFor(t.lights, c) /\ CountsFor(t.retired, c)

Ordered(c) == \A i, j \in 1..Len(c) : i < j => c[i].retired <= c[j].retired

LEMMA PagesNat == 0..1 \in SUBSET Nat /\ 0..0 \in SUBSET Nat
OBVIOUS

LEMMA AppendIs ==
  ASSUME NEW X, NEW s \in Seq(X), NEW x \in X
  PROVE  /\ Append(s, x) \in Seq(X) /\ Len(Append(s, x)) = Len(s) + 1
         /\ \A j \in 1..Len(s) : Append(s, x)[j] = s[j]
         /\ Append(s, x)[Len(s) + 1] = x
OBVIOUS

LEMMA TailIs ==
  ASSUME NEW X, NEW s \in Seq(X), Len(s) >= 1
  PROVE  /\ Tail(s) \in Seq(X) /\ Len(Tail(s)) = Len(s) - 1
         /\ \A j \in 1..Len(s) - 1 : Tail(s)[j] = s[j + 1]
<1>1. s # <<>>
  OBVIOUS
<1> QED BY <1>1

LEMMA LightIs ==
  ASSUME NEW g \in Machines
  PROVE  /\ LightOf(g) \in Lights /\ snapshot(g).light = LightOf(g)
         /\ snapshot(g).ram = g.ram /\ snapshot(g).fb = g.fb
         /\ LightOf(g).pc = g.pc /\ LightOf(g).ra = g.ra
         /\ LightOf(g).depth = g.depth /\ LightOf(g).retired = g.retired
BY DEF LightOf, Lights, snapshot, Machines

LEMMA PushRam ==
  ASSUME NEW log, NEW c \in Seq(Machines), RamFor(log, c), NEW g \in Machines
  PROVE  RamFor(push(log, g.ram), Append(c, g))
<1>1. PICK images : /\ LogOK(log, images, 0..1) /\ Len(images) = Len(c)
                    /\ \A i \in 1..Len(c) : images[i] = c[i].ram
  BY DEF RamFor
<1>2. g.ram \in [0..1 -> Nat] /\ images \in Seq([0..1 -> Nat]) /\ Len(c) \in Nat
  BY <1>1 DEF Machines, LogOK
<1>3. LogOK(push(log, g.ram), Append(images, g.ram), 0..1)
  BY <1>1, <1>2, PagesNat, PushOK
<1>4. /\ Len(Append(images, g.ram)) = Len(c) + 1 /\ Append(images, g.ram)[Len(c) + 1] = g.ram
      /\ \A j \in 1..Len(c) : Append(images, g.ram)[j] = images[j]
  BY <1>1, <1>2, AppendIs
<1>5. /\ Len(Append(c, g)) = Len(c) + 1 /\ Append(c, g)[Len(c) + 1] = g
      /\ \A j \in 1..Len(c) : Append(c, g)[j] = c[j]
  BY AppendIs
<1>6. \A j \in 1..Len(c) + 1 : j \in 1..Len(c) \/ j = Len(c) + 1
  BY <1>2
<1>7. \A j \in 1..Len(c) + 1 : Append(images, g.ram)[j] = Append(c, g)[j].ram
  BY <1>1, <1>4, <1>5, <1>6
<1> QED BY <1>3, <1>4, <1>5, <1>7 DEF RamFor

LEMMA TruncateRam ==
  ASSUME NEW log, NEW c \in Seq(Machines), RamFor(log, c), NEW i \in 1..Len(c)
  PROVE  RamFor(truncate_after(log, i), SubSeq(c, 1, i))
<1>1. PICK images : /\ LogOK(log, images, 0..1) /\ Len(images) = Len(c)
                    /\ \A j \in 1..Len(c) : images[j] = c[j].ram
  BY DEF RamFor
<1>2. images \in Seq([0..1 -> Nat]) /\ i \in Nat /\ i <= Len(c) /\ \A j \in 1..i : j \in 1..Len(c)
  <2>1. images \in Seq([0..1 -> Nat])
    BY <1>1 DEF LogOK
  <2>2. Len(c) \in Nat
    OBVIOUS
  <2> QED BY <2>1, <2>2
<1>3. LogOK(truncate_after(log, i), SubSeq(images, 1, i), 0..1)
  BY <1>1, PagesNat, TruncateOK
<1>4. /\ Len(SubSeq(images, 1, i)) = i /\ Len(SubSeq(c, 1, i)) = i
      /\ \A j \in 1..i : SubSeq(images, 1, i)[j] = images[j] /\ SubSeq(c, 1, i)[j] = c[j]
  BY <1>1, <1>2, PrefixIs
<1>5. \A j \in 1..i : SubSeq(images, 1, i)[j] = SubSeq(c, 1, i)[j].ram
  BY <1>1, <1>2, <1>4
<1> QED BY <1>3, <1>4, <1>5 DEF RamFor

LEMMA EvictRam ==
  ASSUME NEW log, NEW c \in Seq(Machines), RamFor(log, c), Len(c) >= 2
  PROVE  RamFor(evict_front(log), Tail(c))
<1>1. PICK images : /\ LogOK(log, images, 0..1) /\ Len(images) = Len(c)
                    /\ \A j \in 1..Len(c) : images[j] = c[j].ram
  BY DEF RamFor
<1>2. images \in Seq([0..1 -> Nat]) /\ Len(c) \in Nat /\ Len(c) >= 1
  BY <1>1 DEF LogOK
<1>3. LogOK(evict_front(log), Tail(images), 0..1)
  BY <1>1, PagesNat, EvictOK
<1>4. /\ Len(Tail(images)) = Len(c) - 1 /\ Len(Tail(c)) = Len(c) - 1
      /\ \A j \in 1..Len(c) - 1 : Tail(images)[j] = images[j + 1] /\ Tail(c)[j] = c[j + 1]
  BY <1>1, <1>2, TailIs
<1>5. \A j \in 1..Len(c) - 1 : j + 1 \in 1..Len(c)
  BY <1>2
<1>6. \A j \in 1..Len(c) - 1 : Tail(images)[j] = Tail(c)[j].ram
  BY <1>1, <1>4, <1>5
<1> QED BY <1>3, <1>4, <1>6 DEF RamFor

LEMMA PushFb ==
  ASSUME NEW log, NEW c \in Seq(Machines), FbFor(log, c), NEW g \in Machines
  PROVE  FbFor(push(log, g.fb), Append(c, g))
<1>1. PICK images : /\ LogOK(log, images, 0..0) /\ Len(images) = Len(c)
                    /\ \A i \in 1..Len(c) : images[i] = c[i].fb
  BY DEF FbFor
<1>2. g.fb \in [0..0 -> Nat] /\ images \in Seq([0..0 -> Nat]) /\ Len(c) \in Nat
  BY <1>1 DEF Machines, LogOK
<1>3. LogOK(push(log, g.fb), Append(images, g.fb), 0..0)
  BY <1>1, <1>2, PagesNat, PushOK
<1>4. /\ Len(Append(images, g.fb)) = Len(c) + 1 /\ Append(images, g.fb)[Len(c) + 1] = g.fb
      /\ \A j \in 1..Len(c) : Append(images, g.fb)[j] = images[j]
  BY <1>1, <1>2, AppendIs
<1>5. /\ Len(Append(c, g)) = Len(c) + 1 /\ Append(c, g)[Len(c) + 1] = g
      /\ \A j \in 1..Len(c) : Append(c, g)[j] = c[j]
  BY AppendIs
<1>6. \A j \in 1..Len(c) + 1 : j \in 1..Len(c) \/ j = Len(c) + 1
  BY <1>2
<1>7. \A j \in 1..Len(c) + 1 : Append(images, g.fb)[j] = Append(c, g)[j].fb
  BY <1>1, <1>4, <1>5, <1>6
<1> QED BY <1>3, <1>4, <1>5, <1>7 DEF FbFor

LEMMA TruncateFb ==
  ASSUME NEW log, NEW c \in Seq(Machines), FbFor(log, c), NEW i \in 1..Len(c)
  PROVE  FbFor(truncate_after(log, i), SubSeq(c, 1, i))
<1>1. PICK images : /\ LogOK(log, images, 0..0) /\ Len(images) = Len(c)
                    /\ \A j \in 1..Len(c) : images[j] = c[j].fb
  BY DEF FbFor
<1>2. images \in Seq([0..0 -> Nat]) /\ i \in Nat /\ i <= Len(c) /\ \A j \in 1..i : j \in 1..Len(c)
  <2>1. images \in Seq([0..0 -> Nat])
    BY <1>1 DEF LogOK
  <2>2. Len(c) \in Nat
    OBVIOUS
  <2> QED BY <2>1, <2>2
<1>3. LogOK(truncate_after(log, i), SubSeq(images, 1, i), 0..0)
  BY <1>1, PagesNat, TruncateOK
<1>4. /\ Len(SubSeq(images, 1, i)) = i /\ Len(SubSeq(c, 1, i)) = i
      /\ \A j \in 1..i : SubSeq(images, 1, i)[j] = images[j] /\ SubSeq(c, 1, i)[j] = c[j]
  BY <1>1, <1>2, PrefixIs
<1>5. \A j \in 1..i : SubSeq(images, 1, i)[j] = SubSeq(c, 1, i)[j].fb
  BY <1>1, <1>2, <1>4
<1> QED BY <1>3, <1>4, <1>5 DEF FbFor

LEMMA EvictFb ==
  ASSUME NEW log, NEW c \in Seq(Machines), FbFor(log, c), Len(c) >= 2
  PROVE  FbFor(evict_front(log), Tail(c))
<1>1. PICK images : /\ LogOK(log, images, 0..0) /\ Len(images) = Len(c)
                    /\ \A j \in 1..Len(c) : images[j] = c[j].fb
  BY DEF FbFor
<1>2. images \in Seq([0..0 -> Nat]) /\ Len(c) \in Nat /\ Len(c) >= 1
  BY <1>1 DEF LogOK
<1>3. LogOK(evict_front(log), Tail(images), 0..0)
  BY <1>1, PagesNat, EvictOK
<1>4. /\ Len(Tail(images)) = Len(c) - 1 /\ Len(Tail(c)) = Len(c) - 1
      /\ \A j \in 1..Len(c) - 1 : Tail(images)[j] = images[j + 1] /\ Tail(c)[j] = c[j + 1]
  BY <1>1, <1>2, TailIs
<1>5. \A j \in 1..Len(c) - 1 : j + 1 \in 1..Len(c)
  BY <1>2
<1>6. \A j \in 1..Len(c) - 1 : Tail(images)[j] = Tail(c)[j].fb
  BY <1>1, <1>4, <1>5
<1> QED BY <1>3, <1>4, <1>6 DEF FbFor


\* The frames that the next capture leaves, and the ring after it.
Kept(t, c) == IF t.pending = 0 THEN c ELSE SubSeq(c, 1, t.pending)
NewRing(t, c, g) == IF Len(Append(Kept(t, c), g)) > MaxFrames THEN Tail(Append(Kept(t, c), g)) ELSE Append(Kept(t, c), g)

\* Timelines are updated field by field: which fields an update leaves with which values.
TimelinesOf(A, B, C) ==
  [ram : A, fb : A, lights : B, retired : C, last : Int, interval : Int, evicted : Int, pending : Nat,
   enabled : BOOLEAN]

TimelineType == TimelinesOf(LogType, Seq(Lights), Seq(Nat))

Fields(w, a, b, l, r, m, n, on) ==
  w.ram = a /\ w.fb = b /\ w.lights = l /\ w.retired = r /\ w.last = m /\ w.pending = n /\ w.enabled = on

TruncateUpdate(t, a, b, l, r, n) == [t EXCEPT !.ram = a, !.fb = b, !.lights = l, !.retired = r, !.pending = n]
PushUpdate(t, a, b, l, r, m) == [t EXCEPT !.ram = a, !.fb = b, !.lights = l, !.retired = r, !.last = m]
EvictUpdate(t, a, b, l, r) == [t EXCEPT !.ram = a, !.fb = b, !.lights = l, !.retired = r]
GrowUpdate(t, m, e) == [t EXCEPT !.evicted = e, !.interval = m]
CountUpdate(t, e) == [t EXCEPT !.evicted = e]
RewindUpdate(t, n, m) == [t EXCEPT !.last = m, !.pending = n]
EnableUpdate(t) == [t EXCEPT !.enabled = TRUE]

LEMMA TruncateFields ==
  ASSUME NEW t \in TimelineType, NEW a \in LogType, NEW b \in LogType, NEW l \in Seq(Lights), NEW r \in Seq(Nat), NEW n \in Nat
  PROVE  TruncateUpdate(t, a, b, l, r, n) \in TimelineType /\ Fields(TruncateUpdate(t, a, b, l, r, n), a, b, l, r, t.last, n, t.enabled)
<1>1. ASSUME NEW A, NEW B, NEW C, t \in TimelinesOf(A, B, C), a \in A, b \in A, l \in B, r \in C, n \in Nat
      PROVE  TruncateUpdate(t, a, b, l, r, n) \in TimelinesOf(A, B, C)
  BY <1>1 DEF TimelinesOf, TruncateUpdate
<1>2. ASSUME NEW A, NEW B, NEW C, t \in TimelinesOf(A, B, C)
      PROVE  Fields(TruncateUpdate(t, a, b, l, r, n), a, b, l, r, t.last, n, t.enabled)
  BY <1>2 DEF TimelinesOf, TruncateUpdate, Fields
<1> QED BY <1>1, <1>2 DEF TimelineType

LEMMA PushFields ==
  ASSUME NEW t \in TimelineType, NEW a \in LogType, NEW b \in LogType, NEW l \in Seq(Lights), NEW r \in Seq(Nat), NEW m \in Int
  PROVE  PushUpdate(t, a, b, l, r, m) \in TimelineType /\ Fields(PushUpdate(t, a, b, l, r, m), a, b, l, r, m, t.pending, t.enabled)
<1>1. ASSUME NEW A, NEW B, NEW C, t \in TimelinesOf(A, B, C), a \in A, b \in A, l \in B, r \in C, m \in Int
      PROVE  PushUpdate(t, a, b, l, r, m) \in TimelinesOf(A, B, C)
  BY <1>1 DEF TimelinesOf, PushUpdate
<1>2. ASSUME NEW A, NEW B, NEW C, t \in TimelinesOf(A, B, C)
      PROVE  Fields(PushUpdate(t, a, b, l, r, m), a, b, l, r, m, t.pending, t.enabled)
  BY <1>2 DEF TimelinesOf, PushUpdate, Fields
<1> QED BY <1>1, <1>2 DEF TimelineType

LEMMA EvictFields ==
  ASSUME NEW t \in TimelineType, NEW a \in LogType, NEW b \in LogType, NEW l \in Seq(Lights), NEW r \in Seq(Nat)
  PROVE  EvictUpdate(t, a, b, l, r) \in TimelineType /\ Fields(EvictUpdate(t, a, b, l, r), a, b, l, r, t.last, t.pending, t.enabled)
<1>1. ASSUME NEW A, NEW B, NEW C, t \in TimelinesOf(A, B, C), a \in A, b \in A, l \in B, r \in C
      PROVE  EvictUpdate(t, a, b, l, r) \in TimelinesOf(A, B, C)
  BY <1>1 DEF TimelinesOf, EvictUpdate
<1>2. ASSUME NEW A, NEW B, NEW C, t \in TimelinesOf(A, B, C)
      PROVE  Fields(EvictUpdate(t, a, b, l, r), a, b, l, r, t.last, t.pending, t.enabled)
  BY <1>2 DEF TimelinesOf, EvictUpdate, Fields
<1> QED BY <1>1, <1>2 DEF TimelineType

LEMMA GrowFields ==
  ASSUME NEW t \in TimelineType, NEW m \in Int, NEW e \in Int
  PROVE  GrowUpdate(t, m, e) \in TimelineType /\ Fields(GrowUpdate(t, m, e), t.ram, t.fb, t.lights, t.retired, t.last, t.pending, t.enabled)
<1>1. ASSUME NEW A, NEW B, NEW C, t \in TimelinesOf(A, B, C), m \in Int, e \in Int
      PROVE  GrowUpdate(t, m, e) \in TimelinesOf(A, B, C)
  BY <1>1 DEF TimelinesOf, GrowUpdate
<1>2. ASSUME NEW A, NEW B, NEW C, t \in TimelinesOf(A, B, C)
      PROVE  Fields(GrowUpdate(t, m, e), t.ram, t.fb, t.lights, t.retired, t.last, t.pending, t.enabled)
  BY <1>2 DEF TimelinesOf, GrowUpdate, Fields
<1> QED BY <1>1, <1>2 DEF TimelineType

LEMMA CountFields ==
  ASSUME NEW t \in TimelineType, NEW e \in Int
  PROVE  CountUpdate(t, e) \in TimelineType /\ Fields(CountUpdate(t, e), t.ram, t.fb, t.lights, t.retired, t.last, t.pending, t.enabled)
<1>1. ASSUME NEW A, NEW B, NEW C, t \in TimelinesOf(A, B, C), e \in Int
      PROVE  CountUpdate(t, e) \in TimelinesOf(A, B, C)
  BY <1>1 DEF TimelinesOf, CountUpdate
<1>2. ASSUME NEW A, NEW B, NEW C, t \in TimelinesOf(A, B, C)
      PROVE  Fields(CountUpdate(t, e), t.ram, t.fb, t.lights, t.retired, t.last, t.pending, t.enabled)
  BY <1>2 DEF TimelinesOf, CountUpdate, Fields
<1> QED BY <1>1, <1>2 DEF TimelineType

LEMMA RewindFields ==
  ASSUME NEW t \in TimelineType, NEW n \in Nat, NEW m \in Int
  PROVE  RewindUpdate(t, n, m) \in TimelineType /\ Fields(RewindUpdate(t, n, m), t.ram, t.fb, t.lights, t.retired, m, n, t.enabled)
<1>1. ASSUME NEW A, NEW B, NEW C, t \in TimelinesOf(A, B, C), n \in Nat, m \in Int
      PROVE  RewindUpdate(t, n, m) \in TimelinesOf(A, B, C)
  BY <1>1 DEF TimelinesOf, RewindUpdate
<1>2. ASSUME NEW A, NEW B, NEW C, t \in TimelinesOf(A, B, C)
      PROVE  Fields(RewindUpdate(t, n, m), t.ram, t.fb, t.lights, t.retired, m, n, t.enabled)
  BY <1>2 DEF TimelinesOf, RewindUpdate, Fields
<1> QED BY <1>1, <1>2 DEF TimelineType

LEMMA EnableFields ==
  ASSUME NEW t \in TimelineType
  PROVE  EnableUpdate(t) \in TimelineType /\ Fields(EnableUpdate(t), t.ram, t.fb, t.lights, t.retired, t.last, t.pending, TRUE)
<1>1. ASSUME NEW A, NEW B, NEW C, t \in TimelinesOf(A, B, C)
      PROVE  EnableUpdate(t) \in TimelinesOf(A, B, C)
  BY <1>1 DEF TimelinesOf, EnableUpdate
<1>2. ASSUME NEW A, NEW B, NEW C, t \in TimelinesOf(A, B, C)
      PROVE  Fields(EnableUpdate(t), t.ram, t.fb, t.lights, t.retired, t.last, t.pending, TRUE)
  BY <1>2 DEF TimelinesOf, EnableUpdate, Fields
<1> QED BY <1>1, <1>2 DEF TimelineType

LEMMA TimelineIs ==
  ASSUME NEW t \in TimelineType
  PROVE  /\ t \in TimelinesOf(LogType, Seq(Lights), Seq(Nat))
         /\ t.ram \in LogType /\ t.fb \in LogType /\ t.lights \in Seq(Lights) /\ t.retired \in Seq(Nat)
         /\ t.last \in Int /\ t.interval \in Int /\ t.evicted \in Int /\ t.pending \in Nat /\ t.enabled \in BOOLEAN
BY DEF TimelineType, TimelinesOf

LEMMA TruncatedIs ==
  ASSUME NEW t \in TimelineType, NEW c, Holds(t, c), t.pending \in 0..Len(c)
  PROVE  /\ Truncated(t) \in TimelineType /\ Holds(Truncated(t), Kept(t, c)) /\ Truncated(t).pending = 0
         /\ Kept(t, c) \in Seq(Machines) /\ Len(Kept(t, c)) = (IF t.pending = 0 THEN Len(c) ELSE t.pending)
         /\ \A j \in 1..Len(Kept(t, c)) : Kept(t, c)[j] = c[j] /\ j \in 1..Len(c)
<1> DEFINE i == t.pending
           ram == truncate_after(t.ram, i)
           fb == truncate_after(t.fb, i)
           lights == SubSeq(t.lights, 1, i)
           retired == SubSeq(t.retired, 1, i)
           d == SubSeq(c, 1, i)
<1>1. c \in Seq(Machines) /\ Len(c) \in Nat
  BY DEF Holds
<1>2. CASE i = 0
  BY <1>1, <1>2 DEF Truncated, Kept
<1>3. CASE i # 0
  <2>1. i \in 1..Len(c) /\ i \in Nat /\ i <= Len(c)
    BY <1>1, <1>3
  <2>2. RamFor(ram, d) /\ FbFor(fb, d)
    BY <1>1, <2>1, TruncateRam, TruncateFb DEF Holds
  <2>3. ram \in LogType /\ fb \in LogType
    BY <2>2 DEF RamFor, FbFor, LogOK
  <2>4. d \in Seq(Machines) /\ Len(d) = i /\ \A j \in 1..i : d[j] = c[j] /\ j \in 1..Len(c)
    <3>1. d \in Seq(Machines) /\ Len(d) = i /\ \A j \in 1..i : d[j] = c[j]
      BY <1>1, <2>1, PrefixIs
    <3> QED BY <1>1, <2>1, <3>1
  <2>5. /\ t.lights \in Seq(Lights) /\ Len(t.lights) = Len(c) /\ \A j \in 1..Len(c) : t.lights[j] = LightOf(c[j])
        /\ t.retired \in Seq(Nat) /\ Len(t.retired) = Len(c) /\ \A j \in 1..Len(c) : t.retired[j] = c[j].retired
    BY DEF Holds, LightsFor, CountsFor
  <2>6. lights \in Seq(Lights) /\ Len(lights) = i /\ \A j \in 1..i : lights[j] = t.lights[j]
    BY <2>1, <2>5, PrefixIs
  <2>7. retired \in Seq(Nat) /\ Len(retired) = i /\ \A j \in 1..i : retired[j] = t.retired[j]
    BY <2>1, <2>5, PrefixIs
  <2>8. LightsFor(lights, d) /\ CountsFor(retired, d)
    BY <2>4, <2>5, <2>6, <2>7 DEF LightsFor, CountsFor
  <2>9. Truncated(t) = TruncateUpdate(t, ram, fb, lights, retired, 0)
    BY <1>3 DEF Truncated, TruncateUpdate
  <2>10. Kept(t, c) = d
    BY <1>3 DEF Kept
  <2> HIDE DEF ram, fb, lights, retired, d
  <2>11. /\ Truncated(t) \in TimelineType /\ Truncated(t).pending = 0
         /\ Truncated(t).ram = ram /\ Truncated(t).fb = fb /\ Truncated(t).lights = lights /\ Truncated(t).retired = retired
    <3>1. Truncated(t) \in TimelineType /\ Fields(Truncated(t), ram, fb, lights, retired, t.last, 0, t.enabled)
      BY <2>3, <2>6, <2>7, <2>9, TruncateFields
    <3> QED BY <3>1 DEF Fields
  <2>12. Holds(Truncated(t), d)
    BY <2>2, <2>4, <2>8, <2>11 DEF Holds
  <2> QED BY <1>3, <2>4, <2>10, <2>11, <2>12
<1> QED BY <1>2, <1>3

\* A timeline u with one more frame.
Pushed(u, snap, n) ==
  [u EXCEPT !.ram = push(@, snap.ram), !.fb = push(@, snap.fb),
            !.lights = Append(@, snap.light), !.retired = Append(@, n), !.last = n]

LEMMA PushedIs ==
  ASSUME NEW u \in TimelineType, NEW c, Holds(u, c), u.pending = 0, NEW g \in Machines
  PROVE  LET v == Pushed(u, snapshot(g), g.retired)
         IN  /\ v \in TimelineType /\ Holds(v, Append(c, g)) /\ v.pending = 0 /\ v.last = g.retired
             /\ Len(v.lights) = Len(c) + 1
<1> DEFINE ram == push(u.ram, g.ram)
           fb == push(u.fb, g.fb)
           lights == Append(u.lights, LightOf(g))
           retired == Append(u.retired, g.retired)
           d == Append(c, g)
           v == Pushed(u, snapshot(g), g.retired)
<1>1. c \in Seq(Machines) /\ Len(c) \in Nat /\ g.retired \in Nat /\ LightOf(g) \in Lights
  BY LightIs DEF Holds, Machines
<1>2. RamFor(ram, d) /\ FbFor(fb, d)
  BY <1>1, PushRam, PushFb DEF Holds
<1>3. ram \in LogType /\ fb \in LogType
  BY <1>2 DEF RamFor, FbFor, LogOK
<1>4. d \in Seq(Machines) /\ Len(d) = Len(c) + 1 /\ d[Len(c) + 1] = g /\ \A j \in 1..Len(c) : d[j] = c[j]
  BY <1>1, AppendIs
<1>5. /\ u.lights \in Seq(Lights) /\ Len(u.lights) = Len(c) /\ \A j \in 1..Len(c) : u.lights[j] = LightOf(c[j])
      /\ u.retired \in Seq(Nat) /\ Len(u.retired) = Len(c) /\ \A j \in 1..Len(c) : u.retired[j] = c[j].retired
  BY DEF Holds, LightsFor, CountsFor
<1>6. /\ lights \in Seq(Lights) /\ Len(lights) = Len(c) + 1 /\ lights[Len(c) + 1] = LightOf(g)
      /\ \A j \in 1..Len(c) : lights[j] = u.lights[j]
  BY <1>1, <1>5, AppendIs
<1>7. /\ retired \in Seq(Nat) /\ Len(retired) = Len(c) + 1 /\ retired[Len(c) + 1] = g.retired
      /\ \A j \in 1..Len(c) : retired[j] = u.retired[j]
  BY <1>1, <1>5, AppendIs
<1>8. \A j \in 1..Len(c) + 1 : j \in 1..Len(c) \/ j = Len(c) + 1
  BY <1>1
<1>9. v = PushUpdate(u, ram, fb, lights, retired, g.retired)
  BY LightIs DEF Pushed, PushUpdate
<1> HIDE DEF ram, fb, lights, retired, d, v
<1>10. LightsFor(lights, d) /\ CountsFor(retired, d)
  BY <1>4, <1>5, <1>6, <1>7, <1>8 DEF LightsFor, CountsFor
<1>11. /\ v \in TimelineType /\ v.pending = 0 /\ v.last = g.retired
       /\ v.ram = ram /\ v.fb = fb /\ v.lights = lights /\ v.retired = retired
  <2>1. g.retired \in Int
    BY <1>1
  <2>2. v \in TimelineType /\ Fields(v, ram, fb, lights, retired, g.retired, u.pending, u.enabled)
    BY <1>3, <1>6, <1>7, <1>9, <2>1, PushFields
  <2> QED BY <2>2 DEF Fields
<1>12. Holds(v, d)
  BY <1>2, <1>4, <1>10, <1>11 DEF Holds
<1> QED BY <1>6, <1>11, <1>12 DEF v, d

\* A timeline v without its oldest frame.
Evicted(v) ==
  grow_interval_on_eviction(
    [v EXCEPT !.ram = evict_front(@), !.fb = evict_front(@), !.lights = Tail(@), !.retired = Tail(@)])

LEMMA GrownIs ==
  ASSUME NEW w \in TimelineType
  PROVE  LET x == grow_interval_on_eviction(w)
         IN  /\ x \in TimelineType /\ x.pending = w.pending /\ x.last = w.last /\ x.enabled = w.enabled
             /\ x.ram = w.ram /\ x.fb = w.fb /\ x.lights = w.lights /\ x.retired = w.retired
<1> DEFINE doubled == w.interval * 2
           cap == BaseInterval * MAX_INTERVAL_GROWTH
           next == IF doubled <= cap THEN doubled ELSE cap
           x == grow_interval_on_eviction(w)
<1>1. next \in Int /\ w.evicted + 1 \in Int
  BY TimelineAssumption, TimelineIs DEF MAX_INTERVAL_GROWTH
<1>2. x = GrowUpdate(w, next, 0) \/ x = CountUpdate(w, w.evicted + 1)
  BY Zenon DEF grow_interval_on_eviction, GrowUpdate, CountUpdate
<1> HIDE DEF next, x
<1>3. x \in TimelineType /\ Fields(x, w.ram, w.fb, w.lights, w.retired, w.last, w.pending, w.enabled)
  <2>1. CASE x = GrowUpdate(w, next, 0)
    BY <1>1, <2>1, GrowFields
  <2>2. CASE x = CountUpdate(w, w.evicted + 1)
    BY <1>1, <2>2, CountFields
  <2> QED BY <1>2, <2>1, <2>2
<1> QED BY <1>3 DEF x, Fields

LEMMA EvictedIs ==
  ASSUME NEW v \in TimelineType, NEW c, Holds(v, c), Len(c) >= 2
  PROVE  /\ Evicted(v) \in TimelineType /\ Holds(Evicted(v), Tail(c))
         /\ Evicted(v).pending = v.pending /\ Evicted(v).last = v.last
<1> DEFINE ram == evict_front(v.ram)
           fb == evict_front(v.fb)
           lights == Tail(v.lights)
           retired == Tail(v.retired)
           d == Tail(c)
           w == EvictUpdate(v, ram, fb, lights, retired)
           x == Evicted(v)
<1>1. c \in Seq(Machines) /\ Len(c) \in Nat /\ Len(c) >= 1
  BY DEF Holds
<1>2. RamFor(ram, d) /\ FbFor(fb, d)
  BY <1>1, EvictRam, EvictFb DEF Holds
<1>3. ram \in LogType /\ fb \in LogType
  BY <1>2 DEF RamFor, FbFor, LogOK
<1>4. d \in Seq(Machines) /\ Len(d) = Len(c) - 1 /\ \A j \in 1..Len(c) - 1 : d[j] = c[j + 1]
  BY <1>1, TailIs
<1>5. /\ v.lights \in Seq(Lights) /\ Len(v.lights) = Len(c) /\ \A j \in 1..Len(c) : v.lights[j] = LightOf(c[j])
      /\ v.retired \in Seq(Nat) /\ Len(v.retired) = Len(c) /\ \A j \in 1..Len(c) : v.retired[j] = c[j].retired
  BY DEF Holds, LightsFor, CountsFor
<1>6. lights \in Seq(Lights) /\ Len(lights) = Len(c) - 1 /\ \A j \in 1..Len(c) - 1 : lights[j] = v.lights[j + 1]
  BY <1>1, <1>5, TailIs
<1>7. retired \in Seq(Nat) /\ Len(retired) = Len(c) - 1 /\ \A j \in 1..Len(c) - 1 : retired[j] = v.retired[j + 1]
  BY <1>1, <1>5, TailIs
<1>8. \A j \in 1..Len(c) - 1 : j + 1 \in 1..Len(c)
  BY <1>1
<1>9. x = grow_interval_on_eviction(w)
  BY DEF Evicted, EvictUpdate
<1> HIDE DEF ram, fb, lights, retired, d, x
<1>10. LightsFor(lights, d) /\ CountsFor(retired, d)
  BY <1>4, <1>5, <1>6, <1>7, <1>8 DEF LightsFor, CountsFor
<1>11. /\ w \in TimelineType /\ w.pending = v.pending /\ w.last = v.last
       /\ w.ram = ram /\ w.fb = fb /\ w.lights = lights /\ w.retired = retired
  <2>1. w \in TimelineType /\ Fields(w, ram, fb, lights, retired, v.last, v.pending, v.enabled)
    BY <1>3, <1>6, <1>7, EvictFields
  <2> QED BY <2>1 DEF Fields
<1> HIDE DEF w
<1>12. /\ x \in TimelineType /\ x.pending = v.pending /\ x.last = v.last
       /\ x.ram = ram /\ x.fb = fb /\ x.lights = lights /\ x.retired = retired
  BY <1>9, <1>11, GrownIs
<1>13. Holds(x, d)
  BY <1>2, <1>4, <1>10, <1>12 DEF Holds
<1> QED BY <1>12, <1>13 DEF x, d


\* The newest frame that counts: the last one, or the one gone back to.
Newest(t, c) == IF t.pending = 0 THEN Len(c) ELSE t.pending

\* The throttle counts from the newest frame.
Timed(t, c, n) ==
  IF Len(c) = 0 THEN t.last = NoCount ELSE t.last = c[Newest(t, c)].retired /\ t.last <= n

History(t, c, n) ==
  /\ t \in TimelineType /\ Holds(t, c) /\ t.pending \in 0..Len(c)
  /\ Ordered(c) /\ Len(c) <= MaxFrames /\ Timed(t, c, n)

\* Appending a machine that retired no less, and taking the oldest away, keep the order.
LEMMA OrderedKept ==
  ASSUME NEW c \in Seq(Machines), Ordered(c), NEW g \in Machines,
         Len(c) > 0 => c[Len(c)].retired <= g.retired
  PROVE  Ordered(Append(c, g)) /\ (Len(c) >= 1 => Ordered(Tail(Append(c, g))))
<1> DEFINE d == Append(c, g)
           n == Len(c)
<1>1. /\ d \in Seq(Machines) /\ Len(d) = n + 1 /\ d[n + 1] = g /\ \A j \in 1..n : d[j] = c[j]
      /\ n \in Nat
  BY AppendIs
<1> HIDE DEF d
<1>2. \A j \in 1..n : c[j].retired \in Nat
  <2>1. \A j \in 1..n : c[j] \in Machines
    OBVIOUS
  <2> QED BY <2>1 DEF Machines
<1>3. g.retired \in Nat
  BY DEF Machines
<1>4. \A j \in 1..n : c[j].retired <= g.retired
  <2> SUFFICES ASSUME NEW j \in 1..n PROVE c[j].retired <= g.retired
    OBVIOUS
  <2>1. CASE j = n
    BY <1>1, <2>1
  <2>2. CASE j # n
    <3>1. n \in 1..n /\ j < n
      BY <1>1, <2>2
    <3>2. c[j].retired <= c[n].retired /\ c[n].retired <= g.retired
      BY <1>1, <3>1 DEF Ordered
    <3> QED BY <1>2, <1>3, <3>1, <3>2
  <2> QED BY <2>1, <2>2
<1>5. Ordered(d)
  <2> SUFFICES ASSUME NEW i \in 1..n + 1, NEW j \in 1..n + 1, i < j
               PROVE  d[i].retired <= d[j].retired
    BY <1>1 DEF Ordered
  <2>1. i \in 1..n
    BY <1>1
  <2>2. CASE j = n + 1
    BY <1>1, <1>4, <2>1, <2>2
  <2>3. CASE j # n + 1
    <3>1. j \in 1..n
      BY <1>1, <2>3
    <3> QED BY <1>1, <2>1, <3>1 DEF Ordered
  <2> QED BY <2>2, <2>3
<1>6. Ordered(Tail(d))
  <2>1. Len(d) >= 1 /\ Len(d) - 1 = n
    BY <1>1
  <2>2. Len(Tail(d)) = n /\ \A j \in 1..n : Tail(d)[j] = d[j + 1] /\ j + 1 \in 1..n + 1
    BY <1>1, <2>1, TailIs
  <2> SUFFICES ASSUME NEW i \in 1..n, NEW j \in 1..n, i < j
               PROVE  Tail(d)[i].retired <= Tail(d)[j].retired
    BY <2>2 DEF Ordered
  <2>3. i + 1 < j + 1
    BY <1>1
  <2> QED BY <1>1, <1>5, <2>2, <2>3 DEF Ordered
<1> QED BY <1>5, <1>6 DEF d

\* A capture keeps the history, and every machine in the ring was there or is the one captured.
LEMMA CaptureKeeps ==
  ASSUME NEW t, NEW c, NEW n \in Nat, History(t, c, n), NEW g \in Machines, n <= g.retired
  PROVE  /\ History(capture(t, snapshot(g), g.retired), NewRing(t, c, g), g.retired)
         /\ \A i \in 1..Len(NewRing(t, c, g)) :
              NewRing(t, c, g)[i] = g \/ \E j \in 1..Len(c) : NewRing(t, c, g)[i] = c[j]
<1> DEFINE u == Truncated(t)
           k == Kept(t, c)
           v == Pushed(u, snapshot(g), g.retired)
           all == Append(k, g)
           m == Len(k)
<1>1. t \in TimelineType /\ Holds(t, c) /\ t.pending \in 0..Len(c) /\ c \in Seq(Machines) /\ Len(c) \in Nat
  BY DEF History, Holds
<1>2. /\ u \in TimelineType /\ Holds(u, k) /\ u.pending = 0 /\ k \in Seq(Machines)
      /\ m = Newest(t, c) /\ \A j \in 1..m : k[j] = c[j] /\ j \in 1..Len(c)
  BY <1>1, TruncatedIs DEF Newest
<1>3. /\ v \in TimelineType /\ Holds(v, all) /\ v.pending = 0 /\ v.last = g.retired /\ Len(v.lights) = m + 1
  BY <1>2, PushedIs
<1>4. capture(t, snapshot(g), g.retired) = IF Len(v.lights) <= MaxFrames THEN v ELSE Evicted(v)
  BY Zenon DEF capture, Pushed, Evicted
<1>5. /\ all \in Seq(Machines) /\ Len(all) = m + 1 /\ all[m + 1] = g /\ m \in Nat /\ g.retired \in Nat
      /\ \A j \in 1..m : all[j] = k[j]
  BY <1>2, AppendIs DEF Machines
<1>6. NewRing(t, c, g) = IF Len(all) > MaxFrames THEN Tail(all) ELSE all
  BY Zenon DEF NewRing
<1> HIDE DEF u, v, all, k
<1>7. m <= Len(c) /\ Len(c) <= MaxFrames /\ MaxFrames \in Nat /\ MaxFrames >= 2
  BY <1>1, <1>2, TimelineAssumption DEF History, Newest
<1>8. Ordered(k)
  BY <1>2 DEF Ordered, History
<1>9. m > 0 => k[m].retired <= g.retired
  <2>1. ASSUME m > 0 PROVE k[m].retired <= g.retired
    <3>1. m \in 1..m /\ Len(c) # 0
      BY <1>1, <1>2, <1>5, <1>7, <2>1
    <3>2. c[m].retired = t.last /\ t.last <= n
      BY <1>2, <3>1 DEF History, Timed
    <3>3. t.last \in Int /\ g.retired \in Int
      BY <1>1, <1>5, TimelineIs
    <3> QED BY <1>2, <3>1, <3>2, <3>3
  <2> QED BY <2>1
<1>10. Ordered(all) /\ (m >= 1 => Ordered(Tail(all)))
  BY <1>2, <1>8, <1>9, OrderedKept DEF all
<1>11. \A i \in 1..m + 1 : all[i] = g \/ \E j \in 1..Len(c) : all[i] = c[j]
  <2> SUFFICES ASSUME NEW i \in 1..m + 1 PROVE all[i] = g \/ \E j \in 1..Len(c) : all[i] = c[j]
    OBVIOUS
  <2>1. i = m + 1 \/ i \in 1..m
    BY <1>5
  <2> QED BY <1>2, <1>5, <2>1
<1>12. CASE m + 1 <= MaxFrames
  <2>1. capture(t, snapshot(g), g.retired) = v /\ NewRing(t, c, g) = all
    BY <1>3, <1>4, <1>5, <1>6, <1>7, <1>12
  <2>2. Timed(v, all, g.retired)
    BY <1>3, <1>5 DEF Timed, Newest
  <2>3. v.pending \in 0..Len(all)
    BY <1>3, <1>5
  <2>4. History(v, all, g.retired)
    BY <1>3, <1>5, <1>10, <1>12, <2>2, <2>3 DEF History
  <2> QED BY <1>5, <1>11, <2>1, <2>4
<1>13. CASE ~(m + 1 <= MaxFrames)
  <2> DEFINE d == Tail(all)
             w == Evicted(v)
  <2>1. capture(t, snapshot(g), g.retired) = w /\ NewRing(t, c, g) = d /\ m = MaxFrames /\ Len(all) >= 2 /\ Len(all) >= 1
    BY <1>3, <1>4, <1>5, <1>6, <1>7, <1>13
  <2>2. /\ w \in TimelineType /\ Holds(w, d) /\ w.pending = 0 /\ w.last = g.retired
    BY <1>3, <2>1, EvictedIs
  <2>3. Len(d) = m /\ \A j \in 1..m : d[j] = all[j + 1] /\ j + 1 \in 1..m + 1
    <3>1. Len(all) - 1 = m
      BY <1>5
    <3>2. \A j \in 1..m : j + 1 \in 1..m + 1
      BY <1>5
    <3> QED BY <1>5, <2>1, <3>1, <3>2, TailIs
  <2> HIDE DEF d, w
  <2>4. m \in 1..m /\ m >= 1 /\ m # 0
    BY <1>5, <1>7, <2>1
  <2>5. d[m] = g
    BY <1>5, <2>3, <2>4
  <2>6. Timed(w, d, g.retired)
    <3>1. g.retired <= g.retired
      BY <1>5
    <3> QED BY <2>2, <2>3, <2>4, <2>5, <3>1 DEF Timed, Newest
  <2>7. w.pending \in 0..Len(d)
    BY <1>5, <2>2, <2>3
  <2>8. Ordered(d) /\ Len(d) <= MaxFrames
    BY <1>7, <1>10, <2>1, <2>3, <2>4 DEF d
  <2>9. History(w, d, g.retired)
    BY <2>2, <2>6, <2>7, <2>8 DEF History
  <2>10. \A i \in 1..Len(d) : d[i] = g \/ \E j \in 1..Len(c) : d[i] = c[j]
    BY <1>11, <2>3
  <2> QED BY <2>1, <2>9, <2>10
<1> QED BY <1>12, <1>13

-----------------------------------------------------------------------------
(* The guest.                                                               *)

LEMMA PlacesAre ==
  /\ Pcs \subseteq Nat /\ 0 \in Pcs /\ Callee \in Pcs /\ Callee \in Int
  /\ \A pc \in BreakPcs : pc \in Nat /\ pc # NoPc
  /\ \A n \in Counts : n \in Nat
<1>1. /\ Pcs \subseteq Nat /\ 0 \in Pcs /\ Callee \in Pcs /\ BreakPcs \subseteq Pcs
      /\ Counts \subseteq Nat \ {0}
  BY Zenon, LiveAssumption
<1> HIDE DEF Pcs
<1>2. \A pc \in BreakPcs : pc \in Nat
  BY <1>1
<1>3. \A pc \in Nat : pc # NoPc
  BY DEF NoPc
<1> QED BY <1>1, <1>2, <1>3

\* The instructions one by one: what h may be after g.
NextOf(g) == [g EXCEPT !.pc = @ + 1, !.retired = @ + 1]
AfterOp(g, h) == h = [NextOf(g) EXCEPT !.ram[g.retired % 2] = NextOf(g).retired, !.fb[0] = NextOf(g).retired]
AfterJump(g, h) == h = NextOf(g) \/ h = [NextOf(g) EXCEPT !.pc = 0]
AfterCall(g, h) == h = [NextOf(g) EXCEPT !.pc = Callee, !.ra = g.pc + 1, !.depth = @ + 1]
AfterRet(g, h) == h = [NextOf(g) EXCEPT !.pc = g.ra, !.depth = @ - 1]
AfterLoop(g, h) == h = [NextOf(g) EXCEPT !.pc = g.pc]

LEMMA RetiredCases ==
  ASSUME NEW g, NEW h \in Retired(g)
  PROVE  \/ Code[g.pc] = "op" /\ AfterOp(g, h)
         \/ Code[g.pc] = "jump" /\ AfterJump(g, h)
         \/ Code[g.pc] = "call" /\ AfterCall(g, h)
         \/ Code[g.pc] = "ret" /\ AfterRet(g, h)
         \/ Code[g.pc] \notin {"op", "jump", "call", "ret"} /\ AfterLoop(g, h)
<1> DEFINE i == Code[g.pc]
<1>1. CASE i = "op"
  BY <1>1 DEF Retired, AfterOp, NextOf
<1>2. CASE i = "jump"
  BY <1>2 DEF Retired, AfterJump, NextOf
<1>3. CASE i = "call"
  BY <1>3 DEF Retired, AfterCall, NextOf
<1>4. CASE i = "ret"
  BY <1>4 DEF Retired, AfterRet, NextOf
<1>5. CASE i \notin {"op", "jump", "call", "ret"}
  BY <1>5 DEF Retired, AfterLoop, NextOf
<1> QED BY <1>1, <1>2, <1>3, <1>4, <1>5

\* A machine with other registers or other memory.
Moved(g, pc, ra, depth, n) == [g EXCEPT !.pc = pc, !.ra = ra, !.depth = depth, !.retired = n]

LEMMA MovedIs ==
  ASSUME NEW g \in Machines, NEW pc \in Int, NEW ra \in Int, NEW depth \in Int, NEW n \in Nat
  PROVE  LET h == Moved(g, pc, ra, depth, n)
         IN  /\ h \in Machines /\ h.pc = pc /\ h.ra = ra /\ h.depth = depth /\ h.retired = n
             /\ h.ram = g.ram /\ h.fb = g.fb
<1> DEFINE h == Moved(g, pc, ra, depth, n)
           Of(R, F) == [pc : Int, ra : Int, depth : Int, retired : Nat, ram : R, fb : F]
<1>1. ASSUME NEW R, NEW F, g \in Of(R, F)
      PROVE  h \in Of(R, F)
  BY <1>1 DEF Moved
<1>2. ASSUME NEW R, NEW F, g \in Of(R, F)
      PROVE  /\ h.pc = pc /\ h.ra = ra /\ h.depth = depth /\ h.retired = n
             /\ h.ram = g.ram /\ h.fb = g.fb
  BY <1>2 DEF Moved
<1>3. Machines = Of([0..1 -> Nat], [0..0 -> Nat])
  BY DEF Machines
<1> HIDE DEF h, Of
<1>4. h \in Machines
  BY <1>1, <1>3
<1>5. h.pc = pc /\ h.ra = ra /\ h.depth = depth /\ h.retired = n /\ h.ram = g.ram /\ h.fb = g.fb
  BY <1>2, <1>3
<1> QED BY <1>4, <1>5 DEF h

\* What an instruction does to the registers.
LEMMA RetiredIs ==
  ASSUME NEW g \in Machines, NEW h \in Retired(g)
  PROVE  /\ h \in Machines /\ h.retired = g.retired + 1
         /\ \/ Code[g.pc] = "op" /\ h.pc = g.pc + 1 /\ h.ra = g.ra /\ h.depth = g.depth
            \/ Code[g.pc] = "jump" /\ h.pc \in {0, g.pc + 1} /\ h.ra = g.ra /\ h.depth = g.depth
            \/ Code[g.pc] = "call" /\ h.pc = Callee /\ h.ra = g.pc + 1 /\ h.depth = g.depth + 1
            \/ Code[g.pc] = "ret" /\ h.pc = g.ra /\ h.ra = g.ra /\ h.depth = g.depth - 1
            \/ Code[g.pc] \notin {"op", "jump", "call", "ret"} /\ h.pc = g.pc /\ h.ra = g.ra /\ h.depth = g.depth
<1> DEFINE n == NextOf(g)
<1>1. /\ g.pc \in Int /\ g.ra \in Int /\ g.depth \in Int /\ g.retired \in Nat
      /\ g.pc + 1 \in Int /\ g.depth + 1 \in Int /\ g.depth - 1 \in Int /\ g.retired + 1 \in Nat
  BY DEF Machines
<1>2. g.retired % 2 \in 0..1 /\ Callee \in Int /\ 0 \in Int
  <2>1. Callee \in Int
    BY PlacesAre
  <2>2. g.retired \in Nat
    BY <1>1
  <2>3. g.retired % 2 \in 0..1
    BY <2>2
  <2> QED BY <2>1, <2>3
<1>0. n = Moved(g, g.pc + 1, g.ra, g.depth, g.retired + 1)
  BY <1>1 DEF NextOf, Moved, Machines
<1>n. /\ n \in Machines /\ n.pc = g.pc + 1 /\ n.ra = g.ra /\ n.depth = g.depth /\ n.retired = g.retired + 1
      /\ n.ram = g.ram /\ n.fb = g.fb
  BY <1>0, <1>1, MovedIs
<1>3. CASE Code[g.pc] = "op" /\ AfterOp(g, h)
  <2> DEFINE q == g.retired % 2
             r == n.retired
             ram == [n.ram EXCEPT ![q] = r]
             fb == [n.fb EXCEPT ![0] = r]
  <2>1. h = [n EXCEPT !.ram = ram, !.fb = fb]
    BY <1>3 DEF AfterOp
  <2>2. r \in Nat /\ n.ram \in [0..1 -> Nat] /\ n.fb \in [0..0 -> Nat] /\ q \in 0..1
    BY <1>n, <1>1, <1>2 DEF Machines
  <2> HIDE DEF n, q, r
  <2>3. ram \in [0..1 -> Nat] /\ fb \in [0..0 -> Nat]
    BY <2>2
  <2> HIDE DEF ram, fb
  <2>4. h \in Machines /\ h.pc = n.pc /\ h.ra = n.ra /\ h.depth = n.depth /\ h.retired = n.retired
    BY <1>n, <2>1, <2>3 DEF Machines
  <2> QED BY <1>n, <1>3, <2>4
<1>4. CASE Code[g.pc] = "jump" /\ AfterJump(g, h)
  <2>1. h = n \/ h = [n EXCEPT !.pc = 0]
    BY <1>4 DEF AfterJump
  <2> HIDE DEF n
  <2>2. h \in Machines /\ h.pc \in {0, n.pc} /\ h.ra = n.ra /\ h.depth = n.depth /\ h.retired = n.retired
    BY <1>n, <2>1 DEF Machines
  <2> QED BY <1>n, <1>4, <2>2
<1>5. CASE Code[g.pc] = "call" /\ AfterCall(g, h)
  <2>1. h = Moved(n, Callee, g.pc + 1, n.depth + 1, n.retired)
    BY <1>5, <1>n DEF AfterCall, Moved, Machines
  <2> HIDE DEF n
  <2>2. h \in Machines /\ h.pc = Callee /\ h.ra = g.pc + 1 /\ h.depth = n.depth + 1 /\ h.retired = n.retired
    BY <1>n, <1>1, <1>2, <2>1, MovedIs
  <2> QED BY <1>n, <1>5, <2>2
<1>6. CASE Code[g.pc] = "ret" /\ AfterRet(g, h)
  <2>1. h = Moved(n, g.ra, n.ra, n.depth - 1, n.retired)
    BY <1>6, <1>n DEF AfterRet, Moved, Machines
  <2> HIDE DEF n
  <2>2. h \in Machines /\ h.pc = g.ra /\ h.ra = n.ra /\ h.depth = n.depth - 1 /\ h.retired = n.retired
    BY <1>n, <1>1, <1>2, <2>1, MovedIs
  <2> QED BY <1>n, <1>6, <2>2
<1>7. CASE Code[g.pc] \notin {"op", "jump", "call", "ret"} /\ AfterLoop(g, h)
  <2>1. h = Moved(n, g.pc, n.ra, n.depth, n.retired)
    BY <1>7, <1>n DEF AfterLoop, Moved, Machines
  <2> HIDE DEF n
  <2>2. h \in Machines /\ h.pc = g.pc /\ h.ra = n.ra /\ h.depth = n.depth /\ h.retired = n.retired
    BY <1>n, <1>1, <1>2, <2>1, MovedIs
  <2> QED BY <1>n, <1>7, <2>2
<1> QED BY <1>3, <1>4, <1>5, <1>6, <1>7, RetiredCases

-----------------------------------------------------------------------------
(* The history of a session.                                                *)

HistoryInv == vm \in Machines /\ History(timeline, captured, vm.retired)

\* What a frame gives back.
LEMMA FramesAre ==
  ASSUME NEW t, NEW c, Holds(t, c), NEW i \in 1..Len(c)
  PROVE  c[i] \in Machines /\ snapshot_at(t, i) = snapshot(c[i])
<1>1. c \in Seq(Machines) /\ c[i] \in Machines /\ i \in Nat
  BY DEF Holds
<1>2. t.lights[i] = LightOf(c[i])
  BY DEF Holds, LightsFor
<1>3. reconstruct(t.ram, i) = c[i].ram
  <2>1. PICK images : /\ LogOK(t.ram, images, 0..1) /\ Len(images) = Len(c)
                      /\ \A j \in 1..Len(c) : images[j] = c[j].ram
    BY DEF Holds, RamFor
  <2>2. Shows(t.ram.frames, i, c[i].ram)
    BY <2>1 DEF LogOK
  <2>3. c[i].ram \in [0..1 -> Nat]
    BY <1>1 DEF Machines
  <2> QED BY <1>1, <2>2, <2>3, ReconstructIs
<1>4. reconstruct(t.fb, i) = c[i].fb
  <2>1. PICK images : /\ LogOK(t.fb, images, 0..0) /\ Len(images) = Len(c)
                      /\ \A j \in 1..Len(c) : images[j] = c[j].fb
    BY DEF Holds, FbFor
  <2>2. Shows(t.fb.frames, i, c[i].fb)
    BY <2>1 DEF LogOK
  <2>3. c[i].fb \in [0..0 -> Nat]
    BY <1>1 DEF Machines
  <2> QED BY <1>1, <2>2, <2>3, ReconstructIs
<1>5. snapshot_at(t, i) = [light |-> LightOf(c[i]), ram |-> c[i].ram, fb |-> c[i].fb]
  BY <1>2, <1>3, <1>4 DEF snapshot_at
<1>6. snapshot(c[i]) = [light |-> LightOf(c[i]), ram |-> c[i].ram, fb |-> c[i].fb]
  BY DEF snapshot, LightOf
<1> QED BY <1>1, <1>5, <1>6

LEMMA EmptyHistory ==
  ASSUME NEW n \in Nat, NEW on \in BOOLEAN
  PROVE  History(Cleared(on), <<>>, n)
<1> DEFINE t == Cleared(on)
           none == <<>>
<1>1. none \in Seq(Machines) /\ none \in Seq([0..1 -> Nat]) /\ none \in Seq([0..0 -> Nat]) /\ Len(none) = 0
      /\ none \in Seq(Lights) /\ none \in Seq(Nat) /\ none \in Seq(FrameType)
  OBVIOUS
<1>2. none \in PageMaps
  <2>1. none \in [1..0 -> Nat]
    OBVIOUS
  <2>2. 1..0 \in SUBSET Nat
    OBVIOUS
  <2> QED BY <2>1, <2>2 DEF PageMaps
<1>3. /\ t.ram = EmptyLog /\ t.fb = EmptyLog /\ t.lights = none /\ t.retired = none /\ t.last = NoCount
      /\ t.pending = 0
  BY DEF Cleared
<1> HIDE DEF none
<1>4. EmptyLog.frames = none /\ EmptyLog \in LogType
  <2>1. EmptyLog = [frames |-> none, prev |-> none, since |-> 0]
    BY DEF EmptyLog, none
  <2> QED BY <1>1, <1>2, <2>1 DEF LogType
<1>5. t \in TimelineType
  <2>1. t = [ram |-> EmptyLog, fb |-> EmptyLog, lights |-> none, retired |-> none, last |-> NoCount,
             interval |-> BaseInterval, evicted |-> 0, pending |-> 0, enabled |-> on]
    BY DEF Cleared, none
  <2>2. NoCount \in Int /\ BaseInterval \in Int
    BY TimelineAssumption DEF NoCount
  <2> QED BY <1>1, <1>4, <2>1, <2>2 DEF TimelineType, TimelinesOf
<1> HIDE DEF t
<1>6. LogOK(EmptyLog, none, 0..1) /\ LogOK(EmptyLog, none, 0..0)
  <2>1. \A i \in 1..Len(none) : FALSE
    BY <1>1
  <2>2. ~(Len(none) > 0)
    BY <1>1
  <2> QED BY <1>1, <1>4, <2>1, <2>2 DEF LogOK
<1>7. \A i \in 1..Len(none) : FALSE
  BY <1>1
<1>8. Holds(t, none)
  <2>1. RamFor(EmptyLog, none) /\ FbFor(EmptyLog, none)
    BY <1>6, <1>7 DEF RamFor, FbFor
  <2>2. LightsFor(none, none) /\ CountsFor(none, none)
    BY <1>1, <1>7 DEF LightsFor, CountsFor
  <2> QED BY <1>1, <1>3, <2>1, <2>2 DEF Holds
<1>9. Ordered(none) /\ Timed(t, none, n) /\ Len(none) <= MaxFrames /\ t.pending \in 0..Len(none)
  <2>1. Ordered(none)
    BY <1>7 DEF Ordered
  <2>2. Timed(t, none, n)
    BY <1>1, <1>3 DEF Timed
  <2> QED BY <1>1, <1>3, <2>1, <2>2, TimelineAssumption
<1>10. History(t, none, n)
  BY <1>5, <1>8, <1>9 DEF History
<1> QED BY <1>10 DEF t, none

\* The machine goes on by an instruction or not at all.
Advances == vm' = vm \/ vm' \in Retired(vm)
Captures == timeline' = capture(timeline, snapshot(vm'), vm'.retired) /\ captured' = NewRing(timeline, captured, vm')

LEMMA AdvanceKeeps ==
  ASSUME HistoryInv, Advances, UNCHANGED <<timeline, captured>>
  PROVE  HistoryInv'
<1>1. vm' \in Machines /\ vm.retired \in Nat /\ vm'.retired \in Nat /\ vm.retired <= vm'.retired
  <2>1. CASE vm' = vm
    BY <2>1 DEF HistoryInv, Machines
  <2>2. CASE vm' \in Retired(vm)
    <3>1. vm' \in Machines /\ vm'.retired = vm.retired + 1
      BY <2>2, RetiredIs DEF HistoryInv
    <3> QED BY <3>1 DEF HistoryInv, Machines
  <2> QED BY <2>1, <2>2 DEF Advances
<1>2. History(timeline, captured, vm'.retired)
  <2>1. timeline.last \in Int
    BY TimelineIs DEF HistoryInv, History
  <2>2. Timed(timeline, captured, vm.retired)
    BY DEF HistoryInv, History
  <2>3. Timed(timeline, captured, vm'.retired)
    BY <1>1, <2>1, <2>2 DEF Timed
  <2> QED BY <2>3 DEF HistoryInv, History
<1> QED BY <1>1, <1>2 DEF HistoryInv

LEMMA CapturesKeeps ==
  ASSUME HistoryInv, Advances, Captures
  PROVE  HistoryInv'
<1>1. vm' \in Machines /\ vm.retired \in Nat /\ vm'.retired \in Nat /\ vm.retired <= vm'.retired
  <2>1. CASE vm' = vm
    BY <2>1 DEF HistoryInv, Machines
  <2>2. CASE vm' \in Retired(vm)
    <3>1. vm' \in Machines /\ vm'.retired = vm.retired + 1
      BY <2>2, RetiredIs DEF HistoryInv
    <3> QED BY <3>1 DEF HistoryInv, Machines
  <2> QED BY <2>1, <2>2 DEF Advances
<1>2. History(timeline, captured, vm.retired)
  BY DEF HistoryInv
<1>3. History(timeline', captured', vm'.retired)
  BY <1>1, <1>2, CaptureKeeps DEF Captures
<1> QED BY <1>1, <1>3 DEF HistoryInv

\* A restore puts the machine back as it was captured.
LEMMA RestoreIs ==
  ASSUME HistoryInv, NEW i \in DOMAIN timeline.lights, restore_timepoint(i)
  PROVE  /\ i \in 1..Len(captured) /\ vm' = captured[i] /\ vm' \in Machines
         /\ timeline' = RewindUpdate(timeline, i, timeline.retired[i]) /\ captured' = captured
<1>1. Holds(timeline, captured)
  BY DEF HistoryInv, History
<1>2. timeline.lights \in Seq(Lights) /\ Len(timeline.lights) = Len(captured)
  BY <1>1 DEF Holds, LightsFor
<1>3. i \in 1..Len(captured)
  <2>1. DOMAIN timeline.lights = 1..Len(timeline.lights)
    BY <1>2
  <2> QED BY <1>2, <2>1
<1> DEFINE g == captured[i]
<1>4. g \in Machines /\ snapshot_at(timeline, i) = snapshot(g)
  BY <1>1, <1>3, FramesAre
<1>5. vm' = [pc |-> snapshot(g).light.pc, ra |-> snapshot(g).light.ra, depth |-> snapshot(g).light.depth,
             retired |-> snapshot(g).light.retired, ram |-> snapshot(g).ram, fb |-> snapshot(g).fb]
  BY <1>4 DEF restore_timepoint
<1> HIDE DEF g
<1>6. vm' = [pc |-> g.pc, ra |-> g.ra, depth |-> g.depth, retired |-> g.retired, ram |-> g.ram, fb |-> g.fb]
  BY <1>4, <1>5, LightIs
<1>7. vm' = g
  BY <1>4, <1>6 DEF Machines
<1>8. timeline' = RewindUpdate(timeline, i, timeline.retired[i]) /\ captured' = captured
  BY DEF restore_timepoint, rewind_to, RewindUpdate
<1> QED BY <1>3, <1>4, <1>7, <1>8 DEF g

LEMMA RestoreKeeps ==
  ASSUME HistoryInv, NEW i \in DOMAIN timeline.lights, restore_timepoint(i)
  PROVE  HistoryInv'
<1> DEFINE t == timeline
           c == captured
           u == RewindUpdate(t, i, t.retired[i])
<1>1. i \in 1..Len(c) /\ vm' = c[i] /\ vm' \in Machines /\ timeline' = u /\ captured' = c
  BY RestoreIs
<1>2. t \in TimelineType /\ Holds(t, c) /\ Ordered(c) /\ Len(c) <= MaxFrames /\ c \in Seq(Machines) /\ Len(c) \in Nat
  BY DEF HistoryInv, History, Holds
<1>3. t.retired[i] = c[i].retired /\ c[i].retired \in Int /\ c[i].retired <= c[i].retired
  <2>1. t.retired[i] = c[i].retired
    BY <1>1, <1>2 DEF Holds, CountsFor
  <2>2. c[i].retired \in Int
    BY <1>1 DEF Machines
  <2> QED BY <2>1, <2>2
<1>4. i \in Nat /\ i # 0 /\ i \in 0..Len(c) /\ Len(c) # 0
  BY <1>1, <1>2
<1> HIDE DEF t, c
<1>5. u \in TimelineType /\ Fields(u, t.ram, t.fb, t.lights, t.retired, c[i].retired, i, t.enabled)
  BY <1>2, <1>3, <1>4, RewindFields
<1> HIDE DEF u
<1>6. Holds(u, c) /\ u.pending = i /\ u.last = c[i].retired
  BY <1>2, <1>5 DEF Holds, Fields
<1>7. Timed(u, c, c[i].retired)
  BY <1>3, <1>4, <1>6 DEF Timed, Newest
<1>8. History(u, c, c[i].retired)
  BY <1>2, <1>4, <1>5, <1>6, <1>7 DEF History
<1> QED BY <1>1, <1>8 DEF HistoryInv

LEMMA ToggleKeeps ==
  ASSUME HistoryInv, ToggleTimeTravel
  PROVE  HistoryInv'
<1>1. vm' = vm /\ vm \in Machines /\ vm.retired \in Nat /\ History(timeline, captured, vm.retired)
  BY DEF HistoryInv, ToggleTimeTravel, Machines
<1>2. CASE timeline.enabled
  <2>1. timeline' = Cleared(FALSE) /\ captured' = <<>>
    BY <1>2 DEF ToggleTimeTravel, set_enabled
  <2> QED BY <1>1, <2>1, EmptyHistory DEF HistoryInv
<1>3. CASE ~timeline.enabled
  <2> DEFINE t == timeline
             u == EnableUpdate(t)
  <2>1. timeline' = u /\ captured' = captured
    BY <1>3 DEF ToggleTimeTravel, set_enabled, EnableUpdate
  <2>2. t \in TimelineType
    BY <1>1 DEF History
  <2> HIDE DEF t
  <2>3. u \in TimelineType /\ Fields(u, t.ram, t.fb, t.lights, t.retired, t.last, t.pending, TRUE)
    BY <2>2, EnableFields
  <2>4. History(u, captured, vm.retired)
    <3> HIDE DEF u
    <3>1. History(t, captured, vm.retired)
      BY <1>1 DEF t
    <3> QED BY <2>3, <3>1 DEF History, Holds, Timed, Newest, Fields
  <2> QED BY <1>1, <2>1, <2>4 DEF HistoryInv
<1> QED BY <1>2, <1>3


\* What a step does to the machine and its history.
Effect ==
  \/ Advances /\ (Captures \/ UNCHANGED <<timeline, captured>>)
  \/ \E i \in DOMAIN timeline.lights : restore_timepoint(i)
  \/ ToggleTimeTravel

Quiet == UNCHANGED <<vm, timeline, captured>>

LEMMA CaptureIs ==
  ASSUME NEW g, g = vm', Capture(g) \/ UNCHANGED <<timeline, captured>>
  PROVE  Captures \/ UNCHANGED <<timeline, captured>>
BY Zenon DEF Capture, Captures, NewRing, Kept

LEMMA NowIs ==
  ASSUME NEW g, capture_now(g) \/ maybe_capture(g)
  PROVE  Capture(g) \/ UNCHANGED <<timeline, captured>>
BY Zenon DEF capture_now, maybe_capture

LEMMA FinishIs ==
  ASSUME NEW g, g = vm', Finish(g)
  PROVE  (Captures \/ UNCHANGED <<timeline, captured>>) /\ state' = "paused" /\ busy' = Idle
<1>1. capture_now(g) /\ state' = "paused" /\ busy' = Idle
  BY Zenon DEF Finish
<1> QED BY Zenon, <1>1, NowIs, CaptureIs

LEMMA BeginIs ==
  ASSUME NEW op, Begin(op)
  PROVE  Quiet
BY Zenon DEF Begin, Quiet

LEMMA MachineEffect ==
  ASSUME Machine
  PROVE  Advances /\ (Captures \/ UNCHANGED <<timeline, captured>>)
<1>1. CASE DriveStops
  <2>1. vm' = vm /\ capture_now(vm)
    BY Zenon, <1>1 DEF DriveStops
  <2> QED BY Zenon, <2>1, NowIs, CaptureIs DEF Advances
<1>2. CASE DriveStep
  <2>1. vm' \in Retired(vm) /\ (UNCHANGED <<timeline, captured>> \/ maybe_capture(vm'))
    BY Zenon, <1>2 DEF DriveStep
  <2> QED BY Zenon, <2>1, NowIs, CaptureIs DEF Advances
<1>3. CASE DriveStalls
  <2>1. vm' = vm /\ maybe_capture(vm)
    BY Zenon, <1>3 DEF DriveStalls
  <2> QED BY Zenon, <2>1, NowIs, CaptureIs DEF Advances
<1>4. CASE DriveHalts
  <2>1. vm' = vm /\ capture_now(vm)
    BY Zenon, <1>4 DEF DriveHalts
  <2> QED BY Zenon, <2>1, NowIs, CaptureIs DEF Advances
<1>5. CASE CyclesStep
  <2>1. (vm' \in Retired(vm) \/ vm' = vm) /\ (Finish(vm') \/ UNCHANGED <<timeline, captured>>)
    BY Zenon, <1>5 DEF CyclesStep, Retires
  <2> QED BY Zenon, <2>1, FinishIs DEF Advances
<1>6. CASE InstructionsStep
  <2>1. vm' \in Retired(vm) /\ (Finish(vm') \/ UNCHANGED <<timeline, captured>>)
    BY Zenon, <1>6 DEF InstructionsStep, Retires
  <2> QED BY Zenon, <2>1, FinishIs DEF Advances
<1>7. CASE LineBreaks \/ LineStops \/ LineExpires
  <2>1. vm' \in Retired(vm) /\ Finish(vm')
    BY Zenon, <1>7 DEF LineBreaks, LineStops, LineExpires, Retires
  <2> QED BY Zenon, <2>1, FinishIs DEF Advances
<1>8. CASE LineGoesOn
  <2>1. vm' \in Retired(vm) /\ UNCHANGED <<timeline, captured>>
    BY Zenon, <1>8 DEF LineGoesOn, Retires
  <2> QED BY Zenon, <2>1 DEF Advances
<1>9. CASE GivesUp
  <2>1. vm' = vm /\ Finish(vm)
    BY Zenon, <1>9 DEF GivesUp
  <2> QED BY Zenon, <2>1, FinishIs DEF Advances
<1>10. CASE StepHalts
  <2>1. vm' = vm /\ capture_now(vm)
    BY Zenon, <1>10 DEF StepHalts
  <2> QED BY Zenon, <2>1, NowIs, CaptureIs DEF Advances
<1> QED BY Zenon, <1>1, <1>2, <1>3, <1>4, <1>5, <1>6, <1>7, <1>8, <1>9, <1>10 DEF Machine

LEMMA UserEffect ==
  ASSUME User
  PROVE  Effect
<1>0. ASSUME Quiet PROVE Effect
  BY Zenon, <1>0 DEF Quiet, Effect, Advances
<1>1. CASE DriveStart
  BY Zenon, <1>0, <1>1 DEF DriveStart, Quiet
<1>2. CASE StepCycles \/ StepInstructions \/ StepLine(TRUE) \/ StepLine(FALSE)
  <2>1. \E op : Begin(op)
    BY Zenon, <1>2 DEF StepCycles, StepInstructions, StepLine
  <2> QED BY Zenon, <1>0, <2>1, BeginIs
<1>3. ASSUME NEW pc, run_to(pc) PROVE Effect
  BY Zenon, <1>0, <1>3 DEF run_to, Quiet
<1>4. CASE StepOver
  <2>1. (\E op : Begin(op)) \/ (\E pc : run_to(pc))
    BY Zenon, <1>4 DEF StepOver
  <2> QED BY Zenon, <1>0, <1>3, <2>1, BeginIs
<1>5. CASE StepOut
  BY Zenon, <1>3, <1>5 DEF StepOut
<1>6. CASE pause
  <2>1. vm' = vm /\ capture_now(vm)
    BY Zenon, <1>6 DEF pause
  <2> QED BY Zenon, <2>1, NowIs, CaptureIs DEF Effect, Advances
<1>7. CASE Resume \/ stop
  BY Zenon, <1>0, <1>7 DEF Resume, stop, Quiet
<1>8. CASE ToggleTimeTravel
  BY Zenon, <1>8 DEF Effect
<1>9. CASE \E pc \in Targets : run_to(pc)
  BY Zenon, <1>3, <1>9
<1>10. CASE \E pc \in BreakPcs : ToggleBreakpoint(pc)
  BY Zenon, <1>0, <1>10 DEF ToggleBreakpoint, Quiet
<1>11. CASE \E i \in DOMAIN timeline.lights : restore_timepoint(i)
  BY Zenon, <1>11 DEF Effect
<1> QED BY Zenon, <1>1, <1>2, <1>4, <1>5, <1>6, <1>7, <1>8, <1>9, <1>10, <1>11 DEF User

LEMMA StepEffect ==
  ASSUME [Next]_vars
  PROVE  Effect
<1>1. CASE Machine
  BY Zenon, <1>1, MachineEffect DEF Effect
<1>2. CASE User
  BY Zenon, <1>2, UserEffect
<1>3. CASE UNCHANGED vars
  BY Zenon, <1>3 DEF vars, Effect, Advances
<1> QED BY Zenon, <1>1, <1>2, <1>3 DEF Next

LEMMA HistoryStep ==
  ASSUME HistoryInv, [Next]_vars
  PROVE  HistoryInv'
<1>1. Effect
  BY StepEffect
<1>2. CASE Advances /\ Captures
  BY Zenon, <1>2, CapturesKeeps
<1>3. CASE Advances /\ UNCHANGED <<timeline, captured>>
  BY Zenon, <1>3, AdvanceKeeps
<1>4. CASE \E i \in DOMAIN timeline.lights : restore_timepoint(i)
  BY Zenon, <1>4, RestoreKeeps
<1>5. CASE ToggleTimeTravel
  BY Zenon, <1>5, ToggleKeeps
<1> QED BY Zenon, <1>1, <1>2, <1>3, <1>4, <1>5 DEF Effect

LEMMA HistoryStarts ==
  ASSUME Init
  PROVE  HistoryInv
<1>1. vm = [pc |-> 0, ra |-> NoPc, depth |-> 0, retired |-> 0,
            ram |-> [p \in 0..1 |-> 0], fb |-> [p \in 0..0 |-> 0]]
  BY DEF Init
<1>2. NoPc \in Int
  BY DEF NoPc
<1>3. [p \in 0..1 |-> 0] \in [0..1 -> Nat] /\ [p \in 0..0 |-> 0] \in [0..0 -> Nat]
  OBVIOUS
<1> DEFINE ram == [p \in 0..1 |-> 0]
           fb == [p \in 0..0 |-> 0]
<1> HIDE DEF ram, fb
<1>4. vm = [pc |-> 0, ra |-> NoPc, depth |-> 0, retired |-> 0, ram |-> ram, fb |-> fb]
  BY <1>1 DEF ram, fb
<1>5. ram \in [0..1 -> Nat] /\ fb \in [0..0 -> Nat]
  BY <1>3 DEF ram, fb
<1>6. vm \in Machines /\ vm.retired \in Nat
  BY <1>2, <1>4, <1>5 DEF Machines
<1>7. timeline = Cleared(FALSE) /\ captured = <<>>
  BY DEF Init
<1> QED BY <1>6, <1>7, EmptyHistory DEF HistoryInv

LEMMA HistoryAlways == Spec => []HistoryInv
<1>1. Init => HistoryInv
  BY HistoryStarts
<1>2. HistoryInv /\ [Next]_vars => HistoryInv'
  BY HistoryStep
<1> QED BY <1>1, <1>2, PTL DEF Spec

\* Whatever the user and the machine do, every frame in the ring gives back
\* exactly the machine that was captured there.
THEOREM LiveFramesExact == Spec => []FramesExact
<1>1. HistoryInv => FramesExact
  <2> SUFFICES ASSUME HistoryInv PROVE FramesExact
    OBVIOUS
  <2>1. Holds(timeline, captured)
    BY DEF HistoryInv, History
  <2>2. Len(timeline.lights) = Len(captured) /\ DOMAIN captured = 1..Len(captured)
    BY <2>1 DEF Holds, LightsFor
  <2>3. \A i \in 1..Len(captured) : snapshot_at(timeline, i) = snapshot(captured[i])
    BY <2>1, FramesAre
  <2> QED BY <2>2, <2>3 DEF FramesExact
<1> QED BY <1>1, HistoryAlways, PTL

\* The ring never exceeds its bound, its counts never go down, and the throttle
\* never counts from a frame that was abandoned.
THEOREM LiveHistoryOrdered == Spec => []HistoryOrdered
<1>1. HistoryInv => HistoryOrdered
  <2> SUFFICES ASSUME HistoryInv PROVE HistoryOrdered
    OBVIOUS
  <2>1. History(timeline, captured, vm.retired) /\ Holds(timeline, captured)
    BY DEF HistoryInv, History
  <2>2. /\ timeline.retired \in Seq(Nat) /\ Len(timeline.retired) = Len(captured)
        /\ \A i \in 1..Len(captured) : timeline.retired[i] = captured[i].retired
    BY <2>1 DEF Holds, CountsFor
  <2>3. DOMAIN timeline.retired = 1..Len(captured)
    BY <2>2
  <2>4. Len(timeline.retired) <= MaxFrames
    BY <2>1, <2>2 DEF History
  <2>5. \A i, j \in DOMAIN timeline.retired : i < j => timeline.retired[i] <= timeline.retired[j]
    BY <2>1, <2>2, <2>3 DEF History, Ordered
  <2>6. timeline.last # NoCount => timeline.last <= vm.retired
    BY <2>1 DEF History, Timed
  <2> QED BY <2>4, <2>5, <2>6 DEF HistoryOrdered
<1> QED BY <1>1, HistoryAlways, PTL

-----------------------------------------------------------------------------
(* Breakpoints.                                                             *)

\* A machine that runs on has left the place it was resumed from behind.
LeftBehind ==
  (state = "running" /\ busy.op \in {"idle", "drive"} /\ moved) => (resumed_from # vm.pc \/ vm.pc = NoPc)

BreakInv ==
  /\ "op" \in DOMAIN busy
  /\ breakpoints \subseteq BreakPcs
  /\ busy.op = "drive" => state = "running"
  /\ LeftBehind

LEMMA IdleIs == Idle.op = "idle" /\ "op" \in DOMAIN Idle
BY DEF Idle

\* The step leaves a machine that does not run.
LEMMA StoppedKeeps ==
  ASSUME BreakInv, state' # "running", busy' = Idle, breakpoints' = breakpoints
  PROVE  BreakInv'
<1>1. busy'.op = "idle" /\ "op" \in DOMAIN busy'
  BY IdleIs
<1> QED BY <1>1 DEF BreakInv, LeftBehind

\* A step command is under way: only what it leaves matters.
LEMMA SteppingKeeps ==
  ASSUME BreakInv, "op" \in DOMAIN busy', busy'.op \notin {"idle", "drive"}, breakpoints' = breakpoints
  PROVE  BreakInv'
BY Zenon DEF BreakInv, LeftBehind

\* The check at a place forgets where the machine was resumed, unless it is here.
LEMMA CheckedKeeps ==
  ASSUME BreakInv, busy.op = "drive", Checked(vm.pc), breakpoints' = breakpoints, state' = state,
         busy' = busy \/ busy' = Idle, moved' = (moved \/ vm'.pc # vm.pc)
  PROVE  BreakInv'
<1>1. state = "running" /\ (moved => resumed_from # vm.pc \/ vm.pc = NoPc)
  BY Zenon DEF BreakInv, LeftBehind
<1>2. "op" \in DOMAIN busy' /\ (busy'.op = "drive" => state' = "running") /\ breakpoints' \subseteq BreakPcs
  BY Zenon, <1>1, IdleIs DEF BreakInv
<1>3. ASSUME moved'
      PROVE  resumed_from' # vm'.pc \/ vm'.pc = NoPc
  <2>1. moved \/ vm'.pc # vm.pc
    BY Zenon, <1>3
  <2>2. CASE resumed_from = vm.pc
    <3>1. resumed_from' = vm.pc
      BY Zenon, <2>2 DEF Checked
    <3> QED BY Zenon, <1>1, <2>1, <2>2, <3>1
  <2>3. CASE resumed_from # vm.pc
    <3>1. resumed_from' = NoPc
      BY Zenon, <2>3 DEF Checked
    <3> QED BY Zenon, <3>1
  <2> QED BY Zenon, <2>2, <2>3
<1> QED BY Zenon, <1>2, <1>3 DEF BreakInv, LeftBehind

LEMMA MachineBreak ==
  ASSUME BreakInv, Machine
  PROVE  BreakInv'
<1>1. CASE DriveStops
  <2>1. state' = "paused" /\ busy' = Idle /\ breakpoints' = breakpoints
    BY Zenon, <1>1 DEF DriveStops
  <2>2. state' # "running"
    BY <2>1
  <2> QED BY Zenon, <2>1, <2>2, StoppedKeeps
<1>2. CASE DriveStep
  <2>1. /\ busy.op = "drive" /\ Checked(vm.pc) /\ breakpoints' = breakpoints /\ state' = state
        /\ (busy' = busy \/ busy' = Idle) /\ moved' = (moved \/ vm'.pc # vm.pc)
    BY Zenon, <1>2 DEF DriveStep
  <2> QED BY Zenon, <2>1, CheckedKeeps
<1>3. CASE DriveStalls
  <2>1. /\ busy.op = "drive" /\ Checked(vm.pc) /\ breakpoints' = breakpoints /\ state' = state
        /\ busy' = Idle /\ moved' = moved /\ vm' = vm
    BY Zenon, <1>3 DEF DriveStalls
  <2>2. state = "running" /\ (moved => resumed_from # vm.pc \/ vm.pc = NoPc) /\ breakpoints \subseteq BreakPcs
    BY Zenon, <2>1 DEF BreakInv, LeftBehind
  <2>3. moved => resumed_from' # vm.pc \/ vm.pc = NoPc
    BY Zenon, <2>1, <2>2 DEF Checked
  <2>4. busy'.op = "idle" /\ "op" \in DOMAIN busy'
    BY Zenon, <2>1, IdleIs
  <2> QED BY Zenon, <2>1, <2>2, <2>3, <2>4 DEF BreakInv, LeftBehind
<1>4. CASE DriveHalts
  <2>1. state' \in {"exited", "faulted"} /\ busy' = Idle /\ breakpoints' = breakpoints
    BY Zenon, <1>4 DEF DriveHalts
  <2>2. state' # "running"
    BY <2>1
  <2> QED BY Zenon, <2>1, <2>2, StoppedKeeps
<1>5. ASSUME NEW g, Finish(g), breakpoints' = breakpoints PROVE BreakInv'
  <2>1. state' = "paused" /\ busy' = Idle
    BY Zenon, <1>5 DEF Finish
  <2>2. state' # "running"
    BY <2>1
  <2> QED BY Zenon, <1>5, <2>1, <2>2, StoppedKeeps
<1>6. CASE CyclesStep
  <2>1. CASE Finish(vm')
    BY Zenon, <1>5, <1>6, <2>1 DEF CyclesStep, debugger
  <2>2. CASE busy' = [busy EXCEPT !.left = @ - 1]
    <3>1. busy.op = "cycles" /\ "op" \in DOMAIN busy /\ breakpoints' = breakpoints
      BY Zenon, <1>6 DEF CyclesStep, BreakInv, debugger
    <3>2. DOMAIN busy' = DOMAIN busy /\ busy'.op = busy.op
      BY <2>2, <3>1
    <3>3. "op" \in DOMAIN busy' /\ busy'.op \notin {"idle", "drive"}
      BY <3>1, <3>2
    <3> QED BY Zenon, <3>1, <3>3, SteppingKeeps
  <2> QED BY Zenon, <1>6, <2>1, <2>2 DEF CyclesStep
<1>7. CASE InstructionsStep
  <2>1. CASE Finish(vm')
    BY Zenon, <1>5, <1>7, <2>1 DEF InstructionsStep, debugger
  <2>2. CASE busy' = busy
    <3>1. busy.op = "insns" /\ breakpoints' = breakpoints /\ "op" \in DOMAIN busy
      BY Zenon, <1>7 DEF InstructionsStep, debugger, BreakInv
    <3>2. busy.op \notin {"idle", "drive"}
      BY <3>1
    <3> QED BY Zenon, <2>2, <3>1, <3>2, SteppingKeeps
  <2> QED BY Zenon, <1>7, <2>1, <2>2 DEF InstructionsStep
<1>8. CASE LineBreaks \/ LineStops \/ LineExpires
  <2>1. Finish(vm') /\ breakpoints' = breakpoints
    BY Zenon, <1>8 DEF LineBreaks, LineStops, LineExpires, debugger
  <2> QED BY Zenon, <1>5, <2>1
<1>9. CASE LineGoesOn
  <2>1. /\ busy.op = "line" /\ "op" \in DOMAIN busy /\ breakpoints' = breakpoints
        /\ \/ busy' = busy
           \/ \E skip : busy' = [busy EXCEPT !.skip = skip]
    BY Zenon, <1>9 DEF LineGoesOn, BreakInv
  <2>2. "op" \in DOMAIN busy' /\ busy'.op = "line"
    BY <2>1
  <2>3. busy'.op \notin {"idle", "drive"}
    BY <2>2
  <2> QED BY Zenon, <2>1, <2>2, <2>3, SteppingKeeps
<1>10. CASE GivesUp
  BY Zenon, <1>5, <1>10 DEF GivesUp, debugger
<1>11. CASE StepHalts
  <2>1. state' \in {"exited", "faulted"} /\ busy' = Idle /\ breakpoints' = breakpoints
    BY Zenon, <1>11 DEF StepHalts, debugger
  <2>2. state' # "running"
    BY <2>1
  <2> QED BY Zenon, <2>1, <2>2, StoppedKeeps
<1> QED BY Zenon, <1>1, <1>2, <1>3, <1>4, <1>6, <1>7, <1>8, <1>9, <1>10, <1>11 DEF Machine

LEMMA UserBreak ==
  ASSUME BreakInv, User
  PROVE  BreakInv'
<1>1. CASE DriveStart
  <2>1. /\ busy = Idle /\ busy' = [op |-> "drive"] /\ state = "running"
        /\ UNCHANGED <<vm, state, breakpoints, resumed_from, moved>>
    BY Zenon, <1>1 DEF DriveStart, debugger
  <2>2. busy.op = "idle" /\ busy'.op = "drive" /\ "op" \in DOMAIN busy'
    BY <2>1, IdleIs
  <2> QED BY Zenon, <2>1, <2>2 DEF BreakInv, LeftBehind
<1>2. ASSUME NEW op, Begin(op), "op" \in DOMAIN op, op.op \notin {"idle", "drive"}
      PROVE  BreakInv'
  <2>1. busy' = op /\ breakpoints' = breakpoints
    BY Zenon, <1>2 DEF Begin, debugger
  <2> QED BY Zenon, <1>2, <2>1, SteppingKeeps
<1>3. ASSUME NEW n, Begin([op |-> "insns", target |-> n]) PROVE BreakInv'
  <2> DEFINE op == [op |-> "insns", target |-> n]
  <2>1. "op" \in DOMAIN op /\ op.op \notin {"idle", "drive"}
    OBVIOUS
  <2> QED BY Zenon, <1>2, <1>3, <2>1
<1>4. CASE StepCycles
  <2>1. PICK n \in Counts : Begin([op |-> "cycles", left |-> n])
    BY Zenon, <1>4 DEF StepCycles
  <2> DEFINE op == [op |-> "cycles", left |-> n]
  <2>2. "op" \in DOMAIN op /\ op.op \notin {"idle", "drive"}
    OBVIOUS
  <2> QED BY Zenon, <1>2, <2>1, <2>2
<1>5. CASE StepInstructions
  BY Zenon, <1>3, <1>5 DEF StepInstructions
<1>6. ASSUME NEW over, StepLine(over) PROVE BreakInv'
  <2> DEFINE skip == IF over THEN step_over_target(vm.pc) ELSE NoPc
             op == [op |-> "line", over |-> over, origin |-> Line[vm.pc], depth |-> vm.depth, skip |-> skip]
  <2>1. Begin(op) \/ Begin([op |-> "insns", target |-> vm.retired + 1])
    BY Zenon, <1>6 DEF StepLine
  <2>2. "op" \in DOMAIN op /\ op.op \notin {"idle", "drive"}
    OBVIOUS
  <2> QED BY Zenon, <1>2, <1>3, <2>1, <2>2
<1>7. ASSUME resume, busy' = busy, vm' = vm, breakpoints' = breakpoints, busy = Idle
      PROVE  BreakInv'
  <2>1. CASE state = "paused"
    <3>1. state' = "running" /\ moved' = FALSE
      BY Zenon, <1>7, <2>1 DEF resume
    <3> QED BY Zenon, <1>7, <3>1 DEF BreakInv, LeftBehind
  <2>2. CASE state # "paused"
    <3>1. UNCHANGED <<state, resumed_from, moved>>
      BY Zenon, <1>7, <2>2 DEF resume
    <3> QED BY Zenon, <1>7, <3>1 DEF BreakInv, LeftBehind
  <2> QED BY Zenon, <2>1, <2>2
<1>8. ASSUME NEW pc, run_to(pc) PROVE BreakInv'
  BY Zenon, <1>7, <1>8 DEF run_to
<1>9. CASE StepOver
  BY Zenon, <1>3, <1>8, <1>9 DEF StepOver
<1>10. CASE StepOut
  BY Zenon, <1>8, <1>10 DEF StepOut
<1>11. CASE pause \/ stop
  <2>1. busy' = Idle /\ state' \in {"paused", "stopped"} /\ breakpoints' = breakpoints
    BY Zenon, <1>11 DEF pause, stop, debugger
  <2>2. state' # "running"
    BY <2>1
  <2> QED BY Zenon, <2>1, <2>2, StoppedKeeps
<1>12. CASE Resume
  BY Zenon, <1>7, <1>12 DEF Resume
<1>13. CASE ToggleTimeTravel
  BY Zenon, <1>13 DEF ToggleTimeTravel, debugger, BreakInv, LeftBehind
<1>14. CASE \E pc \in BreakPcs : ToggleBreakpoint(pc)
  <2>1. PICK pc \in BreakPcs : ToggleBreakpoint(pc)
    BY <1>14
  <2>2. /\ UNCHANGED <<vm, state, resumed_from, busy, moved>>
        /\ (breakpoints' = breakpoints \ {pc} \/ breakpoints' = breakpoints \cup {pc})
    BY Zenon, <2>1 DEF ToggleBreakpoint
  <2>3. breakpoints' \subseteq BreakPcs
    BY Zenon, <2>1, <2>2 DEF BreakInv
  <2> QED BY Zenon, <2>2, <2>3 DEF BreakInv, LeftBehind
<1>15. CASE \E i \in DOMAIN timeline.lights : restore_timepoint(i)
  <2>1. /\ busy' = Idle /\ breakpoints' = breakpoints
        /\ state' = IF is_alive(state) THEN "paused" ELSE state
    BY Zenon, <1>15 DEF restore_timepoint
  <2>2. state' # "running"
    BY <2>1 DEF is_alive
  <2> QED BY Zenon, <2>1, <2>2, StoppedKeeps
<1> QED BY Zenon, <1>1, <1>4, <1>5, <1>6, <1>8, <1>9, <1>10, <1>11, <1>12, <1>13, <1>14, <1>15 DEF User

LEMMA BreakAlways == Spec => []BreakInv
<1>1. Init => BreakInv
  <2> SUFFICES ASSUME Init PROVE BreakInv
    OBVIOUS
  <2>1. breakpoints = {} /\ resumed_from = NoPc /\ busy = Idle
    BY Zenon DEF Init
  <2>2. busy.op = "idle" /\ "op" \in DOMAIN busy
    BY Zenon, <2>1, IdleIs
  <2>3. busy.op # "drive" /\ breakpoints \subseteq BreakPcs
    BY <2>1, <2>2
  <2> QED BY Zenon, <2>1, <2>2, <2>3 DEF BreakInv, LeftBehind
<1>2. BreakInv /\ [Next]_vars => BreakInv'
  <2> SUFFICES ASSUME BreakInv, [Next]_vars PROVE BreakInv'
    OBVIOUS
  <2>1. CASE UNCHANGED vars
    BY Zenon, <2>1 DEF vars, BreakInv, LeftBehind
  <2> QED BY Zenon, <2>1, MachineBreak, UserBreak DEF Next
<1> QED BY <1>1, <1>2, PTL DEF Spec

\* A running machine that has moved and is at a breakpoint does not go on from it.
THEOREM LiveStopsAtBreakpoints == Spec => StopsAtBreakpoints
<1>1. BreakInv /\ [Next]_vars => [(busy.op = "drive" /\ vm.pc \in breakpoints /\ moved) => UNCHANGED vm]_vars
  <2> SUFFICES ASSUME BreakInv, [Next]_vars, busy.op = "drive", vm.pc \in breakpoints, moved
               PROVE  UNCHANGED vm
    OBVIOUS
  <2>1. vm.pc # NoPc
    BY Zenon, PlacesAre DEF BreakInv
  <2>2. resumed_from # vm.pc
    BY Zenon, <2>1 DEF BreakInv, LeftBehind
  <2>3. busy # Idle
    BY IdleIs
  <2>4. CASE Machine
    <3>1. busy.op \notin {"cycles", "insns", "line"}
      OBVIOUS
    <3>2. breakpoint_hit(vm.pc)
      BY Zenon, <2>2 DEF breakpoint_hit
    <3>3. DriveStops
      BY Zenon, <2>4, <3>1, <3>2 DEF Machine, DriveStep, DriveStalls, DriveHalts, CyclesStep, InstructionsStep,
         LineBreaks, LineStops, LineGoesOn, LineExpires, GivesUp, StepHalts
    <3> QED BY Zenon, <3>3 DEF DriveStops
  <2>5. CASE User
    BY Zenon, <2>3, <2>5 DEF User, DriveStart, StepCycles, StepInstructions, StepLine, StepOver, StepOut, Begin,
       run_to, pause, Resume, stop, ToggleTimeTravel, ToggleBreakpoint, restore_timepoint
  <2>6. CASE UNCHANGED vars
    BY Zenon, <2>6 DEF vars
  <2> QED BY Zenon, <2>4, <2>5, <2>6 DEF Next
<1> QED BY <1>1, BreakAlways, PTL DEF Spec, StopsAtBreakpoints

-----------------------------------------------------------------------------
(* Stepping over calls.  A step over a call goes on to the place after it,  *)
(* so it holds for programs that come there only by returning: the function *)
(* calls nothing, and nobody jumps into it.                                 *)

Leaf(Body) ==
  /\ Body \subseteq Pcs /\ Callee \in Body /\ 0 \notin Body
  /\ \A pc \in Body : Code[pc] \in {"op", "loop", "ret"} /\ (Code[pc] = "op" => pc + 1 \in Body)
  /\ \A pc \in Pcs \ Body :
       Code[pc] # "ret" /\ (Code[pc] \in {"op", "jump", "call"} => pc + 1 \in Pcs \ Body)

\* In the function the machine is one call deep and knows the way out.
Placed(Body, g) ==
  /\ g.pc \in Pcs
  /\ g.pc \in Body => g.depth = 1 /\ g.ra \in Pcs \ Body
  /\ g.pc \notin Body => g.depth = 0

LineType == [op : {"line"}, over : BOOLEAN, origin : Nat, depth : {0, 1}, skip : Int]

\* A step over lines that began outside the function skips to its return address.
Skips(Body, b, g) ==
  /\ g.pc \in Body => b.skip = g.ra
  /\ g.pc \notin Body => b.skip = step_over_target(g.pc)

LineInv(Body) ==
  busy.op = "line" => busy \in LineType /\ (busy.over /\ busy.depth = 0 => Skips(Body, busy, vm))

OverInv(Body) ==
  /\ Placed(Body, vm)
  /\ \A i \in 1..Len(captured) : Placed(Body, captured[i])
  /\ LineInv(Body)

LEMMA PlacedStep ==
  ASSUME NEW Body, Leaf(Body), NEW g \in Machines, Placed(Body, g), NEW h \in Retired(g)
  PROVE  /\ Placed(Body, h)
         /\ g.pc \in Body /\ h.pc \in Body => h.ra = g.ra
         /\ g.pc \in Body /\ h.pc \notin Body => h.pc = g.ra
         /\ g.pc \notin Body /\ h.pc \in Body => Code[g.pc] = "call" /\ h.ra = g.pc + 1
         /\ g.pc \notin Body /\ h.pc \notin Body => Code[g.pc] # "call"
<1>1. /\ \/ Code[g.pc] = "op" /\ h.pc = g.pc + 1 /\ h.ra = g.ra /\ h.depth = g.depth
         \/ Code[g.pc] = "jump" /\ h.pc \in {0, g.pc + 1} /\ h.ra = g.ra /\ h.depth = g.depth
         \/ Code[g.pc] = "call" /\ h.pc = Callee /\ h.ra = g.pc + 1 /\ h.depth = g.depth + 1
         \/ Code[g.pc] = "ret" /\ h.pc = g.ra /\ h.ra = g.ra /\ h.depth = g.depth - 1
         \/ Code[g.pc] \notin {"op", "jump", "call", "ret"} /\ h.pc = g.pc /\ h.ra = g.ra /\ h.depth = g.depth
  BY RetiredIs
<1>2. 0 \in Pcs /\ Callee \in Pcs
  BY PlacesAre
<1>3. CASE g.pc \in Body
  <2>1. g.pc \in Pcs /\ g.depth = 1 /\ g.ra \in Pcs /\ g.ra \notin Body
    BY Zenon, <1>3 DEF Placed
  <2>2. Code[g.pc] \in {"op", "loop", "ret"} /\ (Code[g.pc] = "op" => g.pc + 1 \in Body) /\ Body \subseteq Pcs
    BY Zenon, <1>3 DEF Leaf
  <2>3. CASE Code[g.pc] = "op"
    <3>1. h.pc = g.pc + 1 /\ h.ra = g.ra /\ h.depth = 1
      BY <1>1, <2>1, <2>3
    <3>2. h.pc \in Body /\ h.pc \in Pcs
      BY <2>2, <2>3, <3>1
    <3> QED BY Zenon, <1>3, <2>1, <3>1, <3>2 DEF Placed
  <2>4. CASE Code[g.pc] = "loop"
    <3>1. h.pc = g.pc /\ h.ra = g.ra /\ h.depth = 1
      BY <1>1, <2>1, <2>4
    <3> QED BY Zenon, <1>3, <2>1, <3>1 DEF Placed
  <2>5. CASE Code[g.pc] = "ret"
    <3>1. h.pc = g.ra /\ h.depth = 0
      BY <1>1, <2>1, <2>5
    <3> QED BY Zenon, <1>3, <2>1, <3>1 DEF Placed
  <2> QED BY <2>2, <2>3, <2>4, <2>5
<1>4. CASE g.pc \notin Body
  <2>1. g.pc \in Pcs /\ g.depth = 0
    BY Zenon, <1>4 DEF Placed
  <2>2. /\ Code[g.pc] # "ret" /\ (Code[g.pc] \in {"op", "jump", "call"} => g.pc + 1 \in Pcs /\ g.pc + 1 \notin Body)
        /\ 0 \notin Body /\ Callee \in Body
    BY Zenon, <1>4, <2>1 DEF Leaf
  <2>3. CASE Code[g.pc] \in {"op", "jump"}
    <3>1. h.pc \in {0, g.pc + 1} /\ h.depth = 0 /\ Code[g.pc] # "call"
      BY <1>1, <2>1, <2>3
    <3>2. h.pc \in Pcs /\ h.pc \notin Body
      BY <1>2, <2>2, <2>3, <3>1
    <3> QED BY Zenon, <1>4, <3>1, <3>2 DEF Placed
  <2>4. CASE Code[g.pc] = "call"
    <3>1. h.pc = Callee /\ h.ra = g.pc + 1 /\ h.depth = 1
      BY <1>1, <2>1, <2>4
    <3>2. h.pc \in Pcs /\ h.pc \in Body /\ h.ra \in Pcs /\ h.ra \notin Body
      BY <1>2, <2>2, <2>4, <3>1
    <3> QED BY Zenon, <1>4, <2>4, <3>1, <3>2 DEF Placed
  <2>5. CASE Code[g.pc] \notin {"op", "jump", "call", "ret"}
    <3>1. h.pc = g.pc /\ h.depth = 0 /\ Code[g.pc] # "call"
      BY <1>1, <2>1, <2>5
    <3> QED BY Zenon, <1>4, <2>1, <3>1 DEF Placed
  <2> QED BY <2>2, <2>3, <2>4, <2>5
<1> QED BY Zenon, <1>3, <1>4

\* A step over lines skips exactly while the machine is in the function.
LEMMA SkipsStep ==
  ASSUME NEW Body, Leaf(Body), vm \in Machines, Placed(Body, vm), vm' \in Retired(vm), Skips(Body, busy, vm)
  PROVE  /\ Skipping(vm'.pc) <=> vm'.pc \in Body
         /\ vm'.pc \in Body => busy.skip = vm'.ra
<1> DEFINE g == vm
           h == vm'
<1>1. /\ Placed(Body, h)
      /\ g.pc \in Body /\ h.pc \in Body => h.ra = g.ra
      /\ g.pc \in Body /\ h.pc \notin Body => h.pc = g.ra
      /\ g.pc \notin Body /\ h.pc \in Body => Code[g.pc] = "call" /\ h.ra = g.pc + 1
      /\ g.pc \notin Body /\ h.pc \notin Body => Code[g.pc] # "call"
  BY PlacedStep
<1>2. h.pc \in Body => busy.skip = h.ra
  BY Zenon, <1>1 DEF Skips, step_over_target
<1>3. ASSUME h.pc \in Body PROVE Skipping(h.pc)
  <2>1. busy.skip = h.ra /\ h.ra \in Pcs /\ h.ra \notin Body
    BY Zenon, <1>1, <1>2, <1>3 DEF Placed
  <2>2. h.ra \in Nat
    BY <2>1, PlacesAre
  <2>3. h.ra # NoPc
    BY <2>2 DEF NoPc
  <2> QED BY Zenon, <1>3, <2>1, <2>3 DEF Skipping
<1>4. ASSUME h.pc \notin Body PROVE ~Skipping(h.pc)
  <2>1. busy.skip = NoPc \/ busy.skip = h.pc
    BY Zenon, <1>1, <1>4 DEF Skips, step_over_target
  <2> QED BY Zenon, <2>1 DEF Skipping
<1> QED BY Zenon, <1>2, <1>3, <1>4

LEMMA PlacedKept ==
  ASSUME NEW Body, Leaf(Body), HistoryInv, OverInv(Body), [Next]_vars
  PROVE  Placed(Body, vm') /\ \A i \in 1..Len(captured') : Placed(Body, captured'[i])
<1>1. Effect
  BY StepEffect
<1>2. ASSUME Advances PROVE Placed(Body, vm') /\ vm' \in Machines /\ vm.retired \in Nat /\ vm.retired <= vm'.retired
  <2>1. CASE vm' = vm
    <3>1. vm \in Machines
      BY DEF HistoryInv
    <3>2. vm.retired \in Nat
      BY <3>1 DEF Machines
    <3>3. vm.retired <= vm.retired
      BY <3>2
    <3> QED BY Zenon, <2>1, <3>1, <3>2, <3>3 DEF OverInv
  <2>2. CASE vm' \in Retired(vm)
    <3>1. vm \in Machines /\ Placed(Body, vm)
      BY DEF HistoryInv, OverInv
    <3>2. vm' \in Machines /\ vm'.retired = vm.retired + 1
      BY <2>2, <3>1, RetiredIs
    <3>3. vm.retired \in Nat
      BY <3>1 DEF Machines
    <3>4. Placed(Body, vm')
      BY <2>2, <3>1, PlacedStep
    <3> QED BY <3>2, <3>3, <3>4
  <2> QED BY Zenon, <1>2, <2>1, <2>2 DEF Advances
<1>3. CASE Advances /\ Captures
  <2>1. History(timeline, captured, vm.retired)
    BY DEF HistoryInv
  <2>2. \A i \in 1..Len(captured') : captured'[i] = vm' \/ \E j \in 1..Len(captured) : captured'[i] = captured[j]
    BY <1>2, <1>3, <2>1, CaptureKeeps DEF Captures
  <2> QED BY Zenon, <1>2, <1>3, <2>2 DEF OverInv
<1>4. CASE Advances /\ UNCHANGED <<timeline, captured>>
  BY Zenon, <1>2, <1>4 DEF OverInv
<1>5. CASE \E i \in DOMAIN timeline.lights : restore_timepoint(i)
  <2>1. PICK i \in DOMAIN timeline.lights : restore_timepoint(i)
    BY <1>5
  <2>2. i \in 1..Len(captured) /\ vm' = captured[i] /\ captured' = captured
    BY <2>1, RestoreIs
  <2> QED BY Zenon, <2>2 DEF OverInv
<1>6. CASE ToggleTimeTravel
  <2>1. vm' = vm /\ (captured' = <<>> \/ captured' = captured)
    BY Zenon, <1>6 DEF ToggleTimeTravel
  <2>2. CASE captured' = <<>>
    <3>1. \A i \in 1..Len(captured') : FALSE
      BY <2>2
    <3> QED BY Zenon, <2>1, <3>1 DEF OverInv
  <2>3. CASE captured' = captured
    BY Zenon, <2>1, <2>3 DEF OverInv
  <2> QED BY Zenon, <2>1, <2>2, <2>3
<1> QED BY Zenon, <1>1, <1>3, <1>4, <1>5, <1>6 DEF Effect

LEMMA LineKept ==
  ASSUME NEW Body, Leaf(Body), HistoryInv, BreakInv, OverInv(Body), [Next]_vars
  PROVE  LineInv(Body)'
<1> DEFINE Quits == busy'.op # "line"
<1>0. ASSUME Quits PROVE LineInv(Body)'
  BY Zenon, <1>0 DEF LineInv
<1>1. ASSUME busy' = Idle PROVE Quits
  <2>1. busy'.op = "idle"
    BY Zenon, <1>1, IdleIs
  <2> QED BY <2>1
<1>2. ASSUME busy' = busy, vm' = vm PROVE LineInv(Body)'
  BY Zenon, <1>2 DEF OverInv, LineInv
<1>3. ASSUME NEW n, busy' = [op |-> "insns", target |-> n] PROVE Quits
  BY <1>3
<1>4. ASSUME Machine PROVE LineInv(Body)'
  <2>1. CASE DriveStops \/ DriveStalls \/ DriveHalts \/ StepHalts
    BY Zenon, <1>0, <1>1, <2>1 DEF DriveStops, DriveStalls, DriveHalts, StepHalts
  <2>2. CASE DriveStep
    <3>1. (busy' = busy /\ busy.op = "drive") \/ busy' = Idle
      BY Zenon, <2>2 DEF DriveStep
    <3>2. Quits
      BY <1>1, <3>1
    <3> QED BY Zenon, <1>0, <3>2
  <2>3. CASE LineBreaks \/ LineStops \/ LineExpires \/ GivesUp
    BY Zenon, <1>0, <1>1, <2>3 DEF LineBreaks, LineStops, LineExpires, GivesUp, Finish
  <2>4. CASE CyclesStep
    <3>1. busy.op = "cycles" /\ "op" \in DOMAIN busy /\ (busy' = Idle \/ busy' = [busy EXCEPT !.left = @ - 1])
      BY Zenon, <2>4 DEF CyclesStep, BreakInv, Finish
    <3>2. Quits
      BY <1>1, <3>1
    <3> QED BY Zenon, <1>0, <3>2
  <2>5. CASE InstructionsStep
    <3>1. busy.op = "insns" /\ (busy' = Idle \/ busy' = busy)
      BY Zenon, <2>5 DEF InstructionsStep, Finish
    <3>2. Quits
      BY <1>1, <3>1
    <3> QED BY Zenon, <1>0, <3>2
  <2>6. CASE LineGoesOn
    <3>1. /\ busy.op = "line" /\ vm' \in Retired(vm)
          /\ \/ Skipping(vm'.pc) /\ busy' = busy
             \/ ~Skipping(vm'.pc)
                /\ busy' = [busy EXCEPT !.skip = IF busy.over THEN step_over_target(vm'.pc) ELSE NoPc]
      BY Zenon, <2>6 DEF LineGoesOn, Retires
    <3>2. vm \in Machines /\ Placed(Body, vm) /\ busy \in LineType
          /\ (busy.over /\ busy.depth = 0 => Skips(Body, busy, vm))
      BY Zenon, <3>1 DEF HistoryInv, OverInv, LineInv
    <3>3. CASE Skipping(vm'.pc) /\ busy' = busy
      <4>1. ASSUME busy.over, busy.depth = 0 PROVE Skips(Body, busy, vm')
        <5>1. vm'.pc \in Body /\ busy.skip = vm'.ra
          BY Zenon, <3>1, <3>2, <3>3, <4>1, SkipsStep
        <5> QED BY Zenon, <5>1 DEF Skips
      <4> QED BY Zenon, <3>2, <3>3, <4>1 DEF LineInv
    <3>4. CASE ~Skipping(vm'.pc) /\ busy' = [busy EXCEPT !.skip = IF busy.over THEN step_over_target(vm'.pc) ELSE NoPc]
      <4> DEFINE skip == IF busy.over THEN step_over_target(vm'.pc) ELSE NoPc
      <4>1. skip \in Int
        <5>1. vm'.pc \in Int
          BY <3>1, <3>2, RetiredIs DEF Machines
        <5> QED BY <5>1 DEF step_over_target, NoPc
      <4>2. busy' = [busy EXCEPT !.skip = skip]
        BY Zenon, <3>4
      <4>3. busy.over => skip = step_over_target(vm'.pc)
        OBVIOUS
      <4> HIDE DEF skip
      <4>4. busy' \in LineType /\ busy'.skip = skip /\ busy'.over = busy.over /\ busy'.depth = busy.depth
        BY <3>2, <4>1, <4>2 DEF LineType
      <4>5. ASSUME busy.over, busy.depth = 0 PROVE Skips(Body, busy', vm')
        <5>1. vm'.pc \notin Body
          BY Zenon, <3>1, <3>2, <3>4, <4>5, SkipsStep
        <5> QED BY Zenon, <4>3, <4>4, <4>5, <5>1 DEF Skips
      <4> QED BY Zenon, <4>4, <4>5 DEF LineInv
    <3> QED BY Zenon, <3>1, <3>3, <3>4
  <2> QED BY Zenon, <1>4, <2>1, <2>2, <2>3, <2>4, <2>5, <2>6 DEF Machine
<1>5. ASSUME User PROVE LineInv(Body)'
  <2>1. CASE DriveStart
    <3>1. busy' = [op |-> "drive"]
      BY Zenon, <2>1 DEF DriveStart
    <3>2. Quits
      BY <3>1
    <3> QED BY Zenon, <1>0, <3>2
  <2>2. CASE StepCycles
    <3>1. \E n : busy' = [op |-> "cycles", left |-> n]
      BY Zenon, <2>2 DEF StepCycles, Begin
    <3>2. Quits
      BY <3>1
    <3> QED BY Zenon, <1>0, <3>2
  <2>3. CASE StepInstructions
    BY Zenon, <1>0, <1>3, <2>3 DEF StepInstructions, Begin
  <2>4. ASSUME NEW over \in BOOLEAN, StepLine(over) PROVE LineInv(Body)'
    <3> DEFINE skip == IF over THEN step_over_target(vm.pc) ELSE NoPc
               op == [op |-> "line", over |-> over, origin |-> Line[vm.pc], depth |-> vm.depth, skip |-> skip]
    <3>1. (busy' = op /\ vm' = vm) \/ busy' = [op |-> "insns", target |-> vm.retired + 1]
      BY Zenon, <2>4 DEF StepLine, Begin
    <3>2. CASE busy' = op /\ vm' = vm
      <4>1. Placed(Body, vm) /\ vm \in Machines
        BY DEF OverInv, HistoryInv
      <4>2. vm.depth \in {0, 1} /\ vm.pc \in Pcs /\ (vm.depth = 0 => vm.pc \notin Body)
        BY <4>1 DEF Placed
      <4>3. Line[vm.pc] \in Nat
        <5>1. Line \in [Pcs -> Nat]
          BY Zenon, LiveAssumption
        <5> QED BY <4>2, <5>1
      <4>4. skip \in Int
        <5>1. vm.pc \in Int
          BY <4>1 DEF Machines
        <5> QED BY <5>1 DEF step_over_target, NoPc
      <4>5. over => skip = step_over_target(vm.pc)
        OBVIOUS
      <4> HIDE DEF skip
      <4>6. op \in LineType /\ op.over = over /\ op.depth = vm.depth /\ op.skip = skip
        BY <4>2, <4>3, <4>4 DEF LineType
      <4> HIDE DEF op
      <4>7. op.over /\ op.depth = 0 => Skips(Body, op, vm)
        BY Zenon, <4>2, <4>5, <4>6 DEF Skips
      <4> QED BY Zenon, <3>2, <4>6, <4>7 DEF LineInv
    <3> QED BY Zenon, <1>0, <1>3, <3>1, <3>2
  <2>5. ASSUME NEW pc, run_to(pc) PROVE LineInv(Body)'
    BY Zenon, <1>2, <2>5 DEF run_to
  <2>6. CASE StepOver
    BY Zenon, <1>0, <1>3, <2>5, <2>6 DEF StepOver, Begin
  <2>7. CASE StepOut
    BY Zenon, <2>5, <2>7 DEF StepOut
  <2>8. CASE pause \/ Resume \/ stop \/ ToggleTimeTravel
    BY Zenon, <1>2, <2>8 DEF pause, Resume, stop, ToggleTimeTravel
  <2>9. CASE \E pc \in BreakPcs : ToggleBreakpoint(pc)
    BY Zenon, <1>2, <2>9 DEF ToggleBreakpoint
  <2>10. CASE \E i \in DOMAIN timeline.lights : restore_timepoint(i)
    BY Zenon, <1>0, <1>1, <2>10 DEF restore_timepoint
  <2>11. CASE StepLine(TRUE) \/ StepLine(FALSE)
    BY Zenon, <2>4, <2>11
  <2> QED BY Zenon, <1>5, <2>1, <2>2, <2>3, <2>5, <2>6, <2>7, <2>8, <2>9, <2>10, <2>11 DEF User
<1>6. CASE UNCHANGED vars
  BY Zenon, <1>2, <1>6 DEF vars
<1> QED BY Zenon, <1>4, <1>5, <1>6 DEF Next

LEMMA OverAlways ==
  ASSUME NEW Body, Leaf(Body)
  PROVE  Spec => []OverInv(Body)
<1>1. Init => OverInv(Body)
  <2> SUFFICES ASSUME Init PROVE OverInv(Body)
    OBVIOUS
  <2>1. vm.pc = 0 /\ vm.depth = 0 /\ captured = <<>> /\ busy = Idle
    BY DEF Init
  <2>2. 0 \in Pcs /\ 0 \notin Body
    BY Zenon, PlacesAre DEF Leaf
  <2>3. \A i \in 1..Len(captured) : FALSE
    BY <2>1
  <2>4. busy.op # "line"
    BY <2>1, IdleIs
  <2> QED BY Zenon, <2>1, <2>2, <2>3, <2>4 DEF OverInv, Placed, LineInv
<1>2. HistoryInv /\ BreakInv /\ OverInv(Body) /\ [Next]_vars => OverInv(Body)'
  <2> SUFFICES ASSUME HistoryInv, BreakInv, OverInv(Body), [Next]_vars PROVE OverInv(Body)'
    OBVIOUS
  <2>1. Placed(Body, vm') /\ \A i \in 1..Len(captured') : Placed(Body, captured'[i])
    BY PlacedKept
  <2>2. LineInv(Body)'
    BY LineKept
  <2> QED BY Zenon, <2>1, <2>2 DEF OverInv
<1> QED BY <1>1, <1>2, HistoryAlways, BreakAlways, PTL DEF Spec

\* A step over lines in a program whose function calls nothing never stops
\* inside a call that it began outside of.
THEOREM LiveOverStaysOut ==
  ASSUME NEW Body, Leaf(Body)
  PROVE  Spec => OverStaysOut
<1>1. HistoryInv /\ OverInv(Body) => [(LineStops /\ busy.over) => vm'.depth <= busy.depth]_vars
  <2> SUFFICES ASSUME HistoryInv, OverInv(Body), LineStops, busy.over PROVE vm'.depth <= busy.depth
    OBVIOUS
  <2>1. busy.op = "line" /\ vm' \in Retired(vm) /\ ~Skipping(vm'.pc)
    BY Zenon DEF LineStops, Retires
  <2>2. vm \in Machines /\ Placed(Body, vm) /\ busy \in LineType
        /\ (busy.over /\ busy.depth = 0 => Skips(Body, busy, vm))
    BY Zenon, <2>1 DEF HistoryInv, OverInv, LineInv
  <2>3. Placed(Body, vm')
    BY <2>1, <2>2, PlacedStep
  <2>4. vm'.depth \in {0, 1} /\ busy.depth \in {0, 1}
    BY <2>2, <2>3 DEF Placed, LineType
  <2>5. CASE busy.depth = 1
    BY <2>4, <2>5
  <2>6. CASE busy.depth = 0
    <3>1. vm'.pc \notin Body
      BY Zenon, <2>1, <2>2, <2>6, SkipsStep
    <3>2. vm'.depth = 0
      BY Zenon, <2>3, <3>1 DEF Placed
    <3> QED BY <2>6, <3>2
  <2> QED BY <2>4, <2>5, <2>6
<1> QED BY <1>1, HistoryAlways, OverAlways, PTL DEF OverStaysOut
=============================================================================
