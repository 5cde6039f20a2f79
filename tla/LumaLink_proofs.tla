-------------------------- MODULE LumaLink_proofs --------------------------
(***************************************************************************)
(* Proofs about the link to the glasses, for all sets of photos, their     *)
(* sizes, and every length of the notification queue.                      *)
(***************************************************************************)
EXTENDS LumaLink, TLAPS

\* Who has the lock of the pipeline.
Busy(h) == handler[h].at \in {"reading", "playing"}

\* A transfer that was begun on this link is of the photo being sent, and one
\* that a torn frame or a lost link has disturbed is known to be old.
Transferred ==
  /\ files.transfer # <<>> => Parsing
  /\ files.transfer # <<>> /\ ~files.old /\ run # "ended" =>
       /\ link = "up" /\ connected /\ air.photo # None /\ ~files.partial
       /\ \A i \in DOMAIN files.transfer : files.transfer[i] \in {None, air.photo}

\* Chunks are of photos that were taken and not handed over; a photo whose
\* image is finished, or was handed over, is not sent any more.
Sent(p) == p \in taken /\ air.photo # p

Accounted ==
  /\ air.photo # None => air.photo \in taken
  /\ \A i \in DOMAIN files.transfer :
       files.transfer[i] # None => files.transfer[i] \in taken /\ delivered[files.transfer[i]] = 0
  /\ files.completed # NoImage =>
       files.completed.of # None /\ Sent(files.completed.of) /\ delivered[files.completed.of] = 0
  /\ \A p \in Photos : delivered[p] # 0 => Sent(p)

\* Each loop has at most one photo in hand, and one of them has the lock.
Handling ==
  /\ run \notin {"handing", "ended"} => handler["run"] = NoHandler
  /\ capture.at # "idle" => handler["main"] = NoHandler
  /\ \A g, h \in Callers : Busy(g) /\ Busy(h) => g = h

\* Whoever has the lock found the gap over, and it stays over until he replies;
\* what the M5 shows as received is in hand, or the message that ends it was lost.
Reacting ==
  run # "ended" =>
    /\ \A h \in Callers : Busy(h) => ~cooling
    /\ shown.state = "received" /\ shown.photo \notin missed =>
         \E h \in Callers : Busy(h) /\ handler[h].photo = shown.photo

Linked ==
  /\ TypeOK /\ Transferred /\ ImageWhole /\ Accounted /\ HandedOnce /\ Handling /\ Reacting

-----------------------------------------------------------------------------
(* The parser                                                              *)

FilesType ==
  [transfer : Data, old : BOOLEAN, partial : BOOLEAN, completed : Images, error : BOOLEAN]

LEMMA EmptyTyped ==
  /\ NoImage \in Images /\ Empty \in FilesType
  /\ Empty.transfer = <<>> /\ Empty.completed = NoImage
  /\ Empty.old = FALSE /\ Empty.partial = FALSE /\ Empty.error = FALSE
  /\ NoImage.data = <<>> /\ NoImage.of = None
<1>1. <<>> \in Data BY DEF Data
<1>2. NoImage \in Images BY <1>1 DEF NoImage, Images
<1> QED BY <1>1, <1>2 DEF Empty, FilesType, NoImage

LEMMA FailedTyped ==
  Failed \in FilesType /\ Failed.transfer = <<>> /\ Failed.completed = NoImage
BY EmptyTyped DEF Failed, FilesType, Empty

\* What a frame of the photo being sent leaves with the parser: a transfer of
\* that photo, unless it is old, and an image that was there or whose chunks
\* the transfer held.
Follows(f) ==
  /\ f \in FilesType
  /\ f.transfer # <<>> => f.completed = NoImage /\ ~f.error
  /\ f.transfer # <<>> /\ ~f.old =>
       /\ ~f.partial /\ ~(air.next > Size[air.photo])
       /\ \A i \in DOMAIN f.transfer : f.transfer[i] \in {None, air.photo}
  /\ ~f.old => \A i \in DOMAIN f.completed.data : f.completed.data[i] = f.completed.of
  /\ \A i \in DOMAIN f.transfer :
       \/ f.transfer[i] \in {None, air.photo}
       \/ \E j \in DOMAIN files.transfer : f.transfer[i] = files.transfer[j]
  /\ f.completed # NoImage =>
       \/ f.completed = files.completed
       \/ /\ air.next > Size[air.photo] /\ f.completed.of # None
          /\ \E j \in DOMAIN files.transfer : f.completed.of = files.transfer[j]

LEMMA EmptyFollows == Follows(Empty)
BY EmptyTyped DEF Follows

LEMMA FailedFollows == Follows(Failed)
BY FailedTyped, EmptyTyped DEF Follows

\* File info: the transfer is new.
LEMMA StartsFollow ==
  ASSUME files \in FilesType, Parsing, ~files.partial, air.photo \in Photos, air.next = 0,
         NEW f, f = [files EXCEPT !.transfer = InfoStarts(air.photo), !.old = FALSE]
  PROVE  Follows(f)
<1>1. /\ f.transfer = InfoStarts(air.photo) /\ f.old = FALSE /\ f.partial = files.partial
      /\ f.completed = files.completed /\ f.error = files.error
  BY DEF FilesType
<1>2. Size[air.photo] \in Nat \ {0} BY LumaAssumption
<1>3. /\ InfoStarts(air.photo) \in Data
      /\ \A i \in DOMAIN InfoStarts(air.photo) : InfoStarts(air.photo)[i] = None
  BY <1>2 DEF InfoStarts, Data
<1>4. f \in FilesType
  <2> DEFINE t == InfoStarts(air.photo)
  <2>1. t \in Data BY <1>3
  <2> HIDE DEF t
  <2>2. [files EXCEPT !.transfer = t, !.old = FALSE] \in FilesType BY <2>1 DEF FilesType
  <2> QED BY <2>2 DEF t
<1>5. files.completed = NoImage /\ ~files.error BY DEF Parsing
<1> QED BY <1>1, <1>2, <1>3, <1>4, <1>5, EmptyTyped DEF Follows

\* A chunk takes its place.
LEMMA ChunkFollows ==
  ASSUME files \in FilesType, Transferred, run # "ended", Parsing, ~files.partial,
         air.photo \in Photos, air.next \in Nat, air.next # 0,
         ~(air.next > Size[air.photo]), ~(air.next > Len(files.transfer)),
         files.transfer # <<>>,
         NEW f, f = [files EXCEPT !.transfer[air.next] = air.photo]
  PROVE  Follows(f)
<1>1. files.transfer \in Seq(Photos \cup {None}) BY DEF FilesType, Data
<1>2. air.next \in DOMAIN files.transfer BY <1>1
<1> DEFINE t == [files.transfer EXCEPT ![air.next] = air.photo]
<1>3. /\ t \in Data /\ DOMAIN t = DOMAIN files.transfer
      /\ \A i \in DOMAIN t : t[i] = IF i = air.next THEN air.photo ELSE files.transfer[i]
  <2>1. Len(files.transfer) \in Nat /\ files.transfer \in [1 .. Len(files.transfer) -> Photos \cup {None}]
    BY <1>1
  <2>2. t \in [1 .. Len(files.transfer) -> Photos \cup {None}] BY <2>1
  <2> QED BY <2>1, <2>2, <1>1 DEF Data
<1>4. f = [files EXCEPT !.transfer = t] BY DEF FilesType
<1> HIDE DEF t
<1>5. /\ f.transfer = t /\ f.old = files.old /\ f.partial = files.partial
      /\ f.completed = files.completed /\ f.error = files.error
  BY <1>4 DEF FilesType
<1>6. f \in FilesType BY <1>3, <1>4 DEF FilesType
<1>7. files.completed = NoImage /\ ~files.error BY DEF Parsing
<1>8. ~files.old => \A i \in DOMAIN t : t[i] \in {None, air.photo} BY <1>3 DEF Transferred
<1> QED BY <1>3, <1>5, <1>6, <1>7, <1>8, EmptyTyped DEF Follows

\* The end of a file whose ranges cover it.
LEMMA ImageFollows ==
  ASSUME files \in FilesType, Transferred, run # "ended", Covered(files.transfer),
         air.photo \in Photos, air.next > Size[air.photo],
         NEW f, f = [Empty EXCEPT !.completed = [data |-> files.transfer,
                                                 of |-> files.transfer[Len(files.transfer)]],
                                  !.old = files.old]
  PROVE  Follows(f)
<1> DEFINE d == files.transfer
           m == [data |-> d, of |-> d[Len(d)]]
<1>1. d \in Seq(Photos \cup {None}) /\ d # <<>> /\ \A i \in DOMAIN d : d[i] # None
  BY DEF FilesType, Data, Covered
<1>2. Len(d) \in DOMAIN d BY <1>1
<1>3. d[Len(d)] \in Photos /\ m \in Images BY <1>1, <1>2 DEF Images, Data
<1>4. ~files.old => \A i \in DOMAIN d : d[i] = air.photo BY <1>1 DEF Transferred
<1>5. m.data = d /\ m.of = d[Len(d)] OBVIOUS
<1> HIDE DEF m
<1>6. f = [Empty EXCEPT !.completed = m, !.old = files.old] BY DEF m
<1>7. /\ f.transfer = <<>> /\ f.completed = m /\ f.old = files.old
      /\ f.partial = FALSE /\ f.error = FALSE
  BY <1>6 DEF Empty
<1>8. f \in FilesType BY <1>3, <1>6, EmptyTyped DEF FilesType, Empty
<1>9. ~f.old => \A i \in DOMAIN f.completed.data : f.completed.data[i] = f.completed.of
  BY <1>2, <1>4, <1>5, <1>7
<1>10. \E j \in DOMAIN files.transfer : f.completed.of = files.transfer[j] BY <1>2, <1>5, <1>7
<1>11. f.completed.of # None BY <1>1, <1>2, <1>5, <1>7
<1> QED BY <1>7, <1>8, <1>9, <1>10, <1>11 DEF Follows

\* Nothing is taken, or the torn frame swallows what comes.
LEMMA SameFollows ==
  ASSUME files \in FilesType, Transferred, run # "ended", ImageWhole,
         (files.transfer # <<>> => files.old),
         NEW f, f = files \/ f = [files EXCEPT !.partial = FALSE]
  PROVE  Follows(f)
<1>1. /\ f.transfer = files.transfer /\ f.old = files.old
      /\ f.completed = files.completed /\ f.error = files.error /\ f \in FilesType
  BY DEF FilesType
<1> QED BY <1>1 DEF Follows, Transferred, ImageWhole, Parsing

LEMMA PushedFollows ==
  ASSUME TypeOK, Transferred, ImageWhole, run # "ended", air.photo # None
  PROVE  Follows(Pushed(air.photo, air.next))
<1>1. files \in FilesType /\ air.photo \in Photos /\ air.next \in Nat BY DEF TypeOK, FilesType
<1>2. CASE ~Parsing
  <2>1. Pushed(air.photo, air.next) = files /\ files.transfer = <<>> BY <1>2 DEF Pushed, Transferred
  <2> QED BY <1>1, <2>1, SameFollows
<1>3. CASE Parsing /\ files.partial
  <2>1. Pushed(air.photo, air.next) = [files EXCEPT !.partial = FALSE] BY <1>3 DEF Pushed
  <2>2. files.transfer # <<>> => files.old BY <1>1, <1>3 DEF Transferred, FilesType
  <2> QED BY <1>1, <2>1, <2>2, SameFollows
<1>4. CASE Parsing /\ ~files.partial
  <2>1. Pushed(air.photo, air.next) = Framed(air.photo, air.next) BY <1>4 DEF Pushed
  <2>2. CASE air.next = 0
    BY <1>1, <1>4, <2>1, <2>2, StartsFollow DEF Framed
  <2>3. CASE air.next # 0 /\ air.next > Size[air.photo]
    BY <1>1, <2>1, <2>3, ImageFollows, FailedFollows DEF Framed
  <2>4. CASE air.next # 0 /\ ~(air.next > Size[air.photo]) /\ files.transfer = <<>>
    BY <1>1, <2>1, <2>4, SameFollows DEF Framed
  <2>5. CASE /\ air.next # 0 /\ ~(air.next > Size[air.photo])
             /\ files.transfer # <<>> /\ air.next > Len(files.transfer)
    BY <1>1, <2>1, <2>5, FailedFollows DEF Framed
  <2>6. CASE /\ air.next # 0 /\ ~(air.next > Size[air.photo])
             /\ files.transfer # <<>> /\ ~(air.next > Len(files.transfer))
    BY <1>1, <1>4, <2>1, <2>6, ChunkFollows DEF Framed
  <2> QED BY <2>2, <2>3, <2>4, <2>5, <2>6
<1> QED BY <1>2, <1>3, <1>4
-----------------------------------------------------------------------------
(* Steps of the link                                                       *)

Others ==
  /\ taken' = taken /\ air' = air /\ updates' = updates
  /\ cooling' = cooling /\ missed' = missed /\ shown' = shown /\ delivered' = delivered

\* The link and the run loop go on; nothing else changes.
Links ==
  /\ Others /\ asked' = asked /\ files' = files
  /\ capture' = capture /\ mine' = mine /\ handler' = handler
  /\ link' \in {"down", "up", "lost"} /\ connected' \in BOOLEAN
  /\ run' \in {"scanning", "linking", "waiting", "handing", "pausing"}
  /\ link = "up" /\ connected => link' = "up" /\ connected'
  /\ run' = "handing" \/ handler["run"] = NoHandler

LEMMA LinksKept ==
  ASSUME Linked, run # "ended", Links
  PROVE  Linked'
<1>1. /\ taken' = taken /\ air' = air /\ updates' = updates /\ cooling' = cooling
      /\ missed' = missed /\ shown' = shown /\ delivered' = delivered
      /\ asked' = asked /\ files' = files /\ capture' = capture /\ mine' = mine
      /\ handler' = handler /\ run' # "ended"
  BY DEF Links, Others
<1>2. TypeOK' BY <1>1 DEF Links, Linked, TypeOK
<1>3. Transferred' BY <1>1 DEF Links, Linked, Transferred, Parsing, TypeOK
<1>4. ImageWhole' BY <1>1 DEF Linked, ImageWhole
<1>5. Accounted' BY <1>1 DEF Linked, Accounted, Sent
<1>6. HandedOnce' BY <1>1 DEF Linked, HandedOnce
<1>7. Handling' BY <1>1 DEF Links, Linked, Handling, Busy
<1>8. Reacting' BY <1>1 DEF Linked, Reacting, Busy
<1> QED BY <1>2, <1>3, <1>4, <1>5, <1>6, <1>7, <1>8 DEF Linked

LEMMA RadioKept ==
  ASSUME Linked, run # "ended", Radio \/ Resumes \/ Handed
  PROVE  Linked'
<1>1. Others /\ asked' = asked /\ files' = files /\ capture' = capture /\ mine' = mine /\ handler' = handler
  BY DEF Radio, OnDisconnect, Connects, ConnectFails, Subscribed, SubscribeFails, Resumes,
         Handed, Others, linkVars, glassesVars, fileVars, pipeVars
<1>2. /\ link \in {"down", "up", "lost"} /\ connected \in BOOLEAN
      /\ run \notin {"handing", "ended"} => handler["run"] = NoHandler
  BY DEF Linked, TypeOK, Handling
<1>3. /\ link' \in {"down", "up", "lost"} /\ connected' \in BOOLEAN
      /\ run' \in {"scanning", "linking", "waiting", "handing", "pausing"}
      /\ link = "up" /\ connected => link' = "up" /\ connected'
      /\ run' = "handing" \/ handler["run"] = NoHandler
  <2>1. CASE OnDisconnect BY <1>2, <2>1 DEF OnDisconnect, Linked, TypeOK
  <2>2. CASE Connects BY <1>2, <2>2 DEF Connects
  <2>3. CASE ConnectFails BY <1>2, <2>3 DEF ConnectFails
  <2>4. CASE Subscribed BY <1>2, <2>4 DEF Subscribed
  <2>5. CASE SubscribeFails BY <1>2, <2>5 DEF SubscribeFails
  <2>6. CASE Resumes BY <1>2, <2>6 DEF Resumes, linkVars
  <2>7. CASE Handed BY <1>2, <2>7 DEF Handed, Onward
  <2> QED BY <2>1, <2>2, <2>3, <2>4, <2>5, <2>6, <2>7 DEF Radio
<1> QED BY <1>1, <1>3, LinksKept DEF Links

\* The glasses take a photo when they send none.
LEMMA TakesKept ==
  ASSUME Linked, run # "ended", NEW p \in Photos, Takes(p)
  PROVE  Linked'
<1>1. /\ link' = link /\ connected' = connected /\ run' = run
      /\ files' = files /\ updates' = updates /\ capture' = capture
      /\ handler' = handler /\ cooling' = cooling /\ missed' = missed /\ shown' = shown
      /\ delivered' = delivered
  BY DEF Takes, linkVars, fileVars, pipeVars
<1>2. /\ air.photo = None /\ p \notin taken
      /\ taken' = taken \cup {p} /\ air' = [photo |-> p, next |-> 0]
      /\ asked' \in {asked, "no"} /\ mine' \in {mine, p}
  BY DEF Takes
<1>3. air'.photo = p /\ air'.next = 0 /\ p # None BY <1>2, LumaAssumption
<1>4. TypeOK' BY <1>1, <1>2 DEF Linked, TypeOK
<1>5. Transferred' BY <1>1, <1>2 DEF Linked, Transferred, Parsing
<1>6. ImageWhole' BY <1>1 DEF Linked, ImageWhole
<1>7. Accounted' BY <1>1, <1>2, <1>3 DEF Linked, Accounted, Sent
<1>8. HandedOnce' BY <1>1 DEF Linked, HandedOnce
<1>9. Handling' BY <1>1 DEF Linked, Handling, Busy
<1>10. Reacting' BY <1>1 DEF Linked, Reacting, Busy
<1> QED BY <1>4, <1>5, <1>6, <1>7, <1>8, <1>9, <1>10 DEF Linked

\* A frame arrives, or nobody listens.
LEMMA EmitsKept ==
  ASSUME Linked, run # "ended", Emits
  PROVE  Linked'
<1>1. /\ link' = link /\ connected' = connected /\ run' = run
      /\ asked' = asked /\ taken' = taken /\ capture' = capture /\ mine' = mine
      /\ handler' = handler /\ cooling' = cooling /\ missed' = missed /\ shown' = shown
      /\ delivered' = delivered
  BY DEF Emits, linkVars, pipeVars
<1>2. /\ air.photo # None /\ link = "up" /\ air.photo \in Photos /\ air.next \in Nat
      /\ updates \in 0 .. MaxUpdates /\ files \in FilesType /\ MaxUpdates \in Nat
  BY LumaAssumption DEF Emits, Linked, TypeOK, FilesType
<1>3. /\ air' \in [photo : Photos \cup {None}, next : Nat]
      /\ air.next > Size[air.photo] => air'.photo = None
      /\ ~(air.next > Size[air.photo]) => air'.photo = air.photo
  BY <1>2 DEF Emits, Linked, TypeOK
<1>4. /\ updates' \in 0 .. MaxUpdates
      /\ connected => Follows(files')
      /\ ~connected => files' = files
  BY <1>2, PushedFollows, EmptyFollows DEF Emits, OnFile, Linked, TypeOK
<1>5. files' \in FilesType BY <1>2, <1>4 DEF Follows
<1>6. TypeOK' BY <1>1, <1>3, <1>4, <1>5 DEF Linked, TypeOK, FilesType
<1>7. Transferred'
  BY <1>1, <1>2, <1>3, <1>4 DEF Linked, Transferred, Follows, Parsing
<1>8. ImageWhole' BY <1>4 DEF Linked, ImageWhole, Follows
<1>9. Accounted'
  <2>1. /\ air.photo \in taken /\ delivered[air.photo] = 0
    BY <1>2 DEF Linked, Accounted, Sent
  <2>2. air'.photo \in {None, air.photo} BY <1>3
  <2>3. \A p \in Photos : Sent(p) => Sent(p)' BY <1>1, <2>2, LumaAssumption DEF Sent
  <2>4. \A i \in DOMAIN files'.transfer :
          files'.transfer[i] # None =>
            files'.transfer[i] \in taken /\ delivered[files'.transfer[i]] = 0
    BY <1>4, <2>1 DEF Follows, Linked, Accounted
  <2>5. ASSUME files'.completed # NoImage
        PROVE  /\ files'.completed.of # None
               /\ files'.completed.of \in taken /\ air'.photo # files'.completed.of
               /\ delivered[files'.completed.of] = 0
    <3>1. CASE files'.completed = files.completed
      BY <2>2, <2>5, <3>1 DEF Linked, Accounted, Sent
    <3>2. CASE /\ air.next > Size[air.photo] /\ files'.completed.of # None
               /\ \E j \in DOMAIN files.transfer : files'.completed.of = files.transfer[j]
      <4>1. air'.photo = None BY <1>3, <3>2
      <4>2. files'.completed.of \in taken /\ delivered[files'.completed.of] = 0
        BY <3>2 DEF Linked, Accounted
      <4> QED BY <3>2, <4>1, <4>2
    <3> QED BY <1>4, <2>5, <3>1, <3>2 DEF Follows
  <2>6. \A p \in Photos : delivered'[p] # 0 => Sent(p)' BY <1>1, <2>3 DEF Linked, Accounted
  <2>7. (air.photo # None => air.photo \in taken)' BY <1>1, <2>1, <2>2
  <2> QED BY <1>1, <2>4, <2>5, <2>6, <2>7 DEF Accounted, Sent
<1>10. HandedOnce' BY <1>1 DEF Linked, HandedOnce
<1>11. Handling' BY <1>1 DEF Linked, Handling, Busy
<1>12. Reacting' BY <1>1 DEF Linked, Reacting, Busy
<1> QED BY <1>6, <1>7, <1>8, <1>9, <1>10, <1>11, <1>12 DEF Linked

\* What was begun on the lost link is old from now on.
LEMMA LinkLostKept ==
  ASSUME Linked, run # "ended", LinkLost
  PROVE  Linked'
<1>1. /\ connected' = connected /\ run' = run /\ updates' = updates
      /\ taken' = taken /\ capture' = capture /\ mine' = mine
      /\ handler' = handler /\ cooling' = cooling /\ missed' = missed /\ shown' = shown
      /\ delivered' = delivered
  BY DEF LinkLost, pipeVars
<1>2. link' = "lost" /\ asked' = "no" /\ air' = [photo |-> None, next |-> 0]
  BY DEF LinkLost
<1>3. air'.photo = None /\ air'.next = 0 BY <1>2
<1> DEFINE o == files.old \/ (Parsing /\ files.transfer # <<>>)
<1>4. files \in FilesType BY DEF Linked, TypeOK, FilesType
<1>5. o \in BOOLEAN BY <1>4 DEF FilesType
<1>6. \/ files' = [files EXCEPT !.old = o]
      \/ files' = [[files EXCEPT !.old = o] EXCEPT !.partial = TRUE]
  BY DEF LinkLost
<1> HIDE DEF o
<1>7. /\ files' \in FilesType /\ files'.transfer = files.transfer /\ files'.old = o
      /\ files'.completed = files.completed /\ files'.error = files.error
  BY <1>4, <1>5, <1>6 DEF FilesType
<1>8. TypeOK' BY <1>1, <1>2, <1>7 DEF Linked, TypeOK, FilesType
<1>9. Transferred'
  <2>1. files.transfer # <<>> => Parsing /\ o BY DEF o, Linked, Transferred
  <2> QED BY <1>7, <2>1 DEF Transferred, Parsing
<1>10. ImageWhole'
  <2>1. ~o => ~files.old BY DEF o
  <2> QED BY <1>7, <2>1 DEF Linked, ImageWhole
<1>11. Accounted'
  <2>1. \A p \in taken : p # None BY LumaAssumption DEF Linked, TypeOK
  <2> QED BY <1>1, <1>3, <1>7, <2>1 DEF Linked, Accounted, Sent
<1>12. HandedOnce' BY <1>1 DEF Linked, HandedOnce
<1>13. Handling' BY <1>1 DEF Linked, Handling, Busy
<1>14. Reacting' BY <1>1 DEF Linked, Reacting, Busy
<1> QED BY <1>8, <1>9, <1>10, <1>11, <1>12, <1>13, <1>14 DEF Linked
-----------------------------------------------------------------------------
(* Steps of the run loop and of a capture                                  *)

LEMMA NothingParsed ==
  ASSUME Linked, run # "ended", files' = Empty
  PROVE  files' \in FilesType /\ Transferred' /\ ImageWhole'
BY EmptyTyped DEF Transferred, ImageWhole

\* The run loop takes a failed file, or none.
LEMMA DrainsNoImage ==
  ASSUME Linked, run # "ended", Drains, DrainError \/ DrainNothing
  PROVE  Linked'
<1>1. /\ taken' = taken /\ air' = air /\ asked' = asked /\ link' = link
      /\ connected' = connected /\ mine' = mine /\ cooling' = cooling
      /\ missed' = missed /\ shown' = shown
      /\ run = "waiting" /\ updates' = IF updates = 0 THEN 0 ELSE updates - 1
  BY DEF Drains, glassesVars
<1>2. /\ handler' = handler /\ delivered' = delivered
      /\ run' \in {"waiting", "pausing"} /\ files' \in {files, Empty}
      /\ capture' \in {capture, [capture EXCEPT !.pending = "failed"]}
  BY DEF DrainError, DrainNothing, ErrorClears, Onward
<1>3. /\ capture' \in [at : {"idle", "writing", "awaiting"},
                       pending : {None, "waiting", "failed", "image"}, image : Images]
      /\ capture'.at = capture.at
  BY <1>2 DEF Linked, TypeOK
<1>4. updates' \in 0 .. MaxUpdates BY <1>1, LumaAssumption DEF Linked, TypeOK
<1>5. files' \in FilesType /\ Transferred' /\ ImageWhole'
  <2>1. CASE files' = Empty BY <2>1, NothingParsed
  <2>2. CASE files' = files
    BY <1>1, <1>2, <2>2 DEF Linked, TypeOK, FilesType, Transferred, ImageWhole, Parsing
  <2> QED BY <1>2, <2>1, <2>2
<1>6. TypeOK' BY <1>1, <1>2, <1>3, <1>4, <1>5 DEF Linked, TypeOK, FilesType
<1>7. Accounted' BY <1>1, <1>2, EmptyTyped DEF Linked, Accounted, Sent
<1>8. HandedOnce' BY <1>2 DEF Linked, HandedOnce
<1>9. Handling' BY <1>1, <1>2, <1>3 DEF Linked, Handling, Busy
<1>10. Reacting' BY <1>1, <1>2 DEF Linked, Reacting, Busy
<1> QED BY <1>5, <1>6, <1>7, <1>8, <1>9, <1>10 DEF Linked

\* The image goes to the capture that waits, or to the pipeline.
LEMMA DrainsImage ==
  ASSUME Linked, run # "ended", Drains, DrainImage
  PROVE  Linked'
<1> DEFINE p == files.completed.of
<1>1. /\ taken' = taken /\ air' = air /\ asked' = asked /\ link' = link
      /\ connected' = connected /\ mine' = mine /\ cooling' = cooling
      /\ missed' = missed /\ shown' = shown
      /\ run = "waiting" /\ updates' = IF updates = 0 THEN 0 ELSE updates - 1
  BY DEF Drains, glassesVars
<1>2. /\ files.completed # NoImage /\ files' = Empty
      /\ delivered' = [delivered EXCEPT ![p] = IF @ < 2 THEN @ + 1 ELSE @]
  BY DEF DrainImage, Clears, Delivers
<1>3. \/ /\ capture' = [capture EXCEPT !.pending = "image", !.image = files.completed]
         /\ run' \in {"waiting", "pausing"} /\ handler' = handler
      \/ /\ handler' = [handler EXCEPT !["run"] = [at |-> "queued", photo |-> p]]
         /\ run' = "handing" /\ capture' = capture
  BY DEF DrainImage, Onward
<1>4. /\ files.completed \in Images /\ p \in Photos /\ p \in taken /\ air.photo # p
      /\ delivered[p] = 0 /\ delivered \in [Photos -> 0 .. 2]
  BY <1>2 DEF Linked, TypeOK, Accounted, Sent
<1>5. /\ delivered' \in [Photos -> 0 .. 2]
      /\ \A q \in Photos : delivered'[q] = IF q = p THEN 1 ELSE delivered[q]
  BY <1>2, <1>4
<1>6. /\ capture' \in [at : {"idle", "writing", "awaiting"},
                       pending : {None, "waiting", "failed", "image"}, image : Images]
      /\ capture'.at = capture.at
  <2>1. CASE capture' = capture BY <2>1 DEF Linked, TypeOK
  <2>2. CASE capture' = [capture EXCEPT !.pending = "image", !.image = files.completed]
    BY <1>4, <2>2 DEF Linked, TypeOK
  <2> QED BY <1>3, <2>1, <2>2
<1>7. updates' \in 0 .. MaxUpdates BY <1>1, LumaAssumption DEF Linked, TypeOK
<1>8. files' \in FilesType /\ Transferred' /\ ImageWhole' BY <1>2, NothingParsed
<1>9. /\ handler["run"] = NoHandler
      /\ handler \in [Callers -> [at : {"none", "queued", "reading", "playing"},
                                  photo : Photos \cup {None}]]
  BY <1>1 DEF Linked, Handling, TypeOK
<1>10. /\ handler' \in [Callers -> [at : {"none", "queued", "reading", "playing"},
                                    photo : Photos \cup {None}]]
       /\ handler'["main"] = handler["main"]
       /\ handler'["run"] = handler["run"] \/ run' = "handing"
       /\ ~Busy("run") /\ ~Busy("run")' /\ (Busy("main") <=> Busy("main")')
  BY <1>3, <1>4, <1>9 DEF Callers, Busy, NoHandler
<1>11. /\ run' \in {"waiting", "pausing", "handing"} BY <1>3
<1>12. TypeOK' BY <1>1, <1>4, <1>5, <1>6, <1>7, <1>8, <1>10, <1>11 DEF Linked, TypeOK, FilesType
<1>13. Accounted'
  <2>1. \A q \in Photos : delivered'[q] # 0 => Sent(q)' BY <1>1, <1>4, <1>5 DEF Linked, Accounted, Sent
  <2> QED BY <1>1, <1>2, <2>1, EmptyTyped DEF Linked, Accounted
<1>14. HandedOnce' BY <1>5 DEF Linked, HandedOnce
<1>15. Handling'
  BY <1>1, <1>6, <1>9, <1>10, <1>11 DEF Linked, Handling, Callers
<1>16. Reacting'
  <2>1. \A h \in Callers : handler[h].at \in {"reading", "playing"} => handler'[h] = handler[h]
    BY <1>9, <1>10 DEF Callers, NoHandler
  <2>2. \A h \in Callers : handler'[h].at \in {"reading", "playing"} => handler'[h] = handler[h]
    BY <1>10 DEF Callers, Busy
  <2> QED BY <1>1, <2>1, <2>2 DEF Linked, Reacting, Busy
<1> QED BY <1>8, <1>12, <1>13, <1>14, <1>15, <1>16 DEF Linked

\* A capture starts, is written or fails.
LEMMA CaptureKept ==
  ASSUME Linked, run # "ended", CaptureStarts \/ CaptureWritten \/ CaptureFails
  PROVE  Linked'
<1>1. /\ taken' = taken /\ air' = air /\ link' = link /\ connected' = connected /\ run' = run
      /\ updates' = updates /\ cooling' = cooling /\ missed' = missed /\ shown' = shown
      /\ delivered' = delivered /\ handler' = handler
  BY DEF CaptureStarts, CaptureWritten, CaptureFails, MainVars, linkVars
<1>2. /\ files' \in {files, Empty} /\ asked' \in {asked, "new", "old"} /\ mine' \in {mine, None}
  BY DEF CaptureStarts, CaptureWritten, CaptureFails, CaptureOver
<1>3. /\ capture \in [at : {"idle", "writing", "awaiting"},
                      pending : {None, "waiting", "failed", "image"}, image : Images]
  BY DEF Linked, TypeOK
<1>4. /\ capture' \in [at : {"idle", "writing", "awaiting"},
                       pending : {None, "waiting", "failed", "image"}, image : Images]
      /\ capture'.at # "idle" => handler["main"] = NoHandler
  <2>1. CASE CaptureStarts
    BY <2>1, EmptyTyped DEF CaptureStarts, NoCapture
  <2>2. CASE CaptureWritten
    BY <1>3, <2>2 DEF CaptureWritten, Linked, Handling
  <2>3. CASE CaptureFails
    BY <2>3, EmptyTyped DEF CaptureFails, CaptureOver, NoCapture
  <2> QED BY <2>1, <2>2, <2>3
<1>5. files' \in FilesType /\ Transferred' /\ ImageWhole'
  <2>1. CASE files' = Empty BY <2>1, NothingParsed
  <2>2. CASE files' = files
    BY <1>1, <2>2 DEF Linked, TypeOK, FilesType, Transferred, ImageWhole, Parsing
  <2> QED BY <1>2, <2>1, <2>2
<1>6. TypeOK' BY <1>1, <1>2, <1>4, <1>5 DEF Linked, TypeOK, FilesType
<1>7. Accounted' BY <1>1, <1>2, EmptyTyped DEF Linked, Accounted, Sent
<1>8. HandedOnce' BY <1>1 DEF Linked, HandedOnce
<1>9. Handling' BY <1>1, <1>4 DEF Linked, Handling, Busy
<1>10. Reacting' BY <1>1 DEF Linked, Reacting, Busy
<1> QED BY <1>5, <1>6, <1>7, <1>8, <1>9, <1>10 DEF Linked

\* A capture returns its image, which its loop hands to the pipeline.
LEMMA CaptureReturnsKept ==
  ASSUME Linked, run # "ended", CaptureReturns
  PROVE  Linked'
<1>1. /\ taken' = taken /\ air' = air /\ link' = link /\ connected' = connected /\ run' = run
      /\ updates' = updates /\ cooling' = cooling /\ missed' = missed /\ shown' = shown
      /\ delivered' = delivered /\ files' = files
      /\ asked' \in {asked, "old"} /\ mine' = None /\ capture' = NoCapture
  BY DEF CaptureReturns, CaptureOver, MainVars, linkVars
<1>2. /\ handler["main"] = NoHandler /\ capture.image.of \in Photos \cup {None}
      /\ handler \in [Callers -> [at : {"none", "queued", "reading", "playing"},
                                  photo : Photos \cup {None}]]
  BY DEF CaptureReturns, Linked, Handling, TypeOK, Images
<1>3. /\ handler' \in [Callers -> [at : {"none", "queued", "reading", "playing"},
                                   photo : Photos \cup {None}]]
      /\ handler'["run"] = handler["run"]
      /\ ~Busy("main") /\ ~Busy("main")' /\ (Busy("run") <=> Busy("run")')
  BY <1>2 DEF CaptureReturns, Callers, Busy, NoHandler
<1>4. capture' \in [at : {"idle", "writing", "awaiting"},
                    pending : {None, "waiting", "failed", "image"}, image : Images]
      /\ capture'.at = "idle"
  BY <1>1, EmptyTyped DEF NoCapture
<1>5. TypeOK' BY <1>1, <1>3, <1>4 DEF Linked, TypeOK
<1>6. Transferred' BY <1>1 DEF Linked, Transferred, Parsing
<1>7. ImageWhole' BY <1>1 DEF Linked, ImageWhole
<1>8. Accounted' BY <1>1 DEF Linked, Accounted, Sent
<1>9. HandedOnce' BY <1>1 DEF Linked, HandedOnce
<1>10. Handling' BY <1>1, <1>3, <1>4 DEF Linked, Handling, Callers
<1>11. Reacting'
  <2>1. \A h \in Callers : handler[h].at \in {"reading", "playing"} => handler'[h] = handler[h]
    BY <1>2, <1>3 DEF Callers, NoHandler
  <2>2. \A h \in Callers : handler'[h].at \in {"reading", "playing"} => handler'[h] = handler[h]
    BY <1>3 DEF Callers, Busy
  <2> QED BY <1>1, <2>1, <2>2 DEF Linked, Reacting, Busy
<1> QED BY <1>5, <1>6, <1>7, <1>8, <1>9, <1>10, <1>11 DEF Linked

LEMMA DrainsKept ==
  ASSUME Linked, run # "ended", Drains
  PROVE  Linked'
BY DrainsNoImage, DrainsImage DEF Drains
-----------------------------------------------------------------------------
(* Steps of the pipeline                                                   *)

\* A photo that is handled goes on, and nothing of the link changes.
LEMMA HandlerKept ==
  ASSUME Linked, run # "ended", UNCHANGED PipeOthers,
         cooling' \in BOOLEAN, missed' \subseteq Photos \cup {None},
         shown' \in [photo : Photos \cup {None}, state : {"idle", "received", "replied", "failed"}],
         NEW h \in Callers,
         NEW v \in [at : {"none", "queued", "reading", "playing"}, photo : Photos \cup {None}],
         handler' = [handler EXCEPT ![h] = v], handler[h] # NoHandler,
         v.at \in {"reading", "playing"} => \A g \in Callers : Busy(g) => g = h,
         Reacting'
  PROVE  Linked'
<1>1. /\ taken' = taken /\ air' = air /\ asked' = asked /\ link' = link
      /\ connected' = connected /\ run' = run /\ files' = files /\ updates' = updates
      /\ capture' = capture /\ mine' = mine /\ delivered' = delivered
  BY DEF PipeOthers, glassesVars, linkVars, fileVars
<1>2. handler \in [Callers -> [at : {"none", "queued", "reading", "playing"},
                               photo : Photos \cup {None}]]
  BY DEF Linked, TypeOK
<1>3. /\ handler' \in [Callers -> [at : {"none", "queued", "reading", "playing"},
                                   photo : Photos \cup {None}]]
      /\ \A g \in Callers : handler'[g] = IF g = h THEN v ELSE handler[g]
  BY <1>2
<1>4. TypeOK' BY <1>1, <1>3 DEF Linked, TypeOK
<1>5. Transferred' BY <1>1 DEF Linked, Transferred, Parsing
<1>6. ImageWhole' BY <1>1 DEF Linked, ImageWhole
<1>7. Accounted' BY <1>1 DEF Linked, Accounted, Sent
<1>8. HandedOnce' BY <1>1 DEF Linked, HandedOnce
<1>9. Handling'
  <2>1. /\ run' \notin {"handing", "ended"} => handler'["run"] = NoHandler
        /\ capture'.at # "idle" => handler'["main"] = NoHandler
    BY <1>1, <1>3 DEF Linked, Handling, Callers
  <2>2. \A g, i \in Callers : Busy(g)' /\ Busy(i)' => g = i
    BY <1>3 DEF Linked, Handling, Busy
  <2> QED BY <2>1, <2>2 DEF Handling
<1> QED BY <1>4, <1>5, <1>6, <1>7, <1>8, <1>9 DEF Linked

LEMMA HandlerFacts ==
  ASSUME Linked, NEW h \in Callers
  PROVE  /\ handler \in [Callers -> [at : {"none", "queued", "reading", "playing"},
                                     photo : Photos \cup {None}]]
         /\ cooling \in BOOLEAN /\ missed \subseteq Photos \cup {None}
         /\ handler[h].photo \in Photos \cup {None}
         /\ shown \in [photo : Photos \cup {None}, state : {"idle", "received", "replied", "failed"}]
         /\ NoHandler \in [at : {"none", "queued", "reading", "playing"}, photo : Photos \cup {None}]
         /\ NoHandler.at = "none"
BY DEF Linked, TypeOK, NoHandler

\* What is shown next: the message, or what was shown.
LEMMA ShowsFacts ==
  ASSUME Linked, NEW h \in Callers, NEW state \in {"received", "replied", "failed"},
         Shows(handler[h].photo, state)
  PROVE  /\ shown' \in [photo : Photos \cup {None}, state : {"idle", "received", "replied", "failed"}]
         /\ missed' \subseteq Photos \cup {None}
         /\ \/ shown'.photo = handler[h].photo /\ shown'.state = state /\ missed' = missed
            \/ /\ shown' = shown
               /\ missed' = IF state = "received" THEN missed ELSE missed \cup {handler[h].photo}
BY HandlerFacts DEF Shows

\* A loop that has the lock is the only one.
LEMMA OneBusy ==
  ASSUME Linked, run # "ended", NEW h \in Callers, Busy(h)
  PROVE  /\ ~cooling
         /\ \A g \in Callers : Busy(g) => g = h
         /\ shown.state = "received" /\ shown.photo \notin missed => handler[h].photo = shown.photo
BY DEF Linked, Handling, Reacting

LEMMA SkipsKept ==
  ASSUME Linked, run # "ended", NEW h \in Callers, Skips(h)
  PROVE  Linked'
<1>1. /\ handler[h].at = "queued" /\ cooling
      /\ handler' = [handler EXCEPT ![h] = NoHandler] /\ cooling' = cooling
      /\ missed' = missed /\ shown' = shown /\ UNCHANGED PipeOthers /\ run' = run
  BY DEF Skips, PipeOthers, linkVars
<1>2. Reacting'
  BY <1>1, HandlerFacts DEF Linked, Reacting, Busy
<1> QED BY <1>1, <1>2, HandlerFacts, HandlerKept

LEMMA ReceivesKept ==
  ASSUME Linked, run # "ended", NEW h \in Callers, Receives(h)
  PROVE  Linked'
<1> DEFINE v == [handler[h] EXCEPT !.at = "reading"]
<1>1. /\ handler[h].at = "queued" /\ ~cooling /\ \A g \in Callers : ~Busy(g)
      /\ handler' = [handler EXCEPT ![h] = v] /\ cooling' = cooling
      /\ Shows(handler[h].photo, "received") /\ UNCHANGED PipeOthers /\ run' = run
  BY HandlerFacts DEF Receives, Becomes, LockFree, Busy, PipeOthers, linkVars
<1>2. /\ v \in [at : {"none", "queued", "reading", "playing"}, photo : Photos \cup {None}]
      /\ v.at = "reading" /\ v.photo = handler[h].photo
  BY HandlerFacts
<1> HIDE DEF v
<1>3. \A g \in Callers : handler'[g] = IF g = h THEN v ELSE handler[g] BY <1>1, HandlerFacts
<1>4. /\ shown' \in [photo : Photos \cup {None}, state : {"idle", "received", "replied", "failed"}]
      /\ missed' \subseteq Photos \cup {None} /\ missed' = missed
      /\ shown'.photo = handler[h].photo \/ shown' = shown
  BY <1>1, ShowsFacts
<1>5. shown.state = "received" => shown.photo \in missed
  BY <1>1 DEF Linked, Reacting
<1>6. Reacting' BY <1>1, <1>2, <1>3, <1>4, <1>5 DEF Reacting, Busy
<1>7. handler[h] # NoHandler BY <1>1, HandlerFacts
<1>8. cooling' \in BOOLEAN BY <1>1, HandlerFacts
<1> QED BY <1>1, <1>2, <1>4, <1>6, <1>7, <1>8, HandlerKept

LEMMA ReactsKept ==
  ASSUME Linked, run # "ended", NEW h \in Callers, Reacts(h)
  PROVE  Linked'
<1> DEFINE v == [handler[h] EXCEPT !.at = "playing"]
<1>1. /\ handler[h].at = "reading"
      /\ handler' = [handler EXCEPT ![h] = v] /\ cooling' = cooling /\ shown' = shown
      /\ missed' = missed /\ UNCHANGED PipeOthers /\ run' = run
  BY HandlerFacts DEF Reacts, Becomes, PipeOthers, linkVars
<1>2. /\ v \in [at : {"none", "queued", "reading", "playing"}, photo : Photos \cup {None}]
      /\ v.at = "playing" /\ v.photo = handler[h].photo
  BY HandlerFacts
<1> HIDE DEF v
<1>3. \A g \in Callers : handler'[g] = IF g = h THEN v ELSE handler[g] BY <1>1, HandlerFacts
<1>4. Busy(h) /\ \A g \in Callers : Busy(g) => g = h BY <1>1, OneBusy DEF Busy
<1>5. Reacting'
  BY <1>1, <1>2, <1>3, <1>4 DEF Linked, Reacting, Busy
<1>6. handler[h] # NoHandler BY <1>1, HandlerFacts
<1>7. cooling' \in BOOLEAN BY <1>1, HandlerFacts
<1> QED BY <1>1, <1>2, <1>4, <1>5, <1>6, <1>7, HandlerFacts, HandlerKept

\* The photo is given up: its end is shown, or the message was lost.
LEMMA EndShown ==
  ASSUME Linked, run # "ended", NEW h \in Callers, Busy(h),
         NEW state \in {"replied", "failed"}, Shows(handler[h].photo, state)
  PROVE  shown'.state = "received" => shown'.photo \in missed'
<1>1. CASE shown'.state = state
  BY <1>1
<1>2. CASE shown' = shown /\ missed' = missed \cup {handler[h].photo}
  BY <1>2, OneBusy
<1> QED BY <1>1, <1>2, ShowsFacts

LEMMA ReadFailsKept ==
  ASSUME Linked, run # "ended", NEW h \in Callers, ReadFails(h)
  PROVE  Linked'
<1>1. /\ handler[h].at = "reading" /\ Busy(h) /\ cooling' = cooling
      /\ handler' = [handler EXCEPT ![h] = NoHandler]
      /\ Shows(handler[h].photo, "failed") /\ UNCHANGED PipeOthers /\ run' = run
  BY DEF ReadFails, FailureShown, PipeOthers, linkVars, Busy
<1>2. /\ shown' \in [photo : Photos \cup {None}, state : {"idle", "received", "replied", "failed"}]
      /\ missed' \subseteq Photos \cup {None}
      /\ shown'.state = "received" => shown'.photo \in missed'
  BY <1>1, ShowsFacts, EndShown
<1>3. \A g \in Callers : handler'[g] = IF g = h THEN NoHandler ELSE handler[g] BY <1>1, HandlerFacts
<1>4. ~cooling BY <1>1, OneBusy
<1>5. Reacting' BY <1>1, <1>2, <1>4 DEF Reacting
<1>6. cooling' \in BOOLEAN BY <1>1, HandlerFacts
<1>7. handler[h] # NoHandler BY <1>1, HandlerFacts
<1> QED BY <1>1, <1>2, <1>5, <1>6, <1>7, HandlerFacts, HandlerKept

LEMMA RepliesKept ==
  ASSUME Linked, run # "ended", NEW h \in Callers, Replies(h)
  PROVE  Linked'
<1>1. /\ handler[h].at = "playing" /\ Busy(h) /\ cooling' = TRUE
      /\ handler' = [handler EXCEPT ![h] = NoHandler]
      /\ Shows(handler[h].photo, "replied") /\ UNCHANGED PipeOthers /\ run' = run
  BY DEF Replies, PipeOthers, linkVars, Busy
<1>2. /\ shown' \in [photo : Photos \cup {None}, state : {"idle", "received", "replied", "failed"}]
      /\ missed' \subseteq Photos \cup {None}
      /\ shown'.state = "received" => shown'.photo \in missed'
  BY <1>1, ShowsFacts, EndShown
<1>3. \A g \in Callers : handler'[g] = IF g = h THEN NoHandler ELSE handler[g] BY <1>1, HandlerFacts
<1>4. \A g \in Callers : ~Busy(g)'
  BY <1>1, <1>3, HandlerFacts, OneBusy DEF Busy
<1>5. Reacting' BY <1>1, <1>2, <1>4 DEF Reacting
<1>6. cooling' \in BOOLEAN BY <1>1
<1>7. handler[h] # NoHandler BY <1>1, HandlerFacts
<1> QED BY <1>1, <1>2, <1>5, <1>6, <1>7, HandlerFacts, HandlerKept

\* The end of the gap.
LEMMA GapEndsKept ==
  ASSUME Linked, run # "ended", GapEnds
  PROVE  Linked'
<1>1. /\ taken' = taken /\ air' = air /\ asked' = asked /\ link' = link
      /\ connected' = connected /\ run' = run /\ files' = files /\ updates' = updates
      /\ capture' = capture /\ mine' = mine /\ delivered' = delivered
      /\ handler' = handler /\ shown' = shown /\ missed' = missed /\ cooling' = FALSE
  BY DEF GapEnds, PipeOthers, glassesVars, linkVars, fileVars
<1>2. TypeOK'
  <2>1. cooling' \in BOOLEAN BY <1>1
  <2>2. /\ taken' = taken /\ air' = air /\ asked' = asked /\ link' = link
        /\ connected' = connected /\ run' = run /\ files' = files /\ updates' = updates
        /\ capture' = capture /\ mine' = mine /\ delivered' = delivered
        /\ handler' = handler /\ shown' = shown /\ missed' = missed
    BY <1>1
  <2> QED BY <2>1, <2>2 DEF Linked, TypeOK
<1>3. Transferred' BY <1>1 DEF Linked, Transferred, Parsing
<1>4. ImageWhole' BY <1>1 DEF Linked, ImageWhole
<1>5. Accounted' BY <1>1 DEF Linked, Accounted, Sent
<1>6. HandedOnce' BY <1>1 DEF Linked, HandedOnce
<1>7. Handling' BY <1>1 DEF Linked, Handling, Busy
<1>8. Reacting' BY <1>1 DEF Linked, Reacting, Busy
<1> QED BY <1>2, <1>3, <1>4, <1>5, <1>6, <1>7, <1>8 DEF Linked

LEMMA StopKept ==
  ASSUME Linked, run # "ended", Stop
  PROVE  Linked'
<1>1. /\ taken' = taken /\ air' = air /\ asked' = asked /\ files' = files
      /\ updates' = updates /\ cooling' = cooling /\ missed' = missed /\ shown' = shown
      /\ delivered' = delivered
      /\ run' = "ended" /\ link' \in {link, "down"} /\ connected' = FALSE
      /\ capture' = NoCapture /\ mine' = None
      /\ handler' = [h \in Callers |-> NoHandler]
  BY DEF Stop, glassesVars, fileVars
<1>2. /\ capture' \in [at : {"idle", "writing", "awaiting"},
                       pending : {None, "waiting", "failed", "image"}, image : Images]
      /\ capture'.at = "idle"
  BY <1>1, EmptyTyped DEF NoCapture
<1>3. /\ handler' \in [Callers -> [at : {"none", "queued", "reading", "playing"},
                                   photo : Photos \cup {None}]]
      /\ \A h \in Callers : handler'[h] = NoHandler /\ handler'[h].at = "none"
  BY <1>1 DEF NoHandler
<1>4. TypeOK' BY <1>1, <1>2, <1>3 DEF Linked, TypeOK
<1>5. Transferred' BY <1>1 DEF Linked, Transferred, Parsing
<1>6. ImageWhole' BY <1>1 DEF Linked, ImageWhole
<1>7. Accounted' BY <1>1 DEF Linked, Accounted, Sent
<1>8. HandedOnce' BY <1>1 DEF Linked, HandedOnce
<1>9. Handling' BY <1>1, <1>2, <1>3 DEF Handling, Busy
<1>10. Reacting' BY <1>1 DEF Reacting
<1> QED BY <1>4, <1>5, <1>6, <1>7, <1>8, <1>9, <1>10 DEF Linked

-----------------------------------------------------------------------------
(* The specification                                                       *)

LEMMA InitLinked == Init => Linked
<1> SUFFICES ASSUME Init PROVE Linked
  OBVIOUS
<1>1. /\ taken = {} /\ air.photo = None /\ air.next = 0 /\ run = "scanning"
      /\ files = Empty /\ updates = 0 /\ capture = NoCapture
      /\ handler = [h \in Callers |-> NoHandler]
      /\ cooling = FALSE /\ missed = {} /\ shown.state = "idle"
      /\ delivered = [p \in Photos |-> 0]
  BY DEF Init
<1>2. capture \in [at : {"idle", "writing", "awaiting"},
                   pending : {None, "waiting", "failed", "image"}, image : Images]
      /\ capture.at = "idle"
  BY <1>1, EmptyTyped DEF NoCapture
<1>3. /\ handler \in [Callers -> [at : {"none", "queued", "reading", "playing"},
                                  photo : Photos \cup {None}]]
      /\ \A h \in Callers : handler[h] = NoHandler /\ handler[h].at = "none"
  BY <1>1 DEF NoHandler
<1>4. /\ files \in FilesType /\ files.transfer = <<>> /\ files.completed = NoImage
      /\ files.completed.data = <<>>
  BY <1>1, EmptyTyped
<1>5. TypeOK
  <2>1. delivered \in [Photos -> 0 .. 2]
    <3>1. [p \in Photos |-> 0] \in [Photos -> 0 .. 2] OBVIOUS
    <3> QED BY <1>1, <3>1
  <2>2. cooling \in BOOLEAN /\ missed \subseteq Photos \cup {None} BY <1>1
  <2>3. updates \in 0 .. MaxUpdates /\ taken \subseteq Photos BY <1>1, LumaAssumption
  <2>4. /\ air \in [photo : Photos \cup {None}, next : Nat]
        /\ shown \in [photo : Photos \cup {None}, state : {"idle", "received", "replied", "failed"}]
        /\ asked = "no" /\ link = "down" /\ connected = FALSE /\ mine = None
    BY DEF Init
  <2> QED BY <1>1, <1>2, <1>3, <1>4, <2>1, <2>2, <2>3, <2>4 DEF TypeOK, FilesType
<1>6. Transferred BY <1>4 DEF Transferred
<1>7. ImageWhole BY <1>4 DEF ImageWhole
<1>8. Accounted BY <1>1, <1>4 DEF Accounted
<1>9. HandedOnce
  <2>1. ASSUME NEW p \in Photos PROVE delivered[p] <= 1
    <3>1. delivered[p] = 0 BY <1>1
    <3> QED BY <3>1
  <2> QED BY <2>1 DEF HandedOnce
<1>10. Handling BY <1>2, <1>3 DEF Handling, Busy, Callers
<1>11. Reacting BY <1>1, <1>3 DEF Reacting
<1> QED BY <1>5, <1>6, <1>7, <1>8, <1>9, <1>10, <1>11 DEF Linked

LEMMA StepLinked == Linked /\ [Next]_vars => Linked'
<1> SUFFICES ASSUME Linked, [Next]_vars PROVE Linked'
  OBVIOUS
<1>1. CASE UNCHANGED vars
  <2>1. /\ taken' = taken /\ air' = air /\ asked' = asked /\ link' = link
        /\ connected' = connected /\ run' = run /\ files' = files /\ updates' = updates
        /\ capture' = capture /\ mine' = mine /\ delivered' = delivered
        /\ handler' = handler /\ shown' = shown /\ cooling' = cooling /\ missed' = missed
    BY <1>1 DEF vars, glassesVars, linkVars, fileVars, pipeVars
  <2> QED BY <2>1 DEF Linked, TypeOK, Transferred, Parsing, ImageWhole, Accounted, Sent,
                      HandedOnce, Handling, Reacting, Busy
<1>2. CASE Next
  <2>1. run # "ended" BY <1>2 DEF Next
  <2>2. CASE Glasses BY <2>1, <2>2, EmitsKept, LinkLostKept, TakesKept DEF Glasses
  <2>3. CASE Radio BY <2>1, <2>3, RadioKept
  <2>4. CASE RunLoop BY <2>1, <2>4, RadioKept, DrainsKept DEF RunLoop
  <2>5. CASE Capture BY <2>1, <2>5, CaptureKept, CaptureReturnsKept DEF Capture
  <2>6. CASE Robot
    BY <2>1, <2>6, GapEndsKept, SkipsKept, ReceivesKept, ReactsKept, ReadFailsKept, RepliesKept
    DEF Robot, Handles
  <2>7. CASE Stop BY <2>1, <2>7, StopKept
  <2> QED BY <1>2, <2>2, <2>3, <2>4, <2>5, <2>6, <2>7 DEF Next
<1> QED BY <1>1, <1>2

\* Everywhere the parser's transfer, the photos handed over and the reactions
\* keep together as the invariant says.
THEOREM LinkedAlways == Spec => []Linked
BY InitLinked, StepLinked, PTL DEF Spec

\* Every variable keeps its type.
THEOREM TypeCorrect == Spec => []TypeOK
<1>1. Linked => TypeOK BY DEF Linked
<1> QED BY <1>1, LinkedAlways, PTL

\* An image that is handed over is one photo, whole, unless its transfer
\* outlived the loss of the link, and a photo is handed over at most once, to
\* a capture or to the pipeline.
THEOREM PhotosHandedOverAlways == Spec => []PhotosHandedOver
<1>1. Linked => PhotosHandedOver BY DEF Linked, PhotosHandedOver
<1> QED BY <1>1, LinkedAlways, PTL

\* The M5 shows a photo as received only while a loop has it in hand, unless
\* the message that ends it was lost.
THEOREM M5ClosedAlways == Spec => []M5Closed
<1>1. Linked => M5Closed BY DEF Linked, Reacting, Busy, M5Closed, NoHandler
<1> QED BY <1>1, LinkedAlways, PTL

\* The robot is asked for a move only when no other photo is read or answered,
\* and not soon after the last reaction.
THEOREM ReactionsStayApart == Spec => ReactionsApart
<1>1. ASSUME Linked, Next, NEW h \in Callers, handler'[h].at = "playing", handler[h].at # "playing"
      PROVE  ~cooling /\ \A g \in Callers \ {h} : handler[g].at \notin {"reading", "playing"}
  <2>1. ASSUME NEW g \in Callers, Handles(g) PROVE handler[h].at = "reading"
    <3>1. CASE Reacts(g)
      <4>1. handler[g].at = "reading" /\ handler' = [handler EXCEPT ![g].at = "playing"]
        BY <3>1 DEF Reacts, Becomes
      <4>2. g = h BY <1>1, <4>1, HandlerFacts
      <4> QED BY <4>1, <4>2
    <3>2. CASE handler' = [handler EXCEPT ![g] = NoHandler]
      BY <1>1, <3>2, HandlerFacts
    <3>3. CASE Receives(g) BY <1>1, <3>3, HandlerFacts DEF Receives, Becomes
    <3> QED BY <2>1, <3>1, <3>2, <3>3 DEF Handles, Skips, ReadFails, Replies
  <2>2. CASE handler' = handler BY <1>1, <2>2
  <2>3. CASE Stop BY <1>1, <2>3, HandlerFacts DEF Stop
  <2>4. CASE CaptureReturns BY <1>1, <2>4, HandlerFacts DEF CaptureReturns
  <2>5. CASE Drains
    <3>1. \/ handler' = handler
          \/ handler' = [handler EXCEPT !["run"] = [at |-> "queued", photo |-> files.completed.of]]
      BY <2>5 DEF Drains, DrainError, DrainImage, DrainNothing
    <3> QED BY <1>1, <2>2, <3>1, HandlerFacts
  <2>6. \/ handler' = handler \/ Stop \/ CaptureReturns \/ Drains
        \/ \E g \in Callers : Handles(g)
    BY <1>1 DEF Next, Glasses, Radio, RunLoop, Capture, Robot, Emits, LinkLost, Takes, OnDisconnect,
           Connects, ConnectFails, Subscribed, SubscribeFails, Resumes, Handed, CaptureStarts,
           CaptureWritten, CaptureFails, GapEnds, pipeVars
  <2>7. handler[h].at = "reading" \/ Stop \/ CaptureReturns \/ Drains
    BY <1>1, <2>1, <2>2, <2>6
  <2>8. CASE handler[h].at = "reading"
    <3>1. Busy(h) /\ run # "ended" BY <1>1, <2>8 DEF Busy, Next
    <3> QED BY <1>1, <3>1, OneBusy DEF Busy
  <2> QED BY <2>3, <2>4, <2>5, <2>7, <2>8
<1>2. Linked /\ [Next]_vars =>
        [\A h \in Callers : handler'[h].at = "playing" /\ handler[h].at # "playing" =>
           /\ ~cooling
           /\ \A g \in Callers \ {h} : handler[g].at \notin {"reading", "playing"}]_vars
  BY <1>1
<1> QED BY <1>2, LinkedAlways, PTL DEF Spec, ReactionsApart

=============================================================================
