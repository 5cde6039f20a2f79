------------------------------ MODULE LumaLink ------------------------------
(***************************************************************************)
(* bridge/luma_daemon.py, luma_ble.py and glasses_pipeline.py: one held    *)
(* Bluetooth link to the glasses, the reassembly of the photos they send,  *)
(* captures on a timer, and the reaction of the robot and of the M5 to a   *)
(* photo.  The run loop, the capture loop (main) and the callbacks of the  *)
(* radio share one event loop and interleave at every await.               *)
(*                                                                         *)
(* A photo is sent as its file info (0), its chunks and an end.  A frame   *)
(* comes whole, or is torn by the loss of the link: its first bytes stay   *)
(* in the parser's buffer and swallow the beginning of the frame after.    *)
(***************************************************************************)
EXTENDS Naturals, Sequences

CONSTANTS
  Photos,      \* bound: photos the glasses take
  Size,        \* chunks of each
  MaxUpdates,  \* places of the notification queue
  None

ASSUME LumaAssumption ==
  /\ Size \in [Photos -> Nat \ {0}] /\ MaxUpdates \in Nat /\ None \notin Photos

VARIABLES
  taken, air, asked,   \* the glasses: photos taken, frames being sent, commands
  link, connected,     \* the radio link; _connected with client
  run,                 \* LumaSession.run
  files, updates,      \* FileReassembler; file_updates
  capture, mine,       \* capture with _pending; the photo it made them take
  handler,             \* Pipeline.handle, called by the run loop and by main
  cooling,             \* MIN_GAP_S is not over
  shown,               \* what the M5 shows
  missed,              \* history: photos whose last message to the M5 was lost
  delivered            \* images handed over, by photo

glassesVars == <<taken, air, asked>>
linkVars == <<link, connected, run>>
fileVars == <<files, updates>>
pipeVars == <<handler, cooling, shown, missed>>
vars == <<glassesVars, linkVars, fileVars, capture, mine, pipeVars, delivered>>

Callers == {"run", "main"}
NoImage == [data |-> <<>>, of |-> None]

\* old: the transfer was begun before the link was last lost.
Empty ==
  [transfer |-> <<>>, old |-> FALSE, partial |-> FALSE, completed |-> NoImage, error |-> FALSE]
NoCapture == [at |-> "idle", pending |-> None, image |-> NoImage]
NoHandler == [at |-> "none", photo |-> None]

Data == Seq(Photos \cup {None})
Images == [data : Data, of : Photos \cup {None}]

TypeOK ==
  /\ taken \subseteq Photos
  /\ air \in [photo : Photos \cup {None}, next : Nat]
  /\ asked \in {"no", "old", "new"}
  /\ link \in {"down", "up", "lost"} /\ connected \in BOOLEAN
  /\ run \in {"scanning", "linking", "waiting", "handing", "pausing", "ended"}
  /\ files \in [transfer : Data, old : BOOLEAN, partial : BOOLEAN, completed : Images, error : BOOLEAN]
  /\ updates \in 0 .. MaxUpdates /\ cooling \in BOOLEAN
  /\ capture \in [at : {"idle", "writing", "awaiting"},
                  pending : {None, "waiting", "failed", "image"}, image : Images]
  /\ mine \in Photos \cup {None}
  /\ handler \in [Callers -> [at : {"none", "queued", "reading", "playing"},
                              photo : Photos \cup {None}]]
  /\ shown \in [photo : Photos \cup {None}, state : {"idle", "received", "replied", "failed"}]
  /\ missed \subseteq Photos \cup {None}
  /\ delivered \in [Photos -> 0 .. 2]

Init ==
  /\ taken = {} /\ air = [photo |-> None, next |-> 0] /\ asked = "no"
  /\ link = "down" /\ connected = FALSE /\ run = "scanning"
  /\ files = Empty /\ updates = 0
  /\ capture = NoCapture /\ mine = None
  /\ handler = [h \in Callers |-> NoHandler]
  /\ cooling = FALSE /\ shown = [photo |-> None, state |-> "idle"] /\ missed = {}
  /\ delivered = [p \in Photos |-> 0]

-----------------------------------------------------------------------------
(* FileReassembler                                                         *)

Parsing == files.completed = NoImage /\ ~files.error

\* 0x97: a new transfer.
InfoStarts(photo) == [i \in 1 .. Size[photo] |-> None]

\* 0x99: the ranges must cover the file.
Covered(data) == data # <<>> /\ \A i \in DOMAIN data : data[i] # None

Failed == [Empty EXCEPT !.error = TRUE]

\* _on_frame.
Framed(photo, n) ==
  IF n = 0 THEN [files EXCEPT !.transfer = InfoStarts(photo), !.old = FALSE]
  ELSE IF n > Size[photo] THEN
    IF Covered(files.transfer)
    THEN [Empty EXCEPT !.completed = [data |-> files.transfer, of |-> files.transfer[Len(files.transfer)]],
                       !.old = files.old]
    ELSE Failed
  ELSE IF files.transfer = <<>> THEN files
  ELSE IF n > Len(files.transfer) THEN Failed
  ELSE [files EXCEPT !.transfer[n] = photo]

\* push: bytes that come before a finished file is taken are dropped.
Pushed(photo, n) ==
  IF ~Parsing THEN files
  ELSE IF files.partial THEN [files EXCEPT !.partial = FALSE]
  ELSE Framed(photo, n)

\* _on_file: when the queue overflows the parser is reset.
OnFile(photo, n) ==
  IF updates < MaxUpdates
  THEN files' = Pushed(photo, n) /\ updates' = updates + 1
  ELSE files' = Empty /\ UNCHANGED updates

-----------------------------------------------------------------------------
(* The glasses and the link                                                *)

\* A photo is taken with the shutter or on command, and is sent at once.
Takes(p) ==
  /\ link = "up" /\ air.photo = None /\ p \notin taken
  /\ taken' = taken \cup {p} /\ air' = [photo |-> p, next |-> 0]
  /\ \/ UNCHANGED <<asked, mine>>
     \/ /\ asked # "no" /\ asked' = "no"
        /\ mine' = IF asked = "new" THEN p ELSE mine
  /\ UNCHANGED <<linkVars, fileVars, capture, pipeVars, delivered>>

\* Nobody listens before the notifications are subscribed.
Emits ==
  /\ air.photo # None /\ link = "up"
  /\ air' = IF air.next > Size[air.photo] THEN [photo |-> None, next |-> 0]
            ELSE [air EXCEPT !.next = @ + 1]
  /\ IF connected THEN OnFile(air.photo, air.next) ELSE UNCHANGED <<files, updates>>
  /\ UNCHANGED <<taken, asked, linkVars, capture, mine, pipeVars, delivered>>

LinkLost ==
  /\ link = "up" /\ link' = "lost"
  /\ air' = [photo |-> None, next |-> 0] /\ asked' = "no"
  /\ LET stale == [files EXCEPT !.old = @ \/ (Parsing /\ files.transfer # <<>>)]
     IN \/ files' = stale
        \/ /\ connected /\ air.photo # None /\ Parsing
           /\ files' = [stale EXCEPT !.partial = TRUE]
  /\ UNCHANGED <<taken, connected, run, updates, capture, mine, pipeVars, delivered>>

\* _on_disconnect.
OnDisconnect ==
  /\ link = "lost" /\ link' = "down" /\ connected' = FALSE
  /\ UNCHANGED <<glassesVars, run, fileVars, capture, mine, pipeVars, delivered>>

\* _connect_once, up to the connection.
Connects ==
  /\ run = "scanning" /\ link = "down"
  /\ link' = "up" /\ run' = "linking"
  /\ UNCHANGED <<glassesVars, connected, fileVars, capture, mine, pipeVars, delivered>>

ConnectFails ==
  /\ run = "scanning" /\ run' = "pausing"
  /\ UNCHANGED <<glassesVars, link, connected, fileVars, capture, mine, pipeVars, delivered>>

\* The notifications are subscribed; the link may be lost by now.
Subscribed ==
  /\ run = "linking" /\ run' = "waiting" /\ connected' = TRUE
  /\ UNCHANGED <<glassesVars, link, fileVars, capture, mine, pipeVars, delivered>>

\* start_notify fails; nobody closes the link.
SubscribeFails ==
  /\ run = "linking" /\ run' = "pausing"
  /\ UNCHANGED <<glassesVars, link, connected, fileVars, capture, mine, pipeVars, delivered>>

Resumes ==
  /\ run = "pausing" /\ run' = "scanning"
  /\ UNCHANGED <<glassesVars, link, connected, fileVars, capture, mine, pipeVars, delivered>>

-----------------------------------------------------------------------------
(* The run loop                                                            *)

\* The loop goes on while the link is up.
Onward == IF connected THEN "waiting" ELSE "pausing"

\* MUTANT: a finished file stays with the parser.
Keeps == files' = files

\* The parser is ready for the next file.
Clears == files' = Empty

Waited == capture.pending = "waiting"

Delivers(photo) ==
  delivered' = [delivered EXCEPT ![photo] = IF @ < 2 THEN @ + 1 ELSE @]

\* MUTANT: the error of a file stays with the parser.
ErrorStays == UNCHANGED files

ErrorClears == files' = Empty

\* _drain_completed_files, of a file that failed.
DrainError ==
  /\ files.error /\ ErrorClears /\ run' = Onward
  /\ capture' = IF Waited THEN [capture EXCEPT !.pending = "failed"] ELSE capture
  /\ UNCHANGED <<handler, delivered>>

\* A waiting capture owns the image; else it is handled here.
DrainImage ==
  LET image == files.completed
  IN /\ ~files.error /\ image # NoImage
     /\ Clears /\ Delivers(image.of)
     /\ IF Waited
        THEN /\ capture' = [capture EXCEPT !.pending = "image", !.image = image]
             /\ run' = Onward /\ UNCHANGED handler
        ELSE /\ handler' = [handler EXCEPT !["run"] = [at |-> "queued", photo |-> image.of]]
             /\ run' = "handing" /\ UNCHANGED capture

DrainNothing ==
  /\ Parsing /\ run' = Onward
  /\ UNCHANGED <<files, capture, handler, delivered>>

\* A notification, or half a second without one.
Drains ==
  /\ run = "waiting"
  /\ updates' = IF updates = 0 THEN 0 ELSE updates - 1
  /\ DrainError \/ DrainImage \/ DrainNothing
  /\ UNCHANGED <<glassesVars, link, connected, mine, cooling, shown, missed>>

Handed ==
  /\ run = "handing" /\ handler["run"] = NoHandler
  /\ run' = Onward
  /\ UNCHANGED <<glassesVars, link, connected, fileVars, capture, mine, pipeVars, delivered>>

-----------------------------------------------------------------------------
(* Captures                                                                *)

MainVars == <<taken, air, linkVars, updates, cooling, shown, missed, delivered>>

\* capture: whatever the parser holds is forgotten.
CaptureStarts ==
  /\ run # "ended" /\ capture.at = "idle" /\ handler["main"] = NoHandler
  /\ files' = Empty
  /\ capture' = [NoCapture EXCEPT !.at = "writing", !.pending = "waiting"]
  /\ mine' = None
  /\ UNCHANGED <<asked, handler, MainVars>>

\* Its end, also when the write fails or the time is over.
CaptureOver ==
  /\ capture' = NoCapture /\ mine' = None
  /\ asked' = IF asked = "new" THEN "old" ELSE asked

CaptureWritten ==
  /\ capture.at = "writing" /\ connected /\ link = "up"
  /\ asked' = "new" /\ capture' = [capture EXCEPT !.at = "awaiting"]
  /\ UNCHANGED <<files, mine, handler, MainVars>>

CaptureFails ==
  /\ \/ capture.at = "writing"
     \/ capture.at = "awaiting" /\ capture.pending \in {"waiting", "failed"}
  /\ CaptureOver
  /\ UNCHANGED <<files, handler, MainVars>>

CaptureReturns ==
  /\ capture.at = "awaiting" /\ capture.pending = "image"
  /\ CaptureOver
  /\ handler' = [handler EXCEPT !["main"] = [at |-> "queued", photo |-> capture.image.of]]
  /\ UNCHANGED <<files, MainVars>>

-----------------------------------------------------------------------------
(* Pipeline.handle                                                         *)

PipeOthers == <<glassesVars, linkVars, fileVars, capture, mine, delivered>>

\* MUTANT: the lock is not held while the photo is read.
NobodyHolds == TRUE

\* The lock is free.
LockFree == \A h \in Callers : handler[h].at \in {"none", "queued"}

Becomes(h, at) == handler' = [handler EXCEPT ![h].at = at]

\* A photo_event reaches the M5, or is lost with the link, which is dropped: the
\* M5 goes on showing what it did.
Shows(photo, state) ==
  \/ shown' = [photo |-> photo, state |-> state] /\ UNCHANGED missed
  \/ /\ UNCHANGED shown
     /\ missed' = IF state = "received" THEN missed ELSE missed \cup {photo}

\* One reaction at a time, and none soon after the last.
Skips(h) ==
  /\ handler[h].at = "queued" /\ LockFree /\ cooling
  /\ handler' = [handler EXCEPT ![h] = NoHandler]
  /\ UNCHANGED <<cooling, shown, missed, PipeOthers>>

Receives(h) ==
  /\ handler[h].at = "queued" /\ LockFree /\ ~cooling
  /\ Becomes(h, "reading") /\ Shows(handler[h].photo, "received")
  /\ UNCHANGED <<cooling, PipeOthers>>

\* react: the photo is read, a move is chosen and the robot asked to play it;
\* nobody waits for its end.
Reacts(h) ==
  /\ handler[h].at = "reading"
  /\ Becomes(h, "playing")
  /\ UNCHANGED <<cooling, shown, missed, PipeOthers>>

\* MUTANT: a photo that cannot be read is not reported.
FailsQuietly(h) == UNCHANGED <<shown, missed>>

\* photo_failed.
FailureShown(h) == Shows(handler[h].photo, "failed")

ReadFails(h) ==
  /\ handler[h].at = "reading"
  /\ handler' = [handler EXCEPT ![h] = NoHandler] /\ FailureShown(h)
  /\ UNCHANGED <<cooling, PipeOthers>>

Replies(h) ==
  /\ handler[h].at = "playing"
  /\ handler' = [handler EXCEPT ![h] = NoHandler] /\ cooling' = TRUE
  /\ Shows(handler[h].photo, "replied")
  /\ UNCHANGED PipeOthers

\* Eight seconds of the clock, whatever the robot still plays.
GapEnds ==
  /\ cooling /\ cooling' = FALSE
  /\ UNCHANGED <<handler, shown, missed, PipeOthers>>

Handles(h) == Skips(h) \/ Receives(h) \/ Reacts(h) \/ ReadFails(h) \/ Replies(h)

\* _shutdown: stop closes the link it knows of, and the run loop is cancelled.
Stop ==
  /\ run # "ended" /\ run' = "ended"
  /\ link' = IF connected THEN "down" ELSE link
  /\ connected' = FALSE
  /\ capture' = NoCapture /\ mine' = None
  /\ handler' = [h \in Callers |-> NoHandler]
  /\ UNCHANGED <<glassesVars, fileVars, cooling, shown, missed, delivered>>

-----------------------------------------------------------------------------

Glasses == Emits \/ LinkLost \/ \E p \in Photos : Takes(p)
Radio == OnDisconnect \/ Connects \/ ConnectFails \/ Subscribed \/ SubscribeFails
RunLoop == Resumes \/ Drains \/ Handed
Capture == CaptureStarts \/ CaptureWritten \/ CaptureFails \/ CaptureReturns
Robot == GapEnds \/ \E h \in Callers : Handles(h)

Next == run # "ended" /\ (Glasses \/ Radio \/ RunLoop \/ Capture \/ Robot \/ Stop)

Spec == Init /\ [][Next]_vars

\* The event loop runs what is ready, the model answers within its timeout,
\* the glasses are found again and a link that nobody holds is closed by them.
FairSpec ==
  /\ Spec
  /\ WF_vars(RunLoop) /\ WF_vars(OnDisconnect)
  /\ SF_vars(Connects) /\ SF_vars(Subscribed)
  /\ WF_vars(LinkLost /\ ~connected /\ run # "linking")
  /\ \A h \in Callers : WF_vars(Handles(h))

-----------------------------------------------------------------------------
(* Properties                                                              *)

\* An image that is handed over is one photo, whole, although transfers are
\* broken off or overlap a capture: unless the transfer
\* outlived the loss of the link (luma_ble.py lines 98 to 200).
ImageWhole ==
  ~files.old => \A i \in DOMAIN files.completed.data : files.completed.data[i] = files.completed.of

\* A photo is handed over at most once, to a capture or to the pipeline
\* (luma_daemon.py lines 145 to 172).
HandedOnce == \A p \in Photos : delivered[p] <= 1

\* What is handed over is a photo the glasses took, and each only once.
PhotosHandedOver == ImageWhole /\ HandedOnce

\* "One reaction at a time": the robot is asked for a move only when no other photo
\* is read or answered, and not in the eight seconds after the last reaction,
\* also when the run loop and the capture loop bring a photo each
\* (glasses_pipeline.py lines 32 to 65, 92).
ReactionsApart ==
  [][\A h \in Callers : handler'[h].at = "playing" /\ handler[h].at # "playing" =>
       /\ ~cooling
       /\ \A g \in Callers \ {h} : handler[g].at \notin {"reading", "playing"}]_vars

\* The M5 shows a photo as received only while a loop has it in hand ("the M5
\* shrugs instead of pretending", m5_link.py line 179): whatever becomes of the
\* photo, its end is sent; if that message is lost the M5 shows it until the next.
M5Closed ==
  shown.state = "received" /\ shown.photo \notin missed /\ run # "ended" =>
    \E h \in Callers : handler[h] # NoHandler /\ handler[h].photo = shown.photo

\* The parser takes no bytes while it holds a finished or failed file: it never
\* stays deaf (luma_ble.py line 136).
NeverDeaf == ~Parsing ~> Parsing \/ run = "ended"

=============================================================================
