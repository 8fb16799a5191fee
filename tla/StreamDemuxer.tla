--------------------------- MODULE StreamDemuxer ---------------------------
(***************************************************************************)
(* otl::StreamDemuxer (stream_demuxer.cpp): a reading thread opens a       *)
(* stream, reads its frames, closes it and perhaps opens it again, as      *)
(* three plain fields tell it that the owner of the demuxer writes too,    *)
(* without a lock. Each access of the thread and of the owner to them is a *)
(* step. FFmpeg is external: a call may succeed or fail.                   *)
(***************************************************************************)
EXTENDS Naturals

CONSTANT MaxOpens       \* bound: the calls of openStream

ASSUME DemuxerAssumption == MaxOpens \in Nat

VARIABLES
    m_workState, m_repeat, m_keepRunning,
    m_isFileUrl,    \* set by the first file that is opened, and never reset
    url,            \* m_inputUrl: a "file", or "live" for rtsp://
    ctx,            \* m_ifmtCtx: allocated, open or null
    isOpen,         \* the observer was told of the opening, not of the closing
    reader,         \* where the reading thread is
    owner,          \* where closeStream is
    after,          \* what the owner does after closeStream
    calm,           \* closeStream's stores fell into one run of doService
    opens           \* how often openStream was called

flags == <<m_workState, m_repeat, m_keepRunning>>
stream == <<m_isFileUrl, url, ctx, isOpen>>
call == <<owner, after, calm, opens>>
vars == <<flags, stream, reader, call>>

Urls == {"file", "live"}

(* The constructor allocates the context and leaves the fields as they are.*)
Init ==
    /\ m_workState \in {"Initialize", "Service", "Down"}
    /\ m_repeat \in BOOLEAN /\ m_keepRunning \in BOOLEAN
    /\ m_isFileUrl = FALSE /\ url = "live"
    /\ ctx = "allocated" /\ isOpen = FALSE
    /\ reader = "none"
    /\ owner = "idle" /\ after = "return" /\ calm = TRUE
    /\ opens = 0

Reading == reader \in {"loop", "read", "eof", "ended"}
-----------------------------------------------------------------------------
(* doInitialize, by the thread or by openStream. An opening that fails     *)
(* frees the context; one that finds no stream information leaves it open. *)
FailInitialize(u) ==
    /\ m_isFileUrl' = (m_isFileUrl \/ u = "file")
    /\ ctx' \in {"null", "open"}
    /\ isOpen' = isOpen

SucceedInitialize(u) ==
    /\ m_isFileUrl' = (m_isFileUrl \/ u = "file")
    /\ ctx' = "open"
    /\ isOpen' = TRUE
    /\ m_workState' = "Service"
-----------------------------------------------------------------------------
(* The reading thread: the test of m_keepRunning and the switch ...        *)
Turn ==
    /\ reader = "top"
    /\ reader' = IF ~m_keepRunning THEN "exited"
                 ELSE IF m_workState = "Initialize" THEN "initialize"
                 ELSE IF m_workState = "Service" THEN "loop" ELSE "down"
    /\ UNCHANGED <<flags, stream, call>>

(* ... an opening, after a failure of which the thread sleeps and tries    *)
(* again, whatever the owner wrote in the meantime ...                     *)
OpenFails ==
    /\ reader = "initialize"
    /\ FailInitialize(url)
    /\ reader' = "top"
    /\ UNCHANGED <<flags, url, call>>

OpenSucceeds ==
    /\ reader = "initialize"
    /\ SucceedInitialize(url)
    /\ reader' = "top"
    /\ UNCHANGED <<m_repeat, m_keepRunning, url, call>>

(* ... doService: a test of the state, and a frame or an error ...         *)
TestService ==
    /\ reader = "loop"
    /\ reader' = IF m_workState = "Service" THEN "read" ELSE "top"
    /\ UNCHANGED <<flags, stream, call>>

ReadFrame ==
    /\ reader = "read"
    /\ reader' = "loop"
    /\ UNCHANGED <<flags, stream, call>>

(* ... or its end: a file that is to be repeated is read again ...         *)
ReadEof ==
    /\ reader = "read"
    /\ reader' = "eof"
    /\ UNCHANGED <<flags, stream, call>>

TestRepeat ==
    /\ reader = "eof"
    /\ reader' = IF m_repeat /\ m_isFileUrl THEN "loop" ELSE "ended"
    /\ UNCHANGED <<flags, stream, call>>

(* ... and of any other stream the observer is told.                       *)
(* Definitions marked "Variant" are what a plausible slip would make of the *)
(* definition after them; no specification uses one. Variant: the thread  *)
(* stops there.                                                            *)
OnReadEof_Stops ==
    /\ reader = "ended"
    /\ m_keepRunning' = FALSE
    /\ reader' = "top"
    /\ UNCHANGED <<m_workState, m_repeat, stream, call>>

OnReadEof ==
    /\ reader = "ended"
    /\ m_workState' = "Down"
    /\ reader' = "top"
    /\ UNCHANGED <<m_repeat, m_keepRunning, stream, call>>

(* doDown: the context is closed, the observer told, m_repeat looked at,   *)
(* and the stream opened again or the loop left.                           *)
Down ==
    /\ reader = "down"
    /\ ctx' = "null" /\ isOpen' = FALSE
    /\ reader' = IF m_repeat THEN "again" ELSE "leave"
    /\ calm' = (calm /\ owner = "joining")
    /\ UNCHANGED <<flags, m_isFileUrl, url, owner, after, opens>>

Again ==
    /\ reader = "again"
    /\ m_workState' = "Initialize"
    /\ reader' = "top"
    /\ UNCHANGED <<m_repeat, m_keepRunning, stream, call>>

(* Variant: the flag is cleared by closeStream alone.                      *)
Leave_KeepsRunning ==
    /\ reader = "leave"
    /\ reader' = "top"
    /\ UNCHANGED <<flags, stream, call>>

Leave ==
    /\ reader = "leave"
    /\ m_keepRunning' = FALSE
    /\ reader' = "top"
    /\ UNCHANGED <<m_workState, m_repeat, stream, call>>

Reader ==
    \/ Turn \/ OpenFails \/ OpenSucceeds
    \/ TestService \/ ReadFrame \/ ReadEof \/ TestRepeat \/ OnReadEof
    \/ Down \/ Again \/ Leave
-----------------------------------------------------------------------------
(* The owner. closeStream(true) joins the thread and nothing else;         *)
(* openStream and the destructor begin with closeStream(false).            *)
CallClose ==
    /\ owner = "idle"
    /\ owner' \in {"closing", "joining"}
    /\ after' = "return" /\ calm' = (owner' = "closing")
    /\ UNCHANGED <<flags, stream, reader, opens>>

CallOpen ==
    /\ owner = "idle" /\ opens < MaxOpens
    /\ owner' = "closing"
    /\ after' = "open" /\ calm' = TRUE
    /\ opens' = opens + 1
    /\ UNCHANGED <<flags, stream, reader>>

CallDestroy ==
    /\ owner = "idle"
    /\ owner' = "closing"
    /\ after' = "destroy" /\ calm' = TRUE
    /\ UNCHANGED <<flags, stream, reader, opens>>

(* closeStream(false) stores into m_workState and m_repeat. Neither the    *)
(* compiler nor the processor has to keep the two in their order.          *)
StoreDown ==
    /\ owner \in {"closing", "repeatOff"}
    /\ m_workState' = "Down"
    /\ calm' = (calm /\ Reading)
    /\ owner' = IF owner = "closing" THEN "stateDown" ELSE "joining"
    /\ UNCHANGED <<m_repeat, m_keepRunning, stream, reader, after, opens>>

StoreNoRepeat ==
    /\ owner \in {"closing", "stateDown"}
    /\ m_repeat' = FALSE
    /\ calm' = (calm /\ Reading)
    /\ owner' = IF owner = "closing" THEN "repeatOff" ELSE "joining"
    /\ UNCHANGED <<m_workState, m_keepRunning, stream, reader, after, opens>>

(* Variant: the thread is not waited for.                                  *)
Join_Detach ==
    /\ owner = "joining"
    /\ reader' = "none"
    /\ owner' = IF after = "return" THEN "idle" ELSE after
    /\ UNCHANGED <<flags, stream, after, calm, opens>>

Join ==
    /\ owner = "joining" /\ reader \in {"none", "exited"}
    /\ reader' = "none"
    /\ owner' = IF after = "return" THEN "idle" ELSE after
    /\ UNCHANGED <<flags, stream, after, calm, opens>>

(* The rest of openStream, which no thread runs beside. The stream may be  *)
(* opened at once; if that fails no thread is started.                     *)
OpenAsync ==
    /\ owner = "open"
    /\ url' \in Urls /\ m_repeat' \in BOOLEAN
    /\ m_workState' = "Initialize" /\ m_keepRunning' = TRUE
    /\ reader' = "top" /\ owner' = "idle"
    /\ UNCHANGED <<m_isFileUrl, ctx, isOpen, after, calm, opens>>

OpenSync ==
    /\ owner = "open"
    /\ url' \in Urls /\ m_repeat' \in BOOLEAN
    /\ \/ /\ SucceedInitialize(url')
          /\ m_keepRunning' = TRUE /\ reader' = "top"
       \/ /\ FailInitialize(url')
          /\ m_workState' = "Initialize"
          /\ UNCHANGED <<m_keepRunning, reader>>
    /\ owner' = "idle"
    /\ UNCHANGED <<after, calm, opens>>

(* The rest of the destructor.                                             *)
Destroy ==
    /\ owner = "destroy"
    /\ ctx' = "null"
    /\ owner' = "gone"
    /\ UNCHANGED <<flags, m_isFileUrl, url, isOpen, reader, after, calm, opens>>

CloseStep == StoreDown \/ StoreNoRepeat \/ Join

Next ==
    \/ Reader
    \/ CallClose \/ CallOpen \/ CallDestroy
    \/ CloseStep
    \/ OpenAsync \/ OpenSync \/ Destroy

Spec == Init /\ [][Next]_vars

(* The thread is scheduled and an owner who closes goes on.                *)
FairSpec == Spec /\ WF_vars(Reader) /\ WF_vars(CloseStep)

(* What FileCloseReturns asks of files: that they can be opened in the end *)
(* and have one. Nothing of the kind is asked of a live stream.            *)
FilesEnd ==
    /\ SF_vars(OpenSucceeds /\ url = "file")
    /\ SF_vars(ReadEof /\ url = "file")
-----------------------------------------------------------------------------
TypeOK ==
    /\ m_workState \in {"Initialize", "Service", "Down"}
    /\ m_repeat \in BOOLEAN /\ m_keepRunning \in BOOLEAN
    /\ m_isFileUrl \in BOOLEAN /\ url \in Urls
    /\ ctx \in {"allocated", "open", "null"} /\ isOpen \in BOOLEAN
    /\ isOpen => ctx = "open"
    /\ reader \in {"none", "top", "initialize", "loop", "read", "eof", "ended",
                   "down", "again", "leave", "exited"}
    /\ owner \in {"idle", "closing", "stateDown", "repeatOff", "joining",
                  "open", "destroy", "gone"}
    /\ after \in {"return", "open", "destroy"}
    /\ calm \in BOOLEAN
    /\ opens \in 0 .. MaxOpens

(* What the observer may rely on, although the state is written by two     *)
(* threads: frames are read, and the end of the stream is reported, only   *)
(* between onAvformatOpened and onAvformatClosed, from a context that is   *)
(* open; a stream is not opened again before the observer was told of its  *)
(* closing; and once closeStream has returned it was told and is not       *)
(* called any more: the owner may free what it shares with it.             *)
ObserverProtocol ==
    /\ TypeOK
    /\ Reading => isOpen /\ ctx = "open"
    /\ reader = "initialize" => ~isOpen
    /\ owner \in {"open", "destroy", "gone"} => ~isOpen /\ reader = "none"
    /\ reader \in {"none", "again", "leave", "exited"} => ~isOpen

(* closeStream returns when both its stores fall into one run of doService,*)
(* wherever the thread is in it, between two frames or at the end of the   *)
(* stream. (A store that falls into doInitialize or doDown, or a doDown    *)
(* between the two, may undo them, and then it need not return.) On a file *)
(* that is not to be repeated, or not any more, it returns in any case, at *)
(* the latest when the file has been read, as long as files have an end.   *)
CloseReturns ==
    /\ owner = "joining" /\ calm ~> owner # "joining"
    /\ FilesEnd => (owner = "joining" /\ ~m_repeat /\ url = "file" ~> owner # "joining")

(* A live stream that is to be repeated and ends is opened again, unless   *)
(* the owner closes it, as long as the demuxer has read no file before.    *)
LiveReconnects ==
    reader = "eof" /\ m_repeat /\ ~m_isFileUrl ~>
        reader = "initialize" \/ owner # "idle"
=============================================================================
