------------------------- MODULE SignSessionProofs -------------------------
(***************************************************************************)
(* The signing session for any number of threads, keys and calls: time     *)
(* stamps are as asked for, a failed call leaves nothing behind, key and   *)
(* certificate belong together, and the last error is the call's own.      *)
(***************************************************************************)
EXTENDS SignSession, TLAPS

Fields == {"pc", "op", "mode", "call", "key", "cert", "hint", "conf", "url", "offline", "over",
           "existed", "sig", "saved", "ok", "alone", "online", "failed", "kept"}

\* The operations that go through SignData, and those that ask for a time stamp
\* and do without.
Callers == Direct \cup Base64 \cup Cades \cup {"SignFile", "RawSignFile", "AddSignatureToAsicE"}
BestOnly == Base64 \cup Cades \cup {"AddSignatureToAsicE", "SignFileAsicXades"}

\* Where in the code an operation can be, with its mode.
Place(f) ==
    /\ f.pc \in {"sign", "memo", "tsp", "clear"} => f.op \in Callers
    /\ f.pc = "resolve" => f.op \in Callers \cup Snapshots
    /\ f.pc = "input" => f.op \in Callers \cup {"SignFileAsicXades"}
    /\ f.pc \in {"extract", "build"} => f.op \in Snapshots
    /\ f.pc = "ready" => f.op \in Formats
    /\ f.pc \in {"capture", "pack"} => f.op \in BestOnly
    /\ f.pc = "wrap" => f.op \in Base64
    /\ f.pc \in {"exists", "write", "finish"} => f.op \in BestOnly \cup {"RawSignFile"}
    /\ f.pc \in {"parse", "resolveCert", "commit", "sync", "syncCommit"} =>
         f.mode = "Disabled" /\ f.op # "RawSignFile"
    /\ f.op \in BestOnly => f.mode = "BestEffort"
    /\ f.pc = "clear" => f.mode # "Required"
    /\ f.pc = "exists" /\ f.op = "RawSignFile" => f.existed = FALSE

\* The call has its copy of offline_mode.
Copied(f) == (f.op \in Snapshots /\ f.pc # "done") \/ f.pc \in {"resolve", "memo", "tsp"}

\* A stamp is there where it is required, and nowhere in a call that was
\* offline throughout.
Stamp(f) ==
    /\ f.mode = "Required" /\ (f.pc \in {"write", "finish"} \/ (f.pc = "done" /\ f.ok = TRUE))
         => f.sig.stamped = TRUE
    /\ f.online = FALSE => f.sig.stamped = FALSE /\ (Copied(f) => f.offline = TRUE)
    /\ f.op \in Formats /\ f.mode = "Required" /\ f.pc = "build" => f.offline = FALSE

FrameOK(f) ==
    /\ DOMAIN f = Fields
    /\ f.online \in BOOLEAN /\ f.offline \in BOOLEAN /\ f.ok \in BOOLEAN
    /\ f.sig.stamped \in BOOLEAN
    /\ f.cert \in Found(f.key)
    /\ f.pc = "idle" => f.call = 0
    /\ f.pc = "done" /\ f.ok = FALSE => f.sig = NoSig
    /\ Place(f)
    /\ Stamp(f)

\* The file is a call's own only once the call has written it.
FileInv(f, out) ==
    out.call # 0 /\ out.call = f.call =>
        /\ f.pc = "finish" \/ (f.pc = "done" /\ f.ok = TRUE)
        /\ out.stamped = f.sig.stamped

\* StaleSignatureCleared, of one frame.
StaleInv(f, out, error) ==
    f.pc = "done" /\ f.ok = FALSE /\ f.alone = TRUE /\ f.op = "RawSignFile"
    /\ f.mode = "Required" /\ f.existed = TRUE /\ out.call = 0
    /\ error.code # "InternalError" /\ ~f.kept
      => out.state # "signed"

\* ErrorIsOfCall, of one frame; RawSignFile has its error before it looks at the
\* file.
ErrorInv(f, error) ==
    f.alone = TRUE =>
        /\ f.pc = "trunc" \/ (f.pc = "done" /\ f.ok = FALSE) =>
             error.code # "None" /\ error.by = f.call
        /\ f.pc = "done" /\ f.ok = TRUE =>
             /\ error.code # "None" =>
                  /\ f.op \in Cades \cup {"SignFileAsicXades"}
                  /\ error = [code |-> "OnlineServiceUnavailable", by |-> f.call]
             /\ f.op = "SignFileAsicXades" /\ f.failed =>
                  error.code = "OnlineServiceUnavailable"

FInv(t) ==
    /\ FrameOK(frame[t])
    /\ FileInv(frame[t], file)
    /\ StaleInv(frame[t], file, lastError)
    /\ ErrorInv(frame[t], lastError)
    /\ frame[t].pc # "idle" => frame[t].call \in 1 .. calls
    /\ frame[t].pc # "idle" /\ frame[t].online = FALSE => offline = TRUE

\* No two calls have one number, and a call that is alone has no company.
Apart(t, u) ==
    /\ frame[t].call = frame[u].call => frame[t].call = 0
    /\ frame[t].alone = TRUE => frame[u].pc = "idle"

SignInv ==
    /\ calls \in Nat /\ file.call \in 0 .. calls /\ offline \in BOOLEAN
    /\ cert \in Found(key)
    /\ DOMAIN frame = Threads
    /\ \A t \in Threads : FInv(t)
    /\ \A t \in Threads : \A u \in Threads \ {t} : Apart(t, u)

\* A key may go without a certificate.
LEMMA NoneFound == \A k : None \in Found(k) /\ k \in Found(k)
BY Zenon DEF Found

\* What a call returns with.
LEMMA DoneFrame ==
    ASSUME NEW f, NEW ok \in BOOLEAN
    PROVE  /\ DOMAIN Done(f, ok) = Fields
           /\ Done(f, ok).pc = "done" /\ Done(f, ok).op = f.op /\ Done(f, ok).mode = f.mode
           /\ Done(f, ok).call = f.call /\ Done(f, ok).ok = ok
           /\ Done(f, ok).sig = (IF ok THEN f.sig ELSE NoSig)
           /\ Done(f, ok).existed = f.existed /\ Done(f, ok).alone = f.alone
           /\ Done(f, ok).online = f.online /\ Done(f, ok).key = None /\ Done(f, ok).cert = None
           /\ Done(f, ok).offline = FALSE /\ Done(f, ok).failed = f.failed
BY ZenonT(60) DEF Done, Idle, Fields

\* A call that fails leaves a frame in order.
LEMMA FailedFrame ==
    ASSUME NEW f, FrameOK(f), f.pc # "idle"
    PROVE  FrameOK(Done(f, FALSE))
<1> DEFINE g == Done(f, FALSE)
<1>1. /\ DOMAIN g = Fields /\ g.pc = "done" /\ g.op = f.op /\ g.mode = f.mode
      /\ g.ok = FALSE /\ g.sig = NoSig /\ g.online = f.online /\ g.key = None /\ g.cert = None
      /\ g.offline = FALSE
  BY DoneFrame, Zenon
<1> HIDE DEF g
<1>2. NoSig.stamped = FALSE
  BY Zenon DEF NoSig
<1>3. Place(g) /\ Stamp(g)
  BY <1>1, <1>2, Zenon DEF FrameOK, Place, Stamp, Copied
<1>4. FrameOK(g)
  BY <1>1, <1>2, <1>3, NoneFound, Zenon DEF FrameOK
<1> QED
  BY <1>4, Zenon DEF g

\* And so does one that succeeds with what it was asked for.
LEMMA SucceededFrame ==
    ASSUME NEW f, FrameOK(f), f.mode = "Required" => f.sig.stamped = TRUE
    PROVE  FrameOK(Done(f, TRUE))
<1> DEFINE g == Done(f, TRUE)
<1>1. /\ DOMAIN g = Fields /\ g.pc = "done" /\ g.op = f.op /\ g.mode = f.mode
      /\ g.ok = TRUE /\ g.sig = f.sig /\ g.online = f.online /\ g.key = None /\ g.cert = None
      /\ g.offline = FALSE
  BY DoneFrame, Zenon
<1> HIDE DEF g
<1>2. Place(g) /\ Stamp(g)
  BY <1>1, Zenon DEF FrameOK, Place, Stamp, Copied
<1>3. FrameOK(g)
  BY <1>1, <1>2, NoneFound, Zenon DEF FrameOK
<1> QED
  BY <1>3, Zenon DEF g

-----------------------------------------------------------------------------
(* Steps. *)

\* A call goes on: its new frame is in order, and the file is the old one, its
\* own, or nobody's.
LEMMA LocalStep ==
    ASSUME SignInv, NEW t \in Threads, NEW g,
           Goto(t, g), ~At(t, "idle"),
           FrameOK(g), g.pc # "idle", g.call = frame[t].call,
           g.online = frame[t].online, g.alone = frame[t].alone,
           calls' = calls, offline' = offline, cert' \in Found(key'),
           file' = file \/ file'.call \in {0, frame[t].call},
           FileInv(g, file'), StaleInv(g, file', lastError'), ErrorInv(g, lastError')
    PROVE  SignInv'
<1>1. /\ DOMAIN frame' = Threads /\ frame'[t] = g
      /\ \A u \in Threads \ {t} : frame'[u] = frame[u]
  BY Zenon DEF SignInv, Goto
<1>2. calls \in Nat /\ frame[t].call \in 1 .. calls /\ frame[t].pc # "idle"
  BY Zenon DEF SignInv, FInv, At
<1>3. file'.call \in 0 .. calls
  BY <1>2 DEF SignInv
<1>4. FInv(t)'
  BY <1>1, <1>2, Zenon DEF SignInv, FInv
<1>5. ASSUME NEW u \in Threads \ {t}
      PROVE  FInv(u)'
  <2>1. FInv(u) /\ Apart(u, t)
    BY Zenon DEF SignInv
  <2>2. FileInv(frame[u], file')
    BY <1>2, <2>1, Zenon DEF FInv, Apart, FileInv
  <2>3. StaleInv(frame[u], file', lastError') /\ ErrorInv(frame[u], lastError')
    BY <1>2, <2>1, Zenon DEF Apart, StaleInv, ErrorInv
  <2> QED
    BY <1>1, <2>1, <2>2, <2>3, Zenon DEF FInv
<1>6. ASSUME NEW u \in Threads, NEW v \in Threads \ {u}
      PROVE  Apart(u, v)'
  <2>1. Apart(u, v)
    BY Zenon DEF SignInv
  <2>2. /\ frame'[u].call = frame[u].call /\ frame'[u].alone = frame[u].alone
        /\ frame'[v].call = frame[v].call
    BY <1>1, Zenon
  <2>3. frame[v].pc = "idle" => frame'[v].pc = "idle"
    BY <1>1, <1>2, Zenon
  <2> QED
    BY <2>1, <2>2, <2>3, Zenon DEF Apart
<1> QED
  BY <1>1, <1>2, <1>3, <1>4, <1>5, <1>6, Zenon DEF SignInv

\* The same, for a call that leaves the file alone and has not written it.
LEMMA QuietStep ==
    ASSUME SignInv, NEW t \in Threads, NEW g,
           Goto(t, g), frame[t].pc \notin {"idle", "finish", "done"},
           FrameOK(g), g.pc # "idle", g.call = frame[t].call,
           g.online = frame[t].online, g.alone = frame[t].alone,
           calls' = calls, offline' = offline, cert' \in Found(key'), file' = file,
           \/ g.pc # "done" \/ g.ok = TRUE \/ g.op # "RawSignFile"
           \/ lastError'.code = "InternalError" \/ g.existed = FALSE,
           g.pc \notin {"trunc", "done"} \/ ErrorInv(g, lastError')
    PROVE  SignInv'
<1>1. FileInv(g, file')
  BY Zenon DEF SignInv, FInv, FileInv
<1>2. StaleInv(g, file', lastError') /\ ErrorInv(g, lastError')
  BY Zenon DEF StaleInv, ErrorInv
<1> QED
  BY <1>1, <1>2, LocalStep, Zenon DEF At

\* A call fails with an error.
LEMMA FailStep ==
    ASSUME SignInv, NEW t \in Threads, NEW code, code # "None", Fail(t, code),
           frame[t].pc \notin {"idle", "finish", "done"},
           \/ frame[t].op # "RawSignFile" \/ code = "InternalError"
           \/ frame[t].existed = FALSE,
           UNCHANGED <<calls, offline, key, cert, file>>
    PROVE  SignInv'
<1> DEFINE g == Done(frame[t], FALSE)
<1>1. FrameOK(frame[t])
  BY Zenon DEF SignInv, FInv
<1>2. FrameOK(g)
  BY <1>1, FailedFrame, Zenon
<1>3. /\ g.pc = "done" /\ g.call = frame[t].call /\ g.online = frame[t].online
      /\ g.alone = frame[t].alone /\ g.op = frame[t].op /\ g.existed = frame[t].existed
  BY DoneFrame, Zenon
<1>4. Goto(t, g) /\ lastError'.code = code /\ lastError'.by = frame[t].call
  BY Zenon DEF Fail, SetError
<1>5. cert' \in Found(key')
  BY Zenon DEF SignInv
<1>6. g.ok = FALSE
  BY DoneFrame, Zenon
<1> HIDE DEF g
<1>7. ErrorInv(g, lastError')
  BY <1>3, <1>4, <1>6, Zenon DEF ErrorInv
<1> QED
  BY <1>2, <1>3, <1>4, <1>5, <1>7, QuietStep, Zenon

\* SignData or SignFile returns false.
LEMMA SigningFailsStep ==
    ASSUME SignInv, NEW t \in Threads, NEW code, code # "None", SigningFails(t, code),
           frame[t].pc \notin {"idle", "finish", "done"},
           UNCHANGED <<calls, offline, key, cert, file>>
    PROVE  SignInv'
<1>1. CASE frame[t].op # "RawSignFile"
  BY <1>1, FailStep, Zenon DEF SigningFails, Fail
<1>2. CASE frame[t].op = "RawSignFile"
  <2> DEFINE f == frame[t]
             g == [f EXCEPT !.pc = "trunc", !.sig = NoSig]
  <2>1. FrameOK(f)
    BY Zenon DEF SignInv, FInv
  <2>2. /\ DOMAIN g = Fields /\ g.pc = "trunc" /\ g.op = "RawSignFile" /\ g.mode = f.mode
        /\ g.call = f.call /\ g.online = f.online /\ g.alone = f.alone /\ g.sig = NoSig
        /\ g.key = f.key /\ g.cert = f.cert /\ g.offline = f.offline /\ g.ok = f.ok
    BY <1>2, <2>1, Zenon DEF FrameOK, Fields
  <2>3. Goto(t, g) /\ lastError'.code = code /\ lastError'.by = f.call
    BY <1>2, Zenon DEF SigningFails, SetError
  <2> HIDE DEF f, g
  <2>4. NoSig.stamped = FALSE
    BY Zenon DEF NoSig
  <2>5. Place(g) /\ Stamp(g)
    BY <2>2, <2>4, Zenon DEF Place, Stamp, Copied, BestOnly, Base64, Cades, Snapshots, Formats
  <2>6. FrameOK(g)
    BY <2>1, <2>2, <2>4, <2>5, Zenon DEF FrameOK
  <2>7. cert' \in Found(key')
    BY Zenon DEF SignInv
  <2>8. ErrorInv(g, lastError')
    BY <2>2, <2>3, Zenon DEF ErrorInv
  <2> QED
    BY <2>2, <2>3, <2>6, <2>7, <2>8, QuietStep, Zenon DEF f
<1> QED
  BY <1>1, <1>2, Zenon

\* A call is entered with a frame that has no stamp, and with the session's
\* offline_mode if it has a copy; if it is over at once, with its error.
EntryOK(f) ==
    /\ DOMAIN f = Fields
    /\ f.ok \in BOOLEAN /\ f.offline \in BOOLEAN
    /\ f.sig.stamped = FALSE
    /\ f.cert \in Found(f.key)
    /\ f.pc \notin {"idle", "resolve", "memo", "tsp", "write", "finish", "build", "trunc"}
    /\ f.pc = "done" => /\ f.ok = FALSE => f.sig = NoSig
                        /\ f.ok = TRUE => f.mode # "Required"
                        /\ f.op # "RawSignFile"
    /\ Place(f)
    /\ f.op \in Snapshots /\ f.pc # "done" => f.offline = offline

\* A thread enters a call: no other call is alone any more.
LEMMA EnterStep ==
    ASSUME SignInv, NEW t \in Threads, NEW f, Enter(t, f), EntryOK(f),
           f.pc = "done" => IF f.ok = TRUE THEN lastError'.code = "None" /\ f.op # "SignFileAsicXades"
                            ELSE lastError'.code # "None" /\ lastError'.by = calls + 1,
           UNCHANGED <<offline, key, cert, file>>
    PROVE  SignInv'
<1> DEFINE lone == \A v \in Threads \ {t} : At(v, "idle")
           g == [f EXCEPT !.call = calls + 1, !.online = ~offline, !.alone = lone]
<1>1. /\ DOMAIN frame' = Threads /\ frame'[t] = g /\ calls' = calls + 1
      /\ \A u \in Threads \ {t} : frame'[u] = [frame[u] EXCEPT !.alone = FALSE]
  BY Zenon DEF Enter
<1>2. /\ DOMAIN g = Fields /\ g.pc = f.pc /\ g.op = f.op /\ g.mode = f.mode
      /\ g.call = calls + 1 /\ g.key = f.key /\ g.cert = f.cert /\ g.offline = f.offline
      /\ g.existed = f.existed /\ g.sig = f.sig /\ g.ok = f.ok
      /\ g.online = ~offline /\ g.alone = lone
  BY Zenon DEF EntryOK, Fields
<1>3. /\ calls \in Nat /\ file.call \in 0 .. calls /\ offline \in BOOLEAN
      /\ cert \in Found(key)
  BY Zenon DEF SignInv
<1>4. g.online \in BOOLEAN /\ (g.online = FALSE => offline = TRUE)
  BY <1>2, <1>3, Zenon
<1>5. g.alone = TRUE => \A v \in Threads \ {t} : frame[v].pc = "idle"
  BY <1>2, Zenon DEF At
<1> HIDE DEF g, lone
<1>6. Place(g)
  BY <1>2 DEF EntryOK, Place
<1>7. Stamp(g)
  BY <1>2, <1>4, Zenon DEF EntryOK, Stamp, Copied
<1>8. FrameOK(g)
  BY <1>2, <1>4, <1>6, <1>7, Zenon DEF EntryOK, FrameOK
<1>9. /\ FileInv(g, file') /\ StaleInv(g, file', lastError')
      /\ ErrorInv(g, lastError')
  BY <1>2, <1>3 DEF EntryOK, FileInv, StaleInv, ErrorInv
<1>10. FInv(t)'
  BY <1>1, <1>2, <1>3, <1>4, <1>8, <1>9 DEF FInv
<1>11. ASSUME NEW u \in Threads \ {t}
       PROVE  /\ FInv(u)'
              /\ frame'[u].call = frame[u].call /\ frame'[u].alone = FALSE
              /\ frame'[u].pc = frame[u].pc
  <2> DEFINE h == [frame[u] EXCEPT !.alone = FALSE]
  <2>1. FInv(u) /\ FrameOK(frame[u])
    BY Zenon DEF SignInv, FInv
  <2>2. /\ DOMAIN h = Fields /\ h.pc = frame[u].pc /\ h.op = frame[u].op
        /\ h.mode = frame[u].mode /\ h.call = frame[u].call /\ h.key = frame[u].key
        /\ h.cert = frame[u].cert /\ h.offline = frame[u].offline
        /\ h.existed = frame[u].existed /\ h.sig = frame[u].sig /\ h.ok = frame[u].ok
        /\ h.online = frame[u].online /\ h.alone = FALSE
    BY <2>1, Zenon DEF FrameOK, Fields
  <2>3. frame'[u] = h
    BY <1>1, Zenon
  <2> HIDE DEF h
  <2>4. FrameOK(h)
    BY <2>1, <2>2 DEF FrameOK, Place, Stamp, Copied
  <2>5. /\ FileInv(h, file') /\ StaleInv(h, file', lastError')
        /\ ErrorInv(h, lastError')
    BY <2>1, <2>2, Zenon DEF FInv, FileInv, StaleInv, ErrorInv
  <2>6. h.pc # "idle" => h.call \in 1 .. calls'
    BY <1>1, <1>3, <2>1, <2>2 DEF FInv
  <2>7. h.pc # "idle" /\ h.online = FALSE => offline' = TRUE
    BY <2>1, <2>2, Zenon DEF FInv
  <2>8. FInv(u)'
    BY <2>3, <2>4, <2>5, <2>6, <2>7, Zenon DEF FInv
  <2> QED
    BY <2>2, <2>3, <2>8, Zenon
<1>12. ASSUME NEW u \in Threads, NEW v \in Threads \ {u}
       PROVE  Apart(u, v)'
  <2>1. Apart(u, v) /\ FInv(u) /\ FInv(v)
    BY Zenon DEF SignInv
  <2>2. frame[u].call \in 0 .. calls /\ frame[v].call \in 0 .. calls
    BY <1>3, <2>1 DEF FInv, FrameOK
  <2>3. CASE u = t
    <3>1. /\ frame'[u].call = calls + 1 /\ frame'[v].call = frame[v].call
          /\ frame'[u].alone = TRUE => frame[v].pc = "idle"
          /\ frame'[v].pc = frame[v].pc
      BY <1>1, <1>2, <1>5, <1>11, <2>3, Zenon
    <3> QED
      BY <1>3, <2>2, <3>1 DEF Apart
  <2>4. CASE v = t
    <3>1. /\ frame'[v].call = calls + 1 /\ frame'[u].call = frame[u].call
          /\ frame'[u].alone = FALSE
      BY <1>1, <1>2, <1>11, <2>4, Zenon
    <3> QED
      BY <1>3, <2>2, <3>1 DEF Apart
  <2>5. CASE u # t /\ v # t
    BY <1>11, <2>1, <2>5, Zenon DEF Apart
  <2> QED
    BY <2>3, <2>4, <2>5, Zenon
<1>13. \A u \in Threads : FInv(u)'
  BY <1>10, <1>11, Zenon
<1>14. /\ calls' \in Nat /\ file'.call \in 0 .. calls' /\ offline' \in BOOLEAN
       /\ cert' \in Found(key')
  BY <1>1, <1>3
<1> QED
  BY <1>1, <1>12, <1>13, <1>14, Zenon DEF SignInv

\* A call of one section.
LEMMA AtomicStep ==
    ASSUME SignInv, NEW t \in Threads, Atomic(t), offline' \in BOOLEAN,
           cert' \in Found(key'), file' = file
    PROVE  SignInv'
<1>1. DOMAIN frame' = Threads /\ calls' = calls + 1
  BY Zenon DEF Atomic
<1>2. calls \in Nat /\ file.call \in 0 .. calls
  BY Zenon DEF SignInv
<1>3. ASSUME NEW u \in Threads
      PROVE  /\ FInv(u)'
             /\ frame'[u].call = frame[u].call /\ frame'[u].alone = FALSE
  <2> DEFINE now == frame[u].online \/ (~At(u, "idle") /\ ~offline')
             h == [frame[u] EXCEPT !.alone = FALSE, !.online = now]
  <2>1. FInv(u) /\ FrameOK(frame[u])
    BY Zenon DEF SignInv, FInv
  <2>2. /\ DOMAIN h = Fields /\ h.pc = frame[u].pc /\ h.op = frame[u].op
        /\ h.mode = frame[u].mode /\ h.call = frame[u].call /\ h.key = frame[u].key
        /\ h.cert = frame[u].cert /\ h.offline = frame[u].offline
        /\ h.existed = frame[u].existed /\ h.sig = frame[u].sig /\ h.ok = frame[u].ok
        /\ h.online = now /\ h.alone = FALSE
    BY <2>1, Zenon DEF FrameOK, Fields
  <2>3. frame'[u] = h
    BY Zenon DEF Atomic
  <2>4. /\ h.online \in BOOLEAN
        /\ h.online = FALSE => frame[u].online = FALSE
        /\ h.online = FALSE /\ frame[u].pc # "idle" => offline' = TRUE
    BY <2>1, <2>2, ZenonT(60) DEF FrameOK, At
  <2> HIDE DEF h, now
  <2>5. FrameOK(h)
    BY <2>1, <2>2, <2>4 DEF FrameOK, Place, Stamp, Copied
  <2>6. /\ FileInv(h, file') /\ StaleInv(h, file', lastError')
        /\ ErrorInv(h, lastError')
    BY <2>1, <2>2, Zenon DEF FInv, FileInv, StaleInv, ErrorInv
  <2>7. h.pc # "idle" => h.call \in 1 .. calls'
    BY <1>1, <1>2, <2>1, <2>2 DEF FInv
  <2>8. FInv(u)'
    BY <2>2, <2>3, <2>4, <2>5, <2>6, <2>7, Zenon DEF FInv
  <2> QED
    BY <2>2, <2>3, <2>8, Zenon
<1>4. ASSUME NEW u \in Threads, NEW v \in Threads \ {u}
      PROVE  Apart(u, v)'
  BY <1>3, ZenonT(60) DEF SignInv, Apart
<1>5. calls' \in Nat /\ file'.call \in 0 .. calls'
  BY <1>1, <1>2
<1> QED
  BY <1>1, <1>3, <1>4, <1>5, Zenon DEF SignInv

-----------------------------------------------------------------------------
(* Actions that enter a call, or make one in a single section. *)

\* Lifecycle and settings calls.
LEMMA SettingsSteps ==
    ASSUME SignInv, NEW t \in Threads,
           \/ Initialize(t) \/ Finalize(t) \/ ResetPrivateKey(t) \/ SettingsRefused(t)
           \/ SetSettings(t) \/ SetTspSettings(t) \/ SetFileStoreSettings(t)
    PROVE  SignInv'
<1>1. offline \in BOOLEAN /\ cert \in Found(key)
  BY Zenon DEF SignInv
<1>2. CASE Initialize(t)
  BY <1>1, <1>2, AtomicStep, Zenon DEF Initialize, keyVars, setVars
<1>3. CASE Finalize(t)
  BY <1>1, <1>3, AtomicStep, NoneFound, Zenon DEF Finalize, ForgetKey, setVars
<1>4. CASE ResetPrivateKey(t)
  BY <1>1, <1>4, AtomicStep, NoneFound, Zenon DEF ResetPrivateKey, ForgetKey, setVars
<1>5. CASE SettingsRefused(t)
  BY <1>1, <1>5, AtomicStep, Zenon DEF SettingsRefused, keyVars, setVars
<1>6. CASE SetSettings(t)
  BY <1>1, <1>6, AtomicStep, Zenon DEF SetSettings, keyVars
<1>7. CASE SetTspSettings(t)
  BY <1>1, <1>7, AtomicStep, Zenon DEF SetTspSettings, keyVars
<1>8. CASE SetFileStoreSettings(t)
  BY <1>1, <1>8, AtomicStep, Zenon DEF SetFileStoreSettings, keyVars
<1> QED
  BY <1>2, <1>3, <1>4, <1>5, <1>6, <1>7, <1>8, Zenon

\* SyncTrustList copies offline_mode.
LEMMA SyncStartStep ==
    ASSUME SignInv, NEW t \in Threads, SyncStart(t)
    PROVE  SignInv'
<1> DEFINE f == [Idle EXCEPT !.op = "SyncTrustList", !.offline = offline,
                             !.pc = IF initialized THEN "sync" ELSE "done"]
<1>1. /\ DOMAIN f = Fields /\ f.pc \in {"sync", "done"} /\ f.op = "SyncTrustList"
      /\ f.mode = "Disabled" /\ f.ok = FALSE /\ f.sig = NoSig /\ f.key = None
      /\ f.cert = None /\ f.offline = offline /\ NoSig.stamped = FALSE
  BY Zenon DEF Idle, Fields, NoSig
<1>2. Enter(t, f) /\ UNCHANGED <<offline, key, cert, file>>
  BY Zenon DEF SyncStart, keyVars, setVars
<1>3. f.pc = "done" => lastError'.code # "None" /\ lastError'.by = calls + 1
  BY DEF SyncStart, SetError, Idle
<1> HIDE DEF f
<1>4. Place(f)
  BY <1>1, Zenon DEF Place, BestOnly, Base64, Cades
<1>5. EntryOK(f)
  BY <1>1, <1>4, NoneFound, Zenon DEF EntryOK, SignInv
<1> QED
  BY <1>1, <1>2, <1>3, <1>5, EnterStep, Zenon

\* A ReadPrivateKey* call starts with a key and no certificate.
LEMMA ReadPrivateKeyStep ==
    ASSUME SignInv, NEW t \in Threads, ReadPrivateKey(t)
    PROVE  SignInv'
<1>1. PICK op \in Ops \cap Loading, k \in Keys, h \in BOOLEAN :
        Enter(t, [Idle EXCEPT !.op = op, !.pc = "parse", !.key = k, !.hint = h])
  BY Zenon DEF ReadPrivateKey
<1> DEFINE f == [Idle EXCEPT !.op = op, !.pc = "parse", !.key = k, !.hint = h]
<1>2. /\ DOMAIN f = Fields /\ f.pc = "parse" /\ f.op = op
      /\ f.mode = "Disabled" /\ f.ok = FALSE /\ f.sig = NoSig
      /\ f.cert = None /\ f.offline = FALSE /\ NoSig.stamped = FALSE
  BY Zenon DEF Idle, Fields, NoSig
<1>3. Enter(t, f) /\ UNCHANGED <<offline, key, cert, file>>
  BY <1>1, Zenon DEF ReadPrivateKey, keyVars, setVars
<1> HIDE DEF f
<1>4. f.op \notin BestOnly \cup Snapshots \cup {"RawSignFile"}
  BY <1>2, Zenon DEF Loading, BestOnly, Base64, Cades, Snapshots, Formats
<1>5. Place(f)
  BY <1>2, <1>4, Zenon DEF Place
<1>6. EntryOK(f)
  BY <1>2, <1>4, <1>5, NoneFound, Zenon DEF EntryOK
<1> QED
  BY <1>2, <1>3, <1>6, EnterStep, Zenon

\* SignData, its wrappers, SignFile and RawSignFile start without a copy.
LEMMA StartUncheckedStep ==
    ASSUME SignInv, NEW t \in Threads, StartUnchecked(t)
    PROVE  SignInv'
<1>1. PICK op \in Ops \cap (Direct \cup Base64 \cup {"SignFile", "RawSignFile"}),
           mode \in Modes :
        /\ op \in Base64 => mode = "BestEffort"
        /\ Enter(t, [Idle EXCEPT !.op = op, !.mode = mode,
                       !.over = op \in {"SignFile", "RawSignFile"} /\ overwrite,
                       !.pc = CASE op = "SignFile"    -> "input"
                                [] op = "RawSignFile" -> "exists"
                                [] OTHER              -> "sign"])
  BY Zenon DEF StartUnchecked
<1> DEFINE over == op \in {"SignFile", "RawSignFile"} /\ overwrite
           pc == CASE op = "SignFile"    -> "input"
                   [] op = "RawSignFile" -> "exists"
                   [] OTHER              -> "sign"
           f == [Idle EXCEPT !.op = op, !.mode = mode, !.over = over, !.pc = pc]
<1>2. pc \in {"input", "exists", "sign"}
  BY Zenon
<1>3. Enter(t, f) /\ UNCHANGED <<offline, key, cert, file>>
  BY <1>1, Zenon DEF StartUnchecked, keyVars, setVars
<1> HIDE DEF pc, over
<1>4. /\ DOMAIN f = Fields /\ f.pc = pc /\ f.op = op
      /\ f.mode = mode /\ f.ok = FALSE /\ f.sig = NoSig /\ f.existed = FALSE
      /\ f.key = None /\ f.cert = None /\ f.offline = FALSE /\ NoSig.stamped = FALSE
  BY Zenon DEF Idle, Fields, NoSig
<1>5. /\ op \in Callers /\ op \notin Snapshots
      /\ pc = "exists" => op = "RawSignFile"
  <2>1. op \in Callers /\ op \notin Snapshots
    BY Zenon DEF Callers, Snapshots, Formats, Direct, Base64
  <2>2. pc = "exists" => op = "RawSignFile"
    BY Zenon DEF pc
  <2> QED
    BY <2>1, <2>2, Zenon
<1>6. op \in BestOnly => mode = "BestEffort"
  BY <1>1, Zenon DEF BestOnly, Direct, Base64, Cades
<1> HIDE DEF f
<1>7. Place(f)
  BY <1>2, <1>4, <1>5, <1>6, Zenon DEF Place
<1>8. EntryOK(f)
  BY <1>2, <1>4, <1>5, <1>7, NoneFound, Zenon DEF EntryOK
<1> QED
  BY <1>2, <1>3, <1>4, <1>8, EnterStep, Zenon

\* The others fail at once or start, XAdES and PAdES with their copy.
LEMMA StartCheckedStep ==
    ASSUME SignInv, NEW t \in Threads, StartChecked(t)
    PROVE  SignInv'
<1> DEFINE F(op, mode) == [Idle EXCEPT !.op = op, !.mode = mode,
                                       !.over = op \notin Formats /\ overwrite]
           T(op, mode) == [F(op, mode) EXCEPT !.key = key, !.cert = cert, !.conf = tsp,
                                              !.offline = offline]
           G(op, mode) == IF op \in Snapshots THEN [T(op, mode) EXCEPT !.pc = "extract"]
                          ELSE [F(op, mode) EXCEPT !.pc = "input"]
<1>1. PICK op \in Ops \cap (Cades \cup Snapshots \cup {"AddSignatureToAsicE"}),
           mode \in Modes :
        /\ mode = "BestEffort" <=> op \notin Formats
        /\ \/ /\ Enter(t, Done(F(op, mode), FALSE))
              /\ SetError("NotInitialized", calls + 1) \/ SetError("KeyNotLoaded", calls + 1)
           \/ Enter(t, G(op, mode))
  BY ZenonT(60) DEF StartChecked
<1>2. UNCHANGED <<offline, key, cert, file>>
  BY Zenon DEF StartChecked, keyVars, setVars
<1>3. /\ op \in Snapshots \/ op \in Callers
      /\ op \in BestOnly => mode = "BestEffort"
      /\ op \notin Direct \cup Base64 \cup {"RawSignFile", "SignFile"}
  BY <1>1, Zenon DEF Callers, BestOnly, Snapshots, Formats, Direct, Base64, Cades
<1>4. /\ DOMAIN F(op, mode) = Fields /\ F(op, mode).op = op /\ F(op, mode).mode = mode
      /\ F(op, mode).pc = "idle" /\ F(op, mode).ok = FALSE /\ F(op, mode).sig = NoSig
      /\ F(op, mode).key = None /\ F(op, mode).cert = None /\ F(op, mode).offline = FALSE
      /\ F(op, mode).call = 0 /\ F(op, mode).online = FALSE /\ NoSig.stamped = FALSE
  <2> DEFINE over == op \notin Formats /\ overwrite
             f == [Idle EXCEPT !.op = op, !.mode = mode, !.over = over]
  <2> HIDE DEF over
  <2>1. /\ DOMAIN f = Fields /\ f.op = op /\ f.mode = mode
        /\ f.pc = "idle" /\ f.ok = FALSE /\ f.sig = NoSig
        /\ f.key = None /\ f.cert = None /\ f.offline = FALSE
        /\ f.call = 0 /\ f.online = FALSE /\ NoSig.stamped = FALSE
    BY Zenon DEF Idle, Fields, NoSig
  <2> QED
    BY <2>1, Zenon DEF over
<1> HIDE DEF F
<1>5. CASE /\ Enter(t, Done(F(op, mode), FALSE))
           /\ SetError("NotInitialized", calls + 1) \/ SetError("KeyNotLoaded", calls + 1)
  <2> DEFINE f == Done(F(op, mode), FALSE)
  <2>1. /\ DOMAIN f = Fields /\ f.pc = "done" /\ f.op = op /\ f.mode = mode /\ f.ok = FALSE
        /\ f.sig = NoSig /\ f.key = None /\ f.cert = None /\ f.offline = FALSE
    BY <1>4, DoneFrame, Zenon
  <2> HIDE DEF f
  <2>2. Place(f)
    BY <1>3, <2>1, Zenon DEF Place
  <2>3. EntryOK(f)
    BY <1>3, <1>4, <2>1, <2>2, NoneFound, Zenon DEF EntryOK
  <2>4. lastError'.code # "None" /\ lastError'.by = calls + 1
    BY <1>5 DEF SetError
  <2> QED
    BY <1>2, <1>5, <2>1, <2>3, <2>4, EnterStep, Zenon DEF f
<1>6. CASE Enter(t, G(op, mode))
  <2> DEFINE f == G(op, mode)
  <2>1. /\ DOMAIN f = Fields /\ f.op = op /\ f.mode = mode /\ f.ok = FALSE /\ f.sig = NoSig
        /\ f.offline \in BOOLEAN
        /\ op \in Snapshots => /\ f.pc = "extract" /\ f.offline = offline
                               /\ f.key = key /\ f.cert = cert
        /\ op \notin Snapshots => f.pc = "input" /\ f.key = None /\ f.cert = None
    BY <1>4, Zenon DEF Fields, SignInv
  <2> HIDE DEF f
  <2>2. Place(f)
    BY <1>3, <2>1, Zenon DEF Place
  <2>3. f.cert \in Found(f.key)
    BY <2>1, NoneFound, Zenon DEF SignInv
  <2>4. EntryOK(f)
    BY <1>4, <2>1, <2>2, <2>3, Zenon DEF EntryOK
  <2> QED
    BY <1>2, <1>6, <2>1, <2>4, EnterStep, Zenon DEF f
<1> QED
  BY <1>1, <1>5, <1>6, Zenon

\* SignXml without a XAdES profile is over in one section, unstamped.
LEMMA SignXmlPlainStep ==
    ASSUME SignInv, NEW t \in Threads, SignXmlPlain(t)
    PROVE  SignInv'
<1> DEFINE b == [Idle EXCEPT !.op = "SignXml", !.key = key, !.cert = cert,
                             !.sig = [by |-> key, stamped |-> FALSE]]
<1>1. PICK ok \in BOOLEAN :
        /\ ok => initialized /\ loaded
        /\ Enter(t, Done(b, ok))
        /\ CASE ~initialized -> SetError("NotInitialized", calls + 1)
             [] initialized /\ ~loaded -> SetError("KeyNotLoaded", calls + 1)
             [] initialized /\ loaded /\ ~ok -> SetError("InternalError", calls + 1)
             [] ok -> ClearError
  BY Zenon DEF SignXmlPlain
<1>2. UNCHANGED <<offline, key, cert, file>>
  BY Zenon DEF SignXmlPlain, keyVars, setVars
<1>3. /\ b.op = "SignXml" /\ b.mode = "Disabled" /\ b.sig.stamped = FALSE
      /\ NoSig.stamped = FALSE
  BY Zenon DEF Idle, NoSig
<1> HIDE DEF b
<1> DEFINE f == Done(b, ok)
<1>4. /\ DOMAIN f = Fields /\ f.pc = "done" /\ f.op = "SignXml" /\ f.mode = "Disabled"
      /\ f.ok = ok /\ f.sig = (IF ok THEN b.sig ELSE NoSig) /\ f.key = None /\ f.cert = None
      /\ f.offline = FALSE
  BY <1>3, DoneFrame, ZenonT(60)
<1> HIDE DEF f
<1>5. f.sig.stamped = FALSE /\ (f.ok = FALSE => f.sig = NoSig)
  BY <1>3, <1>4, Zenon
<1>6. Place(f)
  BY <1>4, Zenon DEF Place, BestOnly, Base64, Cades
<1>7. EntryOK(f)
  BY <1>4, <1>5, <1>6, NoneFound, Zenon DEF EntryOK
<1>8. IF ok = TRUE THEN lastError'.code = "None"
      ELSE lastError'.code # "None" /\ lastError'.by = calls + 1
  <2>1. CASE ok = TRUE
    <3>1. ClearError
      BY <1>1, <2>1, Zenon
    <3> QED
      BY <2>1, <3>1, Zenon DEF ClearError
  <2>2. CASE ok = FALSE
    <3>1. \E code \in {"NotInitialized", "KeyNotLoaded", "InternalError"} :
            SetError(code, calls + 1)
      <4>1. CASE ~initialized
        BY <1>1, <4>1, Zenon
      <4>2. CASE initialized /\ ~loaded
        BY <1>1, <4>2, Zenon
      <4>3. CASE initialized /\ loaded
        BY <1>1, <2>2, <4>3, Zenon
      <4> QED
        BY <4>1, <4>2, <4>3, Zenon
    <3> QED
      BY <2>2, <3>1 DEF SetError
  <2> QED
    BY <2>1, <2>2, Zenon
<1> QED
  BY <1>1, <1>2, <1>4, <1>7, <1>8, EnterStep, Zenon DEF f

-----------------------------------------------------------------------------
(* Synchronising the trust list and loading a key. *)

\* A synchronisation signs nothing.
LEMMA SyncSteps ==
    ASSUME SignInv, NEW t \in Threads, SyncRun(t) \/ SyncCommit(t)
    PROVE  SignInv'
<1>1. FrameOK(frame[t]) /\ cert \in Found(key)
  BY Zenon DEF SignInv, FInv
<1>2. CASE SyncRun(t)
  <2>1. PICK ok \in BOOLEAN : Goto(t, [frame[t] EXCEPT !.pc = "syncCommit", !.ok = ok])
    BY <1>2, Zenon DEF SyncRun
  <2> DEFINE f == frame[t]
             g == [f EXCEPT !.pc = "syncCommit", !.ok = ok]
  <2>2. /\ DOMAIN g = Fields /\ g.pc = "syncCommit" /\ g.op = f.op /\ g.mode = f.mode
        /\ g.call = f.call /\ g.online = f.online /\ g.alone = f.alone /\ g.sig = f.sig
        /\ g.key = f.key /\ g.cert = f.cert /\ g.offline = f.offline /\ g.ok = ok
    BY <1>1, Zenon DEF FrameOK, Fields
  <2>3. f.pc = "sync"
    BY <1>2, ZenonT(60) DEF SyncRun, At
  <2> HIDE DEF g
  <2>4. FrameOK(g)
    BY <1>1, <2>2, <2>3, Zenon DEF FrameOK, Place, Stamp, Copied
  <2>5. UNCHANGED <<calls, offline, key, cert, file>> /\ Goto(t, g)
    BY <1>2, <2>1, Zenon DEF SyncRun, keyVars, setVars, g
  <2> QED
    BY <1>1, <2>2, <2>3, <2>4, <2>5, QuietStep, Zenon
<1>3. CASE SyncCommit(t)
  <2>1. UNCHANGED <<calls, offline, key, cert, file>>
    BY <1>3, Zenon DEF SyncCommit, keyVars, setVars
  <2>2. CASE At(t, "sync") /\ Fail(t, "OnlineServiceUnavailable")
    <3>1. frame[t].op # "RawSignFile"
      BY <1>1, <2>2, Zenon DEF At, FrameOK, Place
    <3> QED
      BY <2>1, <2>2, <3>1, FailStep, Zenon DEF At
  <2>3. CASE /\ At(t, "syncCommit") /\ Goto(t, Done(frame[t], frame[t].ok))
             /\ IF frame[t].ok THEN ClearError
                ELSE SetError("OnlineServiceUnavailable", frame[t].call)
    <3> DEFINE g == Done(frame[t], frame[t].ok)
    <3>1. /\ frame[t].op \notin {"RawSignFile", "SignFileAsicXades"}
          /\ frame[t].mode = "Disabled" /\ frame[t].ok \in BOOLEAN
      BY <1>1, <2>3, Zenon DEF At, FrameOK, Place, BestOnly
    <3>2. /\ g.pc = "done" /\ g.call = frame[t].call /\ g.online = frame[t].online
          /\ g.alone = frame[t].alone /\ g.op = frame[t].op /\ g.ok = frame[t].ok
      BY <3>1, DoneFrame, ZenonT(60)
    <3>3. FrameOK(g)
      <4>1. CASE frame[t].ok = TRUE
        BY <1>1, <3>1, <4>1, SucceededFrame, Zenon
      <4>2. CASE frame[t].ok = FALSE
        BY <1>1, <2>3, <4>2, FailedFrame, Zenon DEF At
      <4> QED
        BY <3>1, <4>1, <4>2, Zenon
    <3>4. Goto(t, g)
      BY <2>3, Zenon
    <3> HIDE DEF g
    <3>5. ErrorInv(g, lastError')
      BY <2>3, <3>1, <3>2 DEF ErrorInv, ClearError, SetError
    <3> QED
      BY <1>1, <2>1, <2>3, <3>1, <3>2, <3>3, <3>4, <3>5, QuietStep, Zenon DEF At
  <2> QED
    BY <1>3, <2>2, <2>3, Zenon DEF SyncCommit
<1> QED
  BY <1>2, <1>3, Zenon

\* A call moves on to another place, with a certificate of its key or none.
LEMMA MovedFrame ==
    ASSUME NEW f, DOMAIN f = Fields, NEW p, NEW c
    PROVE  LET g == [f EXCEPT !.pc = p, !.cert = c]
               h == [f EXCEPT !.pc = p]
           IN /\ DOMAIN g = Fields /\ g.pc = p /\ g.op = f.op /\ g.mode = f.mode
              /\ g.call = f.call /\ g.online = f.online /\ g.alone = f.alone /\ g.sig = f.sig
              /\ g.key = f.key /\ g.cert = c /\ g.offline = f.offline /\ g.ok = f.ok
              /\ g.existed = f.existed
              /\ DOMAIN h = Fields /\ h.pc = p /\ h.op = f.op /\ h.mode = f.mode
              /\ h.call = f.call /\ h.online = f.online /\ h.alone = f.alone /\ h.sig = f.sig
              /\ h.key = f.key /\ h.cert = f.cert /\ h.offline = f.offline /\ h.ok = f.ok
              /\ h.existed = f.existed
BY Zenon DEF Fields

\* While a key is loaded, nothing of a signature is at stake.
LEMMA LoadingStep ==
    ASSUME SignInv, NEW t \in Threads,
           frame[t].pc \in {"parse", "resolveCert"}, NEW p \in {"resolveCert", "commit"},
           NEW c \in Found(frame[t].key),
           Goto(t, [frame[t] EXCEPT !.pc = p, !.cert = c]),
           UNCHANGED <<calls, offline, key, cert, file>>
    PROVE  SignInv'
<1> DEFINE f == frame[t]
           g == [f EXCEPT !.pc = p, !.cert = c]
<1>1. FrameOK(f) /\ cert \in Found(key)
  BY Zenon DEF SignInv, FInv
<1>2. /\ DOMAIN g = Fields /\ g.pc = p /\ g.op = f.op /\ g.mode = f.mode
      /\ g.call = f.call /\ g.online = f.online /\ g.alone = f.alone /\ g.sig = f.sig
      /\ g.key = f.key /\ g.cert = c /\ g.offline = f.offline /\ g.ok = f.ok
  BY <1>1, MovedFrame DEF FrameOK
<1>3. Goto(t, g)
  BY Zenon
<1> HIDE DEF g
<1>4. FrameOK(g)
  BY <1>1, <1>2, Zenon DEF FrameOK, Place, Stamp, Copied
<1> QED
  BY <1>1, <1>2, <1>3, <1>4, QuietStep, Zenon

\* A key is committed with its own certificate or none.
LEMMA LoadSteps ==
    ASSUME SignInv, NEW t \in Threads,
           NormalizeKeyContainer(t) \/ ResolveMissingCertificate(t) \/ CommitLoadedKey(t)
    PROVE  SignInv'
<1>1. FrameOK(frame[t]) /\ cert \in Found(key)
  BY Zenon DEF SignInv, FInv
<1>2. ASSUME NEW p, DOMAIN frame[t] = Fields
      PROVE  [frame[t] EXCEPT !.pc = p] = [frame[t] EXCEPT !.pc = p, !.cert = frame[t].cert]
  BY <1>2, Zenon
<1>3. frame[t].pc \in {"parse", "resolveCert", "commit"} => frame[t].op # "RawSignFile"
  BY <1>1, Zenon DEF FrameOK, Place
<1>4. CASE NormalizeKeyContainer(t)
  <2>1. UNCHANGED <<calls, offline, key, cert, file>> /\ frame[t].pc = "parse"
    BY <1>4, Zenon DEF NormalizeKeyContainer, keyVars, setVars, At
  <2>2. CASE Fail(t, "InvalidArgument")
    BY <1>3, <2>1, <2>2, FailStep, Zenon
  <2>3. ASSUME NEW c \in Brought(frame[t].key),
               Goto(t, [frame[t] EXCEPT !.pc = IF c = None THEN "resolveCert" ELSE "commit",
                                        !.cert = c])
        PROVE  SignInv'
    <3> DEFINE p == IF c = None THEN "resolveCert" ELSE "commit"
    <3>1. p \in {"resolveCert", "commit"} /\ c \in Found(frame[t].key)
      BY Zenon DEF Found
    <3>2. Goto(t, [frame[t] EXCEPT !.pc = p, !.cert = c])
      BY <2>3, Zenon
    <3> HIDE DEF p
    <3> QED
      BY <2>1, <3>1, <3>2, LoadingStep, Zenon
  <2> QED
    BY <1>4, <2>2, <2>3, Zenon DEF NormalizeKeyContainer
<1>5. CASE ResolveMissingCertificate(t)
  <2>1. UNCHANGED <<calls, offline, key, cert, file>> /\ frame[t].pc = "resolveCert"
    BY <1>5, Zenon DEF ResolveMissingCertificate, keyVars, setVars, At
  <2>2. CASE Fail(t, "InvalidArgument")
    BY <1>3, <2>1, <2>2, FailStep, Zenon
  <2>3. CASE Goto(t, [frame[t] EXCEPT !.pc = "commit", !.cert = frame[t].key])
    BY <2>1, <2>3, LoadingStep, NoneFound, Zenon
  <2>4. CASE Goto(t, [frame[t] EXCEPT !.pc = "commit"])
    <3>1. Goto(t, [frame[t] EXCEPT !.pc = "commit", !.cert = frame[t].cert])
      BY <1>1, <1>2, <2>4, Zenon DEF FrameOK
    <3>2. frame[t].cert \in Found(frame[t].key)
      BY <1>1, Zenon DEF FrameOK
    <3> QED
      BY <2>1, <3>1, <3>2, LoadingStep, Zenon
  <2> QED
    BY <1>5, <2>2, <2>3, <2>4, Zenon DEF ResolveMissingCertificate
<1>6. CASE CommitLoadedKey(t)
  <2> DEFINE g == Done(frame[t], TRUE)
  <2>1. /\ frame[t].pc = "commit" /\ Goto(t, g) /\ lastError'.code = "None"
        /\ UNCHANGED <<calls, offline, file>> /\ cert' \in Found(key')
    BY <1>1, <1>6, Zenon DEF CommitLoadedKey, setVars, At, FrameOK, ClearError
  <2>2. /\ g.pc = "done" /\ g.call = frame[t].call /\ g.online = frame[t].online
        /\ g.alone = frame[t].alone /\ g.op = frame[t].op /\ g.ok = TRUE
    BY DoneFrame, Zenon
  <2>3. frame[t].mode = "Disabled" /\ frame[t].op # "SignFileAsicXades"
    BY <1>1, <2>1, Zenon DEF FrameOK, Place, BestOnly
  <2>4. FrameOK(g)
    BY <1>1, <2>3, SucceededFrame, Zenon
  <2> HIDE DEF g
  <2>5. ErrorInv(g, lastError')
    BY <2>1, <2>2, <2>3, Zenon DEF ErrorInv
  <2> QED
    BY <1>3, <2>1, <2>2, <2>4, <2>5, QuietStep, Zenon
<1> QED
  BY <1>4, <1>5, <1>6, Zenon

-----------------------------------------------------------------------------
(* Signing. *)

\* A call moves on to another place, the rest of its frame as it was.
LEMMA MoveStep ==
    ASSUME SignInv, NEW t \in Threads, NEW p, p \notin {"idle", "trunc", "done"},
           frame[t].pc \notin {"idle", "finish", "done"},
           Goto(t, [frame[t] EXCEPT !.pc = p]),
           Place([frame[t] EXCEPT !.pc = p]), Stamp([frame[t] EXCEPT !.pc = p]),
           UNCHANGED <<calls, offline, key, cert, file>>
    PROVE  SignInv'
<1> DEFINE f == frame[t]
           g == [f EXCEPT !.pc = p]
<1>1. FrameOK(f) /\ cert \in Found(key)
  BY Zenon DEF SignInv, FInv
<1>2. /\ DOMAIN g = Fields /\ g.pc = p /\ g.op = f.op /\ g.mode = f.mode
      /\ g.call = f.call /\ g.online = f.online /\ g.alone = f.alone /\ g.sig = f.sig
      /\ g.key = f.key /\ g.cert = f.cert /\ g.offline = f.offline /\ g.ok = f.ok
  BY <1>1, MovedFrame DEF FrameOK
<1>3. Goto(t, g) /\ Place(g) /\ Stamp(g)
  BY Zenon
<1> HIDE DEF g
<1>4. FrameOK(g)
  BY <1>1, <1>2, <1>3, Zenon DEF FrameOK
<1> QED
  BY <1>1, <1>2, <1>3, <1>4, QuietStep, Zenon

\* A call succeeds without having written a file.
LEMMA SucceedStep ==
    ASSUME SignInv, NEW t \in Threads, NEW f, FrameOK(f), Goto(t, Done(f, TRUE)),
           frame[t].pc \notin {"idle", "finish", "done"},
           f.mode = "Required" => f.sig.stamped = TRUE,
           f.op # "SignFileAsicXades", lastError'.code = "None",
           f.call = frame[t].call, f.online = frame[t].online, f.alone = frame[t].alone,
           UNCHANGED <<calls, offline, key, cert, file>>
    PROVE  SignInv'
<1> DEFINE g == Done(f, TRUE)
<1>1. FrameOK(g)
  BY SucceededFrame, Zenon
<1>2. /\ g.pc = "done" /\ g.ok = TRUE /\ g.call = f.call /\ g.online = f.online
      /\ g.alone = f.alone /\ g.op = f.op
  BY DoneFrame, ZenonT(60)
<1>3. Goto(t, g) /\ cert' \in Found(key')
  BY Zenon DEF SignInv
<1> HIDE DEF g
<1>4. ErrorInv(g, lastError')
  BY <1>2, Zenon DEF ErrorInv
<1> QED
  BY <1>1, <1>2, <1>3, <1>4, QuietStep, Zenon

\* SignData hands the signature of f to its caller.
LEMMA SignedStep ==
    ASSUME SignInv, NEW t \in Threads, NEW f, FrameOK(f), Goto(t, Signed(f)),
           f.op \in Callers, f.mode = "Required" => f.sig.stamped = TRUE,
           frame[t].pc \in {"tsp", "clear"}, lastError'.code = "None",
           f.call = frame[t].call, f.online = frame[t].online, f.alone = frame[t].alone,
           UNCHANGED <<calls, offline, key, cert, file>>
    PROVE  SignInv'
<1>1. CASE f.op \in Direct \cup {"SignFile"}
  <2>1. Signed(f) = Done(f, TRUE)
    BY <1>1, Zenon DEF Signed, Direct, Base64, Cades
  <2>2. f.op # "SignFileAsicXades"
    BY <1>1, Zenon DEF Direct
  <2> QED
    BY <2>1, <2>2, SucceedStep, Zenon
<1>2. CASE f.op \notin Direct \cup {"SignFile"}
  <2>1. PICK p \in {"wrap", "write", "capture", "pack"} :
          /\ Signed(f) = [f EXCEPT !.pc = p]
          /\ p = "write" <=> f.op = "RawSignFile"
          /\ p = "wrap" => f.op \in Base64
    BY <1>2, Zenon DEF Signed, Callers, Direct, Base64, Cades
  <2> DEFINE g == [f EXCEPT !.pc = p]
  <2>2. /\ DOMAIN g = Fields /\ g.pc = p /\ g.op = f.op /\ g.mode = f.mode
        /\ g.call = f.call /\ g.online = f.online /\ g.alone = f.alone /\ g.sig = f.sig
        /\ g.key = f.key /\ g.cert = f.cert /\ g.offline = f.offline /\ g.ok = f.ok
    BY MovedFrame DEF FrameOK
  <2>3. Goto(t, g) /\ cert' \in Found(key')
    BY <2>1, Zenon DEF SignInv
  <2> HIDE DEF g
  <2>4. f.op \notin Snapshots /\ f.op \in BestOnly \cup {"RawSignFile"}
    BY <1>2, Zenon DEF Callers, BestOnly, Snapshots, Formats, Direct, Base64, Cades
  <2>5. Place(g) /\ Stamp(g)
    BY <2>1, <2>2, <2>4 DEF FrameOK, Place, Stamp, Copied, Snapshots
  <2>6. FrameOK(g)
    BY <2>1, <2>2, <2>5, Zenon DEF FrameOK
  <2> QED
    BY <2>1, <2>2, <2>3, <2>6, QuietStep, ZenonT(60)
<1> QED
  BY <1>1, <1>2, Zenon

\* Reading the input: on to signing, or failure.
LEMMA ReadInputStep ==
    ASSUME SignInv, NEW t \in Threads, ReadInput(t)
    PROVE  SignInv'
<1> DEFINE f == frame[t]
<1>1. FrameOK(f)
  BY Zenon DEF SignInv, FInv
<1>2. UNCHANGED <<calls, offline, key, cert, file>> /\ f.pc = "input"
  BY Zenon DEF ReadInput, keyVars, setVars, At
<1>3. CASE SigningFails(t, "InvalidArgument") \/ SigningFails(t, "InternalError")
  BY <1>2, <1>3, SigningFailsStep, Zenon
<1>4. CASE Goto(t, [f EXCEPT !.pc = IF f.op \in Snapshots THEN "resolve" ELSE "sign"])
  <2> DEFINE p == IF f.op \in Snapshots THEN "resolve" ELSE "sign"
             g == [f EXCEPT !.pc = p]
  <2>1. /\ g.pc = p /\ g.op = f.op /\ g.mode = f.mode /\ g.online = f.online
        /\ g.sig = f.sig /\ g.offline = f.offline /\ g.ok = f.ok
    BY <1>1, MovedFrame DEF FrameOK
  <2>2. f.op \in Callers \/ f.op = "SignFileAsicXades"
    BY <1>1, <1>2, Zenon DEF FrameOK, Place
  <2>3. "SignFileAsicXades" \in Snapshots
    BY Zenon DEF Snapshots
  <2>4. p \in {"resolve", "sign"} /\ (p = "resolve" <=> f.op \in Snapshots)
    BY Zenon
  <2>5. Goto(t, g)
    BY <1>4, Zenon
  <2> HIDE DEF p
  <2>6. Place(g) /\ Stamp(g)
    <3> HIDE DEF g
    <3> QED
      BY <1>1, <1>2, <2>1, <2>2, <2>3, <2>4, Zenon DEF FrameOK, Place, Stamp, Copied
  <2> QED
    BY <1>2, <2>4, <2>5, <2>6, MoveStep, Zenon
<1> QED
  BY <1>3, <1>4, Zenon DEF ReadInput

\* The signature is unstamped, and offline_mode is copied with the key.
LEMMA SignStep ==
    ASSUME SignInv, NEW t \in Threads, Sign(t)
    PROVE  SignInv'
<1> DEFINE f == frame[t]
           p == IF f.mode = "Disabled" THEN "clear" ELSE "resolve"
           g == [f EXCEPT !.pc = p, !.sig = [by |-> key, stamped |-> FALSE], !.key = key,
                          !.cert = cert, !.conf = tsp, !.offline = offline]
<1>1. FrameOK(f) /\ FInv(t) /\ cert \in Found(key) /\ offline \in BOOLEAN
  BY Zenon DEF SignInv, FInv
<1>2. UNCHANGED <<calls, offline, key, cert, file>> /\ f.pc = "sign"
  BY Zenon DEF Sign, keyVars, setVars, At
<1>3. ASSUME NEW code, code # "None", SigningFails(t, code)
      PROVE  SignInv'
  BY <1>2, <1>3, SigningFailsStep, Zenon
<1>4. CASE Goto(t, g)
  <2>1. p \in {"clear", "resolve"} /\ (p = "clear" => f.mode = "Disabled")
    BY Zenon
  <2> HIDE DEF p
  <2>2. /\ DOMAIN g = Fields /\ g.pc = p /\ g.op = f.op /\ g.mode = f.mode
        /\ g.call = f.call /\ g.online = f.online /\ g.alone = f.alone
        /\ g.sig.stamped = FALSE /\ g.key = key /\ g.cert = cert /\ g.offline = offline
        /\ g.ok = f.ok
    BY <1>1, Zenon DEF FrameOK, Fields
  <2> HIDE DEF g
  <2>3. f.online = FALSE => offline = TRUE
    BY <1>1, <1>2, Zenon DEF FInv
  <2>4. Place(g)
    BY <1>1, <1>2, <2>1, <2>2, Zenon DEF FrameOK, Place
  <2>5. Stamp(g)
    BY <2>1, <2>2, <2>3, Zenon DEF Stamp
  <2>6. FrameOK(g)
    BY <1>1, <2>1, <2>2, <2>4, <2>5, Zenon DEF FrameOK
  <2> QED
    BY <1>1, <1>2, <1>4, <2>1, <2>2, <2>6, QuietStep, Zenon
<1> QED
  BY <1>3, <1>4, Zenon DEF Sign

\* Finding the address of the TSA.
LEMMA ResolveSteps ==
    ASSUME SignInv, NEW t \in Threads, ResolveTspUrl(t) \/ RememberTspUrl(t)
    PROVE  SignInv'
<1> DEFINE f == frame[t]
<1>1. FrameOK(f) /\ cert \in Found(key)
  BY Zenon DEF SignInv, FInv
<1>2. CASE ResolveTspUrl(t)
  <2> DEFINE u == IF f.conf # None THEN f.conf ELSE Default(f.cert)
             p == CASE f.op \in Formats -> "ready"
                    [] f.op = "SignFileAsicXades" -> "build"
                    [] OTHER -> "memo"
             g == [f EXCEPT !.url = u, !.pc = p]
  <2>1. UNCHANGED <<calls, offline, key, cert, file>> /\ f.pc = "resolve" /\ Goto(t, g)
    BY <1>2, Zenon DEF ResolveTspUrl, keyVars, setVars, At
  <2>2. \/ p = "ready" /\ f.op \in Formats
        \/ p = "build" /\ f.op = "SignFileAsicXades"
        \/ p = "memo" /\ f.op \notin Formats /\ f.op # "SignFileAsicXades"
    <3>1. CASE f.op \in Formats
      <4>1. f.op # "SignFileAsicXades"
        BY <3>1, Zenon DEF Formats
      <4> QED
        BY <3>1, <4>1, Zenon
    <3>2. CASE f.op = "SignFileAsicXades"
      <4>1. f.op \notin Formats
        BY <3>2, Zenon DEF Formats
      <4> QED
        BY <3>2, <4>1, Zenon
    <3>3. CASE f.op \notin Formats /\ f.op # "SignFileAsicXades"
      BY <3>3, Zenon
    <3> QED
      BY <3>1, <3>2, <3>3, Zenon
  <2> HIDE DEF u, p
  <2>3. /\ DOMAIN g = Fields /\ g.pc = p /\ g.op = f.op /\ g.mode = f.mode
        /\ g.call = f.call /\ g.online = f.online /\ g.alone = f.alone /\ g.sig = f.sig
        /\ g.key = f.key /\ g.cert = f.cert /\ g.offline = f.offline /\ g.ok = f.ok
    BY <1>1, Zenon DEF FrameOK, Fields
  <2> HIDE DEF g
  <2>4. Place(g)
    BY <1>1, <2>1, <2>2, <2>3, Zenon DEF FrameOK, Place, Snapshots
  <2>5. Stamp(g)
    BY <1>1, <2>1, <2>2, <2>3, Zenon DEF FrameOK, Stamp, Copied, Formats
  <2>6. FrameOK(g)
    BY <1>1, <2>2, <2>3, <2>4, <2>5, Zenon DEF FrameOK
  <2> QED
    BY <1>1, <2>1, <2>2, <2>3, <2>6, QuietStep, Zenon
<1>3. CASE RememberTspUrl(t)
  <2> DEFINE g == [f EXCEPT !.pc = "tsp"]
  <2>1. UNCHANGED <<calls, offline, key, cert, file>> /\ f.pc = "memo" /\ Goto(t, g)
    BY <1>3, Zenon DEF RememberTspUrl, keyVars, At
  <2>2. /\ g.pc = "tsp" /\ g.op = f.op /\ g.mode = f.mode /\ g.online = f.online
        /\ g.sig = f.sig /\ g.offline = f.offline /\ g.ok = f.ok
    BY <1>1, MovedFrame DEF FrameOK
  <2>3. Place(g) /\ Stamp(g)
    <3> HIDE DEF g
    <3> QED
      BY <1>1, <2>1, <2>2, Zenon DEF FrameOK, Place, Stamp, Copied
  <2> QED
    BY <2>1, <2>3, MoveStep, Zenon
<1> QED
  BY <1>2, <1>3, Zenon

\* With a token, without one, and the section that follows.
LEMMA StampSteps ==
    ASSUME SignInv, NEW t \in Threads, Stamped(t) \/ NotStamped(t) \/ ClearAfterSigning(t)
    PROVE  SignInv'
<1> DEFINE f == frame[t]
<1>1. FrameOK(f)
  BY Zenon DEF SignInv, FInv
<1>2. UNCHANGED <<calls, offline, key, cert, file>> /\ f.pc \in {"tsp", "clear"}
  BY Zenon DEF Stamped, NotStamped, ClearAfterSigning, keyVars, setVars, At
<1>3. f.op \in Callers
  BY <1>1, <1>2, Zenon DEF FrameOK, Place
<1>4. CASE Stamped(t)
  <2> DEFINE g == [f EXCEPT !.sig = [by |-> @.by, stamped |-> TRUE]]
  <2>1. Goto(t, Signed(g)) /\ ~f.offline /\ f.pc = "tsp" /\ lastError'.code = "None"
    BY <1>4, Zenon DEF Stamped, CanStamp, At, ClearError
  <2>2. /\ DOMAIN g = Fields /\ g.pc = f.pc /\ g.op = f.op /\ g.mode = f.mode
        /\ g.call = f.call /\ g.online = f.online /\ g.alone = f.alone
        /\ g.key = f.key /\ g.cert = f.cert /\ g.offline = f.offline /\ g.ok = f.ok
        /\ g.sig.stamped = TRUE
    BY <1>1, Zenon DEF FrameOK, Fields
  <2> HIDE DEF g
  <2>3. f.online = TRUE
    BY <1>1, <2>1, Zenon DEF FrameOK, Stamp, Copied
  <2>4. FrameOK(g)
    BY <1>1, <2>1, <2>2, <2>3, Zenon DEF FrameOK, Place, Stamp
  <2> QED
    BY <1>2, <1>3, <2>1, <2>2, <2>4, SignedStep, Zenon
<1>5. CASE NotStamped(t)
  <2>1. CASE SigningFails(t, "OnlineServiceUnavailable")
    BY <1>2, <2>1, SigningFailsStep, Zenon
  <2>2. ASSUME f.mode = "BestEffort", NEW h, NEW p,
               h = [f EXCEPT !.pc = p, !.failed = TRUE] \/ h = [f EXCEPT !.pc = p]
        PROVE  /\ DOMAIN h = Fields /\ h.pc = p /\ h.op = f.op /\ h.mode = "BestEffort"
               /\ h.call = f.call /\ h.online = f.online /\ h.alone = f.alone
               /\ h.sig = f.sig /\ h.key = f.key /\ h.cert = f.cert
               /\ h.offline = f.offline /\ h.ok = f.ok
    BY <1>1, <2>2, ZenonT(60) DEF FrameOK, Fields
  <2>3. ASSUME f.mode = "BestEffort", f.pc = "tsp", NEW h,
               h = [f EXCEPT !.pc = "clear", !.failed = TRUE] \/ h = [f EXCEPT !.pc = "clear"],
               Goto(t, h)
        PROVE  SignInv'
    <3>1. /\ DOMAIN h = Fields /\ h.pc = "clear" /\ h.op = f.op /\ h.mode = "BestEffort"
          /\ h.call = f.call /\ h.online = f.online /\ h.alone = f.alone
          /\ h.sig = f.sig /\ h.key = f.key /\ h.cert = f.cert
          /\ h.offline = f.offline /\ h.ok = f.ok
      BY <2>2, <2>3, Zenon
    <3>2. FrameOK(h)
      BY <1>1, <1>3, <2>3, <3>1, Zenon DEF FrameOK, Place, Stamp, Copied
    <3> QED
      BY <1>2, <2>3, <3>1, <3>2, QuietStep, Zenon DEF SignInv
  <2>4. CASE /\ f.mode = "BestEffort" /\ Goto(t, Signed([f EXCEPT !.failed = TRUE]))
             /\ ClearError
    <3> DEFINE h == [f EXCEPT !.failed = TRUE]
    <3>1. /\ DOMAIN h = Fields /\ h.pc = f.pc /\ h.op = f.op /\ h.mode = "BestEffort"
          /\ h.call = f.call /\ h.online = f.online /\ h.alone = f.alone
          /\ h.sig = f.sig /\ h.key = f.key /\ h.cert = f.cert
          /\ h.offline = f.offline /\ h.ok = f.ok
      BY <1>1, <2>4, Zenon DEF FrameOK, Fields
    <3> HIDE DEF h
    <3>2. FrameOK(h)
      BY <1>1, <1>2, <2>4, <3>1, Zenon DEF FrameOK, Place, Stamp, Copied
    <3> QED
      BY <1>2, <1>3, <2>4, <3>1, <3>2, SignedStep, Zenon DEF h, ClearError
  <2> QED
    BY <1>5, <2>1, <2>3, <2>4, Zenon DEF NotStamped, At
<1>6. CASE ClearAfterSigning(t)
  <2>1. Goto(t, Signed(f)) /\ f.pc = "clear" /\ lastError'.code = "None"
    BY <1>6, Zenon DEF ClearAfterSigning, At, ClearError
  <2>2. f.mode # "Required"
    BY <1>1, <2>1, Zenon DEF FrameOK, Place
  <2> QED
    BY <1>1, <1>2, <1>3, <2>1, <2>2, SignedStep, Zenon
<1> QED
  BY <1>4, <1>5, <1>6, Zenon

\* The Base64 operations, which do without a time stamp if need be.
LEMMA Base64WrapStep ==
    ASSUME SignInv, NEW t \in Threads, Base64Wrap(t)
    PROVE  SignInv'
<1>1. FrameOK(frame[t])
  BY Zenon DEF SignInv, FInv
<1>2. /\ UNCHANGED <<calls, offline, key, cert, file>> /\ frame[t].pc = "wrap"
      /\ Goto(t, Done(frame[t], TRUE)) /\ lastError'.code = "None"
  BY Zenon DEF Base64Wrap, keyVars, setVars, At, ClearError
<1>3. frame[t].mode = "BestEffort" /\ frame[t].op # "SignFileAsicXades"
  BY <1>1, <1>2, Zenon DEF FrameOK, Place, BestOnly, Base64
<1> QED
  BY <1>1, <1>2, <1>3, SucceedStep, Zenon

-----------------------------------------------------------------------------
(* XAdES, PAdES, containers and files. *)

\* A certificate found in the container is one of the key beside it.
LEMMA ExtractStep ==
    ASSUME SignInv, NEW t \in Threads, ExtractCertificate(t)
    PROVE  SignInv'
<1> DEFINE f == frame[t]
           p == CASE f.op = "SignFileAsicXades" -> "input"
                  [] f.op # "SignFileAsicXades" /\ f.mode = "Required" -> "resolve"
                  [] OTHER -> "build"
<1>1. FrameOK(f) /\ cert \in Found(key)
  BY Zenon DEF SignInv, FInv
<1>2. UNCHANGED <<calls, offline, key, cert, file>> /\ f.pc = "extract"
  BY Zenon DEF ExtractCertificate, keyVars, setVars, At
<1>3. PICK c \in IF f.cert = None THEN {None, f.key} ELSE {f.cert} :
        Goto(t, [f EXCEPT !.cert = c, !.pc = p])
  BY Zenon DEF ExtractCertificate
<1>4. \/ p = "input" /\ f.op = "SignFileAsicXades"
      \/ p = "resolve"
      \/ p = "build" /\ ~(f.op # "SignFileAsicXades" /\ f.mode = "Required")
  BY Zenon
<1> HIDE DEF p
<1> DEFINE g == [f EXCEPT !.cert = c, !.pc = p]
<1>5. /\ DOMAIN g = Fields /\ g.pc = p /\ g.op = f.op /\ g.mode = f.mode
      /\ g.call = f.call /\ g.online = f.online /\ g.alone = f.alone /\ g.sig = f.sig
      /\ g.key = f.key /\ g.cert = c /\ g.offline = f.offline /\ g.ok = f.ok
  BY <1>1, Zenon DEF FrameOK, Fields
<1>6. Goto(t, g) /\ c \in Found(f.key)
  BY <1>1, <1>3, NoneFound, Zenon DEF FrameOK
<1> HIDE DEF g
<1>7. f.op \in Snapshots /\ "SignFileAsicXades" \notin Formats
  BY <1>1, <1>2, Zenon DEF FrameOK, Place, Formats
<1>8. Place(g)
  BY <1>1, <1>2, <1>4, <1>5, <1>7, Zenon DEF FrameOK, Place
<1>9. Stamp(g)
  BY <1>1, <1>2, <1>4, <1>5, <1>7, Zenon DEF FrameOK, Stamp, Copied
<1>10. FrameOK(g)
  BY <1>1, <1>4, <1>5, <1>6, <1>8, <1>9, Zenon DEF FrameOK
<1> QED
  BY <1>1, <1>2, <1>4, <1>5, <1>6, <1>10, QuietStep, Zenon

\* A profile with a time stamp is built only by a call that may ask.
LEMMA FormatSteps ==
    ASSUME SignInv, NEW t \in Threads, PrepareFormat(t) \/ BuildFormat(t)
    PROVE  SignInv'
<1> DEFINE f == frame[t]
<1>1. FrameOK(f)
  BY Zenon DEF SignInv, FInv
<1>2. UNCHANGED <<calls, offline, key, cert, file>> /\ f.pc \in {"ready", "build"}
  BY Zenon DEF PrepareFormat, BuildFormat, keyVars, setVars, At
<1>3. /\ f.op \in Formats /\ f.op \in Snapshots
      /\ f.op \notin {"RawSignFile", "SignFileAsicXades"}
  BY <1>1, Zenon DEF PrepareFormat, BuildFormat, At, FrameOK, Place, Formats, Snapshots
<1>4. ASSUME NEW code, code # "None", Fail(t, code)
      PROVE  SignInv'
  BY <1>2, <1>3, <1>4, FailStep, Zenon
<1>5. CASE PrepareFormat(t) /\ CanStamp(f) /\ Goto(t, [f EXCEPT !.pc = "build"])
  <2> DEFINE g == [f EXCEPT !.pc = "build"]
  <2>1. /\ g.pc = "build" /\ g.op = f.op /\ g.mode = f.mode /\ g.online = f.online
        /\ g.sig = f.sig /\ g.offline = f.offline /\ g.ok = f.ok
    BY <1>1, MovedFrame DEF FrameOK
  <2>2. f.offline = FALSE /\ f.pc = "ready"
    BY <1>1, <1>5, Zenon DEF CanStamp, FrameOK, PrepareFormat, At
  <2>3. Place(g) /\ Stamp(g)
    <3> HIDE DEF g
    <3> QED
      BY <1>1, <1>3, <2>1, <2>2, Zenon DEF FrameOK, Place, Stamp, Copied
  <2> QED
    BY <1>2, <1>5, <2>3, MoveStep, Zenon
<1>6. CASE BuildFormat(t) /\ ~Fail(t, "InternalError")
  <2> DEFINE st == f.mode = "Required"
             g == [f EXCEPT !.sig = [by |-> f.key, stamped |-> st]]
  <2>1. Goto(t, Done(g, TRUE)) /\ f.pc = "build" /\ lastError'.code = "None"
    <3>1. Goto(t, Done(g, TRUE)) /\ f.pc = "build" /\ ClearError
      BY <1>6, Zenon DEF BuildFormat, At
    <3> QED
      BY <3>1, Zenon DEF ClearError
  <2>2. st \in BOOLEAN /\ (st = TRUE <=> f.mode = "Required")
    BY Zenon
  <2> HIDE DEF st
  <2>3. /\ DOMAIN g = Fields /\ g.pc = f.pc /\ g.op = f.op /\ g.mode = f.mode
        /\ g.call = f.call /\ g.online = f.online /\ g.alone = f.alone
        /\ g.key = f.key /\ g.cert = f.cert /\ g.offline = f.offline /\ g.ok = f.ok
        /\ g.sig.stamped = st
    BY <1>1, Zenon DEF FrameOK, Fields
  <2> HIDE DEF g
  <2>4. f.mode = "Required" => f.online = TRUE
    BY <1>1, <1>3, <2>1, Zenon DEF FrameOK, Stamp, Copied
  <2>5. Place(g)
    BY <1>1, <2>1, <2>3, Zenon DEF FrameOK, Place
  <2>6. Stamp(g)
    BY <1>1, <2>1, <2>2, <2>3, <2>4, Zenon DEF FrameOK, Stamp, Copied
  <2>7. FrameOK(g)
    BY <1>1, <2>1, <2>2, <2>3, <2>5, <2>6, Zenon DEF FrameOK
  <2> QED
    BY <1>2, <1>3, <2>1, <2>2, <2>3, <2>7, SucceedStep, Zenon
<1> QED
  BY <1>4, <1>5, <1>6, Zenon DEF PrepareFormat

\* An ASiC XAdES signature is stamped only by a call that may ask.
LEMMA BuildXadesStep ==
    ASSUME SignInv, NEW t \in Threads, BuildXades(t)
    PROVE  SignInv'
<1> DEFINE f == frame[t]
<1>1. FrameOK(f) /\ cert \in Found(key)
  BY Zenon DEF SignInv, FInv
<1>2. /\ UNCHANGED <<calls, offline, key, cert, file>>
      /\ f.pc = "build" /\ f.op = "SignFileAsicXades"
  BY Zenon DEF BuildXades, keyVars, setVars, At
<1>3. CASE Fail(t, "InternalError")
  BY <1>2, <1>3, FailStep, Zenon
<1>4. CASE \E stamped \in {TRUE, FALSE} :
             /\ stamped => CanStamp(f)
             /\ Goto(t, [f EXCEPT !.pc = "pack",
                          !.sig = [by |-> f.key, stamped |-> stamped],
                          !.failed = ~stamped /\ CanStamp(f)])
  <2>1. PICK stamped \in {TRUE, FALSE} :
             /\ stamped => CanStamp(f)
             /\ Goto(t, [f EXCEPT !.pc = "pack",
                          !.sig = [by |-> f.key, stamped |-> stamped],
                          !.failed = ~stamped /\ CanStamp(f)])
    BY <1>4, Zenon
  <2> DEFINE vain == ~stamped /\ CanStamp(f)
             g == [f EXCEPT !.pc = "pack", !.sig = [by |-> f.key, stamped |-> stamped],
                            !.failed = vain]
  <2>2. Goto(t, g) /\ (stamped = TRUE => f.offline = FALSE)
    BY <1>1, <2>1, Zenon DEF CanStamp, FrameOK
  <2> HIDE DEF vain
  <2>3. /\ DOMAIN g = Fields /\ g.pc = "pack" /\ g.op = f.op /\ g.mode = f.mode
        /\ g.call = f.call /\ g.online = f.online /\ g.alone = f.alone
        /\ g.key = f.key /\ g.cert = f.cert /\ g.offline = f.offline /\ g.ok = f.ok
        /\ g.sig.stamped = stamped
    BY <1>1, Zenon DEF FrameOK, Fields
  <2> HIDE DEF g
  <2>4. Place(g)
    BY <1>1, <1>2, <2>3, Zenon DEF FrameOK, Place, BestOnly
  <2>5. Stamp(g)
    BY <1>1, <1>2, <2>2, <2>3, Zenon DEF FrameOK, Stamp, Copied, Snapshots
  <2>6. FrameOK(g)
    BY <1>1, <2>1, <2>3, <2>4, <2>5, Zenon DEF FrameOK
  <2> QED
    BY <1>1, <1>2, <2>2, <2>3, <2>6, QuietStep, Zenon
<1> QED
  BY <1>3, <1>4, Zenon DEF BuildXades

\* Containers are packed by operations that never require a time stamp.
LEMMA ContainerSteps ==
    ASSUME SignInv, NEW t \in Threads, CaptureError(t) \/ Pack(t)
    PROVE  SignInv'
<1> DEFINE f == frame[t]
<1>1. FrameOK(f) /\ cert \in Found(key)
  BY Zenon DEF SignInv, FInv
<1>2. UNCHANGED <<calls, offline, key, cert, file>> /\ f.pc \in {"capture", "pack"}
  BY Zenon DEF CaptureError, Pack, keyVars, setVars, At
<1>3. f.op \in BestOnly /\ f.op # "RawSignFile"
  BY <1>1, <1>2, Zenon DEF FrameOK, Place, BestOnly, Base64, Cades
<1>4. ASSUME NEW g, Goto(t, g),
             \/ g = [f EXCEPT !.pc = "pack", !.saved = lastError.code]
             \/ g = [f EXCEPT !.pc = "exists"]
      PROVE  SignInv'
  <2>1. /\ DOMAIN g = Fields /\ g.pc \in {"pack", "exists"} /\ g.op = f.op /\ g.mode = f.mode
        /\ g.call = f.call /\ g.online = f.online /\ g.alone = f.alone /\ g.sig = f.sig
        /\ g.key = f.key /\ g.cert = f.cert /\ g.offline = f.offline /\ g.ok = f.ok
    BY <1>1, <1>4, ZenonT(60) DEF FrameOK, Fields
  <2>2. Place(g)
    BY <1>1, <1>3, <2>1, Zenon DEF FrameOK, Place
  <2>3. Stamp(g)
    BY <1>1, <1>2, <2>1, Zenon DEF FrameOK, Stamp, Copied
  <2>4. FrameOK(g)
    BY <1>1, <2>1, <2>2, <2>3, Zenon DEF FrameOK
  <2> QED
    BY <1>1, <1>2, <1>4, <2>1, <2>4, QuietStep, Zenon
<1>5. CASE Fail(t, "InternalError")
  BY <1>2, <1>5, FailStep, Zenon
<1> QED
  BY <1>4, <1>5, Zenon DEF CaptureError, Pack

\* An existing file is refused or noted before anything is written.
LEMMA CheckOutputStep ==
    ASSUME SignInv, NEW t \in Threads, CheckOutput(t)
    PROVE  SignInv'
<1> DEFINE f == frame[t]
           exists == file.state # "absent"
           p == IF f.op = "RawSignFile" THEN "input" ELSE "write"
           g == [f EXCEPT !.existed = exists, !.pc = p]
<1>1. FrameOK(f) /\ cert \in Found(key)
  BY Zenon DEF SignInv, FInv
<1>2. /\ UNCHANGED <<calls, offline, key, cert, file>> /\ f.pc = "exists"
      /\ Fail(t, "InvalidArgument") \/ Goto(t, g)
  BY Zenon DEF CheckOutput, keyVars, setVars, At
<1>3. f.op \in BestOnly \cup {"RawSignFile"} /\ "RawSignFile" \in Callers
  BY <1>1, <1>2, Zenon DEF FrameOK, Place, Callers
<1>4. CASE Fail(t, "InvalidArgument")
  <2>1. f.op # "RawSignFile" \/ f.existed = FALSE
    BY <1>1, <1>2, Zenon DEF FrameOK, Place
  <2> QED
    BY <1>2, <1>4, <2>1, FailStep, Zenon
<1>5. CASE Goto(t, g)
  <2>1. \/ p = "input" /\ f.op = "RawSignFile"
        \/ p = "write" /\ f.op # "RawSignFile"
    BY Zenon
  <2> HIDE DEF p, exists
  <2>2. /\ DOMAIN g = Fields /\ g.pc = p /\ g.op = f.op /\ g.mode = f.mode
        /\ g.call = f.call /\ g.online = f.online /\ g.alone = f.alone /\ g.sig = f.sig
        /\ g.key = f.key /\ g.cert = f.cert /\ g.offline = f.offline /\ g.ok = f.ok
    BY <1>1, Zenon DEF FrameOK, Fields
  <2> HIDE DEF g
  <2>3. Place(g)
    BY <1>1, <1>3, <2>1, <2>2, Zenon DEF FrameOK, Place
  <2>4. f.op # "RawSignFile" => f.mode = "BestEffort"
    BY <1>1, <1>3, Zenon DEF FrameOK, Place
  <2>5. Stamp(g)
    BY <1>1, <1>2, <2>1, <2>2, <2>4, Zenon DEF FrameOK, Stamp, Copied
  <2>6. FrameOK(g)
    BY <1>1, <2>1, <2>2, <2>3, <2>5, Zenon DEF FrameOK
  <2> QED
    BY <1>1, <1>2, <1>5, <2>1, <2>2, <2>6, QuietStep, Zenon
<1> QED
  BY <1>2, <1>4, <1>5, Zenon

\* The file becomes the call's own, or stays what it was.
LEMMA WriteSteps ==
    ASSUME SignInv, NEW t \in Threads, Write(t) \/ WriteFails(t)
    PROVE  SignInv'
<1> DEFINE f == frame[t]
<1>1. FrameOK(f) /\ cert \in Found(key)
  BY Zenon DEF SignInv, FInv
<1>2. UNCHANGED <<calls, offline, key, cert>> /\ f.pc = "write"
  BY Zenon DEF Write, WriteFails, keyVars, setVars, At
<1>3. CASE Write(t)
  <2> DEFINE g == [f EXCEPT !.pc = "finish"]
  <2>1. Goto(t, g) /\ file'.call = f.call /\ file'.stamped = f.sig.stamped
    BY <1>3, Zenon DEF Write
  <2>2. /\ DOMAIN g = Fields /\ g.pc = "finish" /\ g.op = f.op /\ g.mode = f.mode
        /\ g.call = f.call /\ g.online = f.online /\ g.alone = f.alone /\ g.sig = f.sig
        /\ g.key = f.key /\ g.cert = f.cert /\ g.offline = f.offline /\ g.ok = f.ok
    BY <1>1, MovedFrame DEF FrameOK
  <2> HIDE DEF g
  <2>3. FrameOK(g)
    BY <1>1, <1>2, <2>2, Zenon DEF FrameOK, Place, Stamp, Copied
  <2>4. FileInv(g, file') /\ StaleInv(g, file', lastError') /\ ErrorInv(g, lastError')
    BY <2>1, <2>2, Zenon DEF FileInv, StaleInv, ErrorInv
  <2> QED
    BY <1>1, <1>2, <2>1, <2>2, <2>3, <2>4, LocalStep, Zenon DEF At
<1>4. CASE WriteFails(t)
  BY <1>2, <1>4, FailStep, ZenonT(60) DEF WriteFails
<1> QED
  BY <1>3, <1>4, Zenon

\* RawSignFile empties a stale file; a call that wrote its file succeeds.
LEMMA EndSteps ==
    ASSUME SignInv, NEW t \in Threads, ClearStaleOutput(t) \/ Finish(t)
    PROVE  SignInv'
<1> DEFINE f == frame[t]
<1>1. /\ FrameOK(f) /\ FileInv(f, file) /\ ErrorInv(f, lastError)
      /\ cert \in Found(key)
  BY Zenon DEF SignInv, FInv
<1>2. UNCHANGED <<calls, offline, key, cert>> /\ f.pc \in {"trunc", "finish"}
  BY ZenonT(60) DEF ClearStaleOutput, Finish, keyVars, setVars, At
<1>3. CASE ClearStaleOutput(t)
  <2> DEFINE g == Done(f, FALSE)
             h == [g EXCEPT !.kept = Stale(f)]
  <2>1. f.pc = "trunc" /\ lastError' = lastError
    BY <1>3, Zenon DEF ClearStaleOutput, At
  <2>2. \/ Stale(f) /\ Goto(t, g) /\ file'.call = 0 /\ file'.state = "empty"
        \/ Goto(t, h) /\ file' = file
    <3>1. CASE /\ Stale(f)
               /\ file' = [state |-> "empty", call |-> 0, stamped |-> FALSE]
               /\ Goto(t, g)
      BY <3>1, Zenon
    <3>2. CASE /\ file' = file
               /\ Goto(t, [Done(frame[t], FALSE) EXCEPT !.kept = Stale(frame[t])])
      BY <3>2, Zenon
    <3> HIDE DEF h
    <3> QED
      BY <1>3, <3>1, <3>2, Zenon DEF ClearStaleOutput
  <2>3. /\ g.pc = "done" /\ g.call = f.call /\ g.online = f.online /\ g.mode = f.mode
        /\ g.alone = f.alone /\ g.op = f.op /\ g.existed = f.existed /\ g.ok = FALSE
    BY DoneFrame, Zenon
  <2>4. FrameOK(g)
    BY <1>1, <2>1, FailedFrame, Zenon
  <2>5. /\ DOMAIN h = Fields /\ h.pc = g.pc /\ h.op = g.op /\ h.mode = g.mode /\ h.call = g.call
        /\ h.online = g.online /\ h.alone = g.alone /\ h.sig = g.sig /\ h.key = g.key
        /\ h.cert = g.cert /\ h.offline = g.offline /\ h.ok = g.ok /\ h.existed = g.existed
        /\ h.kept = Stale(f)
    BY <2>4, Zenon DEF FrameOK, Fields
  <2> HIDE DEF g, h
  <2>6. Place(h) /\ Stamp(h)
    <3>1. Place(h)
      BY <2>4, <2>5, Zenon DEF FrameOK, Place
    <3> QED
      BY <2>4, <2>5, <3>1, Zenon DEF FrameOK, Stamp, Copied
  <2>7. FrameOK(h)
    BY <2>4, <2>5, <2>6, Zenon DEF FrameOK
  <2>8. CASE Stale(f) /\ Goto(t, g) /\ file'.call = 0 /\ file'.state = "empty"
    <3>1. FileInv(g, file') /\ StaleInv(g, file', lastError') /\ ErrorInv(g, lastError')
      BY <1>1, <2>1, <2>3, <2>8, Zenon DEF FileInv, StaleInv, ErrorInv
    <3> QED
      BY <1>1, <1>2, <2>1, <2>3, <2>4, <2>8, <3>1, LocalStep, Zenon DEF At
  <2>9. CASE Goto(t, h) /\ file' = file
    <3>1. FileInv(h, file') /\ StaleInv(h, file', lastError') /\ ErrorInv(h, lastError')
      BY <1>1, <2>1, <2>3, <2>5, <2>9, Zenon DEF Stale, FileInv, StaleInv, ErrorInv
    <3> QED
      BY <1>1, <1>2, <2>1, <2>3, <2>5, <2>7, <2>9, <3>1, LocalStep, Zenon DEF At
  <2> QED
    BY <2>2, <2>8, <2>9, Zenon
<1>4. CASE Finish(t)
  <2> DEFINE g == Done(f, TRUE)
  <2>1. Goto(t, g) /\ f.pc = "finish" /\ file' = file
    BY <1>4, Zenon DEF Finish, At
  <2>2. /\ g.pc = "done" /\ g.ok = TRUE /\ g.call = f.call /\ g.online = f.online
        /\ g.alone = f.alone /\ g.sig = f.sig /\ g.op = f.op /\ g.failed = f.failed
    BY DoneFrame, ZenonT(60)
  <2>3. FrameOK(g)
    BY <1>1, <2>1, SucceededFrame, Zenon DEF FrameOK, Stamp
  <2> HIDE DEF g
  <2>4. FileInv(g, file') /\ StaleInv(g, file', lastError')
    BY <1>1, <2>1, <2>2, Zenon DEF FileInv, StaleInv
  <2>5. ErrorInv(g, lastError')
    BY <1>4, <2>2 DEF Finish, ErrorInv, SetError, ClearError
  <2> QED
    BY <1>1, <1>2, <2>1, <2>2, <2>3, <2>4, <2>5, LocalStep, Zenon DEF At
<1> QED
  BY <1>3, <1>4, Zenon

\* An idle frame is in order, whatever the file and the error.
LEMMA IdleFrame ==
    /\ FrameOK(Idle) /\ Idle.pc = "idle" /\ Idle.call = 0 /\ Idle.alone = FALSE
    /\ \A out, error : FileInv(Idle, out) /\ StaleInv(Idle, out, error) /\ ErrorInv(Idle, error)
<1> DEFINE f == Idle
<1>1. /\ DOMAIN f = Fields /\ f.pc = "idle" /\ f.op = "" /\ f.mode = "Disabled" /\ f.call = 0
      /\ f.key = None /\ f.cert = None /\ f.offline = FALSE /\ f.sig = NoSig /\ f.ok = FALSE
      /\ f.alone = FALSE /\ f.online = FALSE /\ NoSig.stamped = FALSE
  BY Zenon DEF Idle, Fields, NoSig
<1> HIDE DEF f
<1>2. Place(f)
  BY <1>1, Zenon DEF Place, BestOnly, Base64, Cades
<1>3. Stamp(f)
  BY <1>1, Zenon DEF Stamp, Copied, Snapshots, Formats
<1>4. FrameOK(f)
  BY <1>1, <1>2, <1>3, NoneFound, Zenon DEF FrameOK
<1>5. \A out, error : FileInv(f, out) /\ StaleInv(f, out, error) /\ ErrorInv(f, error)
  BY <1>1, Zenon DEF FileInv, StaleInv, ErrorInv
<1> QED
  BY <1>1, <1>4, <1>5, ZenonT(60) DEF f

\* The call is over.
LEMMA ReturnStep ==
    ASSUME SignInv, NEW t \in Threads, Return(t)
    PROVE  SignInv'
<1>1. UNCHANGED <<calls, offline, key, cert, file, lastError>>
  BY Zenon DEF Return, keyVars, setVars
<1>2. /\ DOMAIN frame' = Threads /\ frame'[t] = Idle
      /\ \A u \in Threads \ {t} : frame'[u] = frame[u]
  BY Zenon DEF Return, Goto, SignInv
<1>3. ASSUME NEW u \in Threads
      PROVE  FInv(u)'
  <2>1. CASE u = t
    BY <1>1, <1>2, <2>1, IdleFrame, Zenon DEF FInv
  <2>2. CASE u # t
    BY <1>1, <1>2, <2>2, Zenon DEF SignInv, FInv
  <2> QED
    BY <2>1, <2>2, Zenon
<1>4. ASSUME NEW u \in Threads, NEW v \in Threads \ {u}
      PROVE  Apart(u, v)'
  <2>1. Apart(u, v) /\ frame'[u].call \in {0, frame[u].call}
    BY <1>2, IdleFrame, Zenon DEF SignInv
  <2>2. /\ frame'[u].alone = TRUE => frame[u].alone = TRUE
        /\ frame[v].pc = "idle" => frame'[v].pc = "idle"
        /\ frame'[v].call \in {0, frame[v].call}
    BY <1>2, IdleFrame, Zenon
  <2> QED
    BY <2>1, <2>2, Zenon DEF Apart
<1> QED
  BY <1>1, <1>2, <1>3, <1>4, Zenon DEF SignInv

-----------------------------------------------------------------------------
(* The invariant and what follows from it. *)

\* The invariant holds at first,
LEMMA SignInvInit == Init => SignInv
<1> SUFFICES ASSUME Init PROVE SignInv
  BY Zenon
<1>1. DOMAIN frame = Threads /\ \A t \in Threads : frame[t] = Idle
  BY Zenon DEF Init
<1>2. file.call = 0 /\ calls = 0 /\ offline \in BOOLEAN /\ cert \in Found(key)
  BY DEF Init
<1>3. \A t \in Threads : FInv(t)
  BY <1>1, IdleFrame, Zenon DEF FInv
<1>4. \A t \in Threads : \A u \in Threads \ {t} : Apart(t, u)
  BY <1>1, IdleFrame, Zenon DEF Apart
<1> QED
  BY <1>1, <1>2, <1>3, <1>4 DEF SignInv

\* is kept by every step,
LEMMA SignInvNext == SignInv /\ [Next]_vars => SignInv'
<1> SUFFICES ASSUME SignInv, [Next]_vars PROVE SignInv'
  BY Zenon
<1>1. ASSUME NEW t \in Threads, Call(t)
      PROVE  SignInv'
  BY <1>1, SettingsSteps, SyncStartStep, ReadPrivateKeyStep, StartUncheckedStep,
     StartCheckedStep, SignXmlPlainStep, Zenon DEF Call
<1>2. ASSUME NEW t \in Threads, LoadKey(t)
      PROVE  SignInv'
  BY <1>2, LoadSteps, Zenon DEF LoadKey
<1>3. ASSUME NEW t \in Threads, SignOn(t)
      PROVE  SignInv'
  BY <1>3, ReadInputStep, SignStep, ResolveSteps, StampSteps, Base64WrapStep, ExtractStep,
     FormatSteps, BuildXadesStep, ContainerSteps, CheckOutputStep, WriteSteps, EndSteps,
     Zenon DEF SignOn
<1>4. ASSUME NEW t \in Threads, SyncRun(t) \/ SyncCommit(t) \/ Return(t)
      PROVE  SignInv'
  BY <1>4, SyncSteps, ReturnStep, Zenon
<1>5. CASE UNCHANGED vars
  BY <1>5, Zenon DEF vars, SignInv, FInv, Apart
<1> QED
  BY <1>1, <1>2, <1>3, <1>4, <1>5, Zenon DEF Next

\* and so always holds.
LEMMA SignInvInvariant == Spec => []SignInv
BY SignInvInit, SignInvNext, PTL DEF Spec

\* However many threads share the session, and whatever settings calls and key
\* loads come between the sections of a signing call: a call that required a
\* time stamp and succeeded has one, in memory and in the file it wrote, and a
\* call during which the session was never online has none (SignData,
\* SignDataInternal, RawSignFile, SignXml, SignPdf and the ASiC operations).
THEOREM TimeStampsAsAsked == Spec => []StampedAsAsked
<1>1. SignInv => StampedAsAsked
  <2> SUFFICES ASSUME SignInv, NEW t \in Threads
               PROVE  /\ Returning(t, TRUE) /\ frame[t].mode = "Required" =>
                            /\ frame[t].sig.stamped
                            /\ file.call = frame[t].call => file.stamped
                      /\ ~frame[t].online => ~frame[t].sig.stamped
    BY Zenon DEF StampedAsAsked, RequiredIsStamped, OfflineNeverStamps
  <2>1. /\ FrameOK(frame[t]) /\ FileInv(frame[t], file)
        /\ frame[t].pc # "idle" => frame[t].call # 0
    BY DEF SignInv, FInv
  <2> QED
    BY <2>1, Zenon DEF Returning, At, FrameOK, Stamp, FileInv
<1> QED
  BY <1>1, SignInvInvariant, PTL

\* A signing call that returns false hands out no signature and has not written
\* the output file; and RawSignFile with a required time stamp has emptied the
\* older signature it found there, unless another call came in between, the
\* write itself failed or the file could not be opened to be emptied.
THEOREM FailuresLeaveNothing == Spec => []FailureLeavesNothing
<1>1. SignInv => FailureLeavesNothing
  <2> SUFFICES ASSUME SignInv, NEW t \in Threads, Returning(t, FALSE)
               PROVE  /\ frame[t].sig = NoSig /\ file.call # frame[t].call
                      /\ frame[t].alone /\ frame[t].op = "RawSignFile"
                         /\ frame[t].mode = "Required" /\ frame[t].existed /\ file.call = 0
                         /\ lastError.code # "InternalError" /\ ~frame[t].kept
                           => file.state # "signed"
    BY Zenon DEF FailureLeavesNothing, FailureDeliversNothing, StaleSignatureCleared
  <2>1. /\ FrameOK(frame[t]) /\ FileInv(frame[t], file)
        /\ StaleInv(frame[t], file, lastError)
        /\ frame[t].pc # "idle" => frame[t].call # 0
    BY DEF SignInv, FInv
  <2>2. frame[t].pc = "done" /\ frame[t].ok = FALSE
    BY Zenon DEF Returning, At
  <2>3. frame[t].sig = NoSig /\ file.call # frame[t].call
    BY <2>1, <2>2, Zenon DEF FrameOK, FileInv
  <2> QED
    BY <2>1, <2>2, <2>3, Zenon DEF StaleInv
<1> QED
  BY <1>1, SignInvInvariant, PTL

\* The certificate beside a key, in the session (CommitLoadedKey,
\* SecureClearLoadedKey) or in the copy a call works on, is one that loading this
\* key found, in its container or through the resolver, even when another thread
\* loads or forgets a key during the call.
THEOREM CertificatesFitKeys == Spec => []CertificateOfKey
<1>1. SignInv => CertificateOfKey
  BY Zenon DEF SignInv, FInv, FrameOK, CertificateOfKey
<1> QED
  BY <1>1, SignInvInvariant, PTL

\* A call that ran alone leaves the session's error about itself: a failed one
\* its own code, a successful one none, or that the time stamp it did without
\* was not to be had (SetError, ClearError and the error SignFileAsicCades and
\* SignFileAsicXades carry over their last section).
THEOREM ErrorsAreOfCalls == Spec => []ErrorIsOfCall
<1>1. SignInv => ErrorIsOfCall
  <2> SUFFICES ASSUME SignInv, NEW t \in Threads, frame[t].alone = TRUE, frame[t].pc = "done"
               PROVE  /\ IF frame[t].ok
                         THEN lastError.code # "None" =>
                                /\ frame[t].op \in Cades \cup {"SignFileAsicXades"}
                                /\ lastError = [code |-> "OnlineServiceUnavailable",
                                                by |-> frame[t].call]
                         ELSE lastError.code # "None" /\ lastError.by = frame[t].call
                      /\ frame[t].ok = TRUE /\ frame[t].op = "SignFileAsicXades"
                         /\ frame[t].failed => lastError.code = "OnlineServiceUnavailable"
    BY ZenonT(60) DEF ErrorIsOfCall, ErrorSpeaksOfCall, XadesDowngradeReported, Returning, At
  <2>1. ErrorInv(frame[t], lastError) /\ frame[t].ok \in BOOLEAN
    BY Zenon DEF SignInv, FInv, FrameOK
  <2> QED
    BY <2>1, Zenon DEF ErrorInv
<1> QED
  BY <1>1, SignInvInvariant, PTL
=============================================================================
