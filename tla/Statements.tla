----------------------------- MODULE Statements -----------------------------
(***************************************************************************)
(* The statements of which the modules SafetyCode, IngestCode, EventCode,  *)
(* ModelCode and TradingCode build the functions of the program.           *)
(*                                                                         *)
(* A function is the sequence of what it does to the database: it opens    *)
(* and closes handles, executes SQL, calls functions, branches, loops,     *)
(* catches and returns. What it computes in between is left out, and so    *)
(* are the branches and loops that only compute and the requests to other  *)
(* hosts whose failure it catches. A condition that is not about an answer *)
(* of a called function is left open (Maybe, Either, Each). Statements     *)
(* that follow each other on one handle are one statement, and so is a     *)
(* BEGIN .. COMMIT pair with no call between; calls of one function that   *)
(* follow each other count once. A short function that only reads or only  *)
(* writes on its caller's handle is part of its callers.                   *)
(***************************************************************************)
EXTENDS Integers, Sequences

(* on is the variable that holds the handle: a function has at most two.   *)
Statement(op, arg, body, other) ==
  [op |-> op, arg |-> arg, on |-> "con", body |-> body, other |-> other]

Plain(op, arg) == Statement(op, arg, <<>>, <<>>)

(* The same on the second handle of the function.                          *)
On2(i) == [i EXCEPT !.on = "con2"]

Connect == Plain("connect", "rw")             \* con = connect()
ConnectRo == Plain("connect", "ro")           \* con = connect(readonly=True)
Close == Plain("close", "")                   \* con.close(), if it opened con

(* One or more SELECTs; INSERTs, UPDATEs, DELETEs or DDL; con.commit(),    *)
(* which does nothing on a handle in autocommit mode, but raises when it   *)
(* is closed.                                                              *)
Read(tables) == Plain("read", tables)
Write(tables) == Plain("write", tables)
Commit == Plain("commit", "")

(* A request to another host, which may fail.                              *)
Fetch == Plain("fetch", "")

(* f(...), and f(con, ...) on the caller's handle.                         *)
Call(f) == Plain("call", f)
CallOn(f) == Plain("callon", f)

(* A call that always raises: f does not take these arguments (TypeError), *)
(* or the name or the module it needs does not exist.                      *)
Mismatch(f) == Plain("raise", f)
Raise == Plain("raise", "")

Answer(b) == Plain("answer", b)
Return == Plain("return", "")
Break == Plain("break", "")
Continue == Plain("continue", "")

Maybe(body) == Statement("either", "", body, <<>>)
Either(body, other) == Statement("either", "", body, other)
IfOk(body) == Statement("if", "", body, <<>>)
IfBad(body) == Statement("if", "", <<>>, body)
Each(body) == Statement("each", "", body, <<>>)       \* for, or while
Forever(body) == Statement("forever", "", body, <<>>)  \* while True
UnlessGiven(body) == Statement("ungiven", "", body, <<>>)  \* if con is None

(* try .. except .. and try .. finally ..                                  *)
Catch(body, handler) == Statement("try", "", body, handler)
Try(body) == Catch(body, <<>>)
Finally(body, last) == Statement("finally", "", body, last)

(* con = connect(); try: body; finally: con.close(), and the same for a    *)
(* function that takes a handle from its caller or opens one.              *)
Session(body) == <<Connect, Finally(body, <<Close>>)>>
SessionRo(body) == <<ConnectRo, Finally(body, <<Close>>)>>
SessionRo2(body) == <<On2(ConnectRo), Finally(body, <<On2(Close)>>)>>
SessionUnlessGiven(body) ==
  <<UnlessGiven(<<Connect>>), Finally(body, <<Close>>)>>

-----------------------------------------------------------------------------
(* What makes a session: the variables whose handles a statement opens, or *)
(* closes whatever happens in its body, and the rule that what is opened   *)
(* is closed by the statement that follows, S for the last one.            *)
Opens(i) ==
  CASE i.op = "connect" -> {i.on}
    [] i.op = "ungiven" ->
         {i.body[k].on : k \in {k \in DOMAIN i.body : i.body[k].op = "connect"}}
    [] OTHER -> {}

Closes(q) ==
  {q[k].on : k \in {k \in DOMAIN q : \A j \in 1..k : q[j].op = "close"}}

Shuts(i) == IF i.op = "finally" THEN Closes(i.other) ELSE {}

Guarded(q, S) ==
  \A k \in DOMAIN q :
    Opens(q[k]) \subseteq (IF k < Len(q) THEN Shuts(q[k + 1]) ELSE S)
=============================================================================
