---------------------------- MODULE ModbusServer ----------------------------
(***************************************************************************)
(* The Modbus example, zephyr/native-modbus/app/src/main.c: the start-up   *)
(* that waits for a client's DTR line, and the callbacks behind coils and  *)
(* holding registers.  Zephyr's server is external: it serves one request  *)
(* at a time, calls a callback for each item of the range and answers with *)
(* an exception as soon as one refuses.                                    *)
(***************************************************************************)
EXTENDS Naturals, Sequences

CONSTANTS
    NUM_COILS, NUM_REGISTERS,
    Words,     \* the register values a client writes
    MaxAddr,   \* bound: highest address a client asks for
    MaxCount   \* bound: items in one request

ASSUME ModbusAssumption ==
    NUM_COILS \in Nat /\ NUM_REGISTERS \in Nat /\ Words \subseteq Nat
    /\ MaxAddr \in Nat /\ MaxCount \in Nat \ {0}

VARIABLES
    pc,           \* main: "ready", "dtr", "init" or "done"
    dtr,          \* the line, as the host drives it
    serving,      \* modbus_init_server succeeded
    coils_state,  \* the eight coils in one byte
    holding_reg,
    req,          \* the request being served, or the last one
    done,         \* items of it served
    answer,       \* "none" while it is served, "ok" or "exception"
    resp,         \* the values read for it
    wrote         \* history: the last value written to each item

mainVars == <<pc, dtr, serving>>
vars == <<mainVars, coils_state, holding_reg, req, done, answer, resp, wrote>>

\* Whatever a client can name, on the device or not.
Item == {"coil", "reg"} \X (0 .. MaxAddr + MaxCount)
Value(kind) == IF kind = "coil" THEN {0, 1} ELSE Words

\* Built for a CDC ACM port, main first waits for its client; built for any
\* other, the #if leaves only the initialisation of the server.
Init ==
    /\ pc \in {"ready", "init"} /\ dtr = FALSE /\ serving = FALSE
    /\ coils_state = 0 /\ holding_reg = [a \in 0 .. NUM_REGISTERS - 1 |-> 0]
    /\ req = <<>> /\ done = 0 /\ answer = "ok" /\ resp = <<>>
    /\ wrote = [it \in Item |-> 0]

-----------------------------------------------------------------------------
(* main and init_modbus_server.                                            *)

HostDtr ==
    /\ dtr' = ~dtr
    /\ UNCHANGED <<pc, serving, coils_state, holding_reg, req, done, answer, resp, wrote>>

MainStep(from, to) ==
    /\ pc = from /\ pc' = to
    /\ UNCHANGED <<dtr, coils_state, holding_reg, req, done, answer, resp, wrote>>

\* device_is_ready: otherwise main returns at once.
CheckDevice == (MainStep("ready", "dtr") \/ MainStep("ready", "done")) /\ UNCHANGED serving

\* One turn of the loop: a look at the line, then 100 ms of sleep.
PollDtr ==
    /\ IF dtr THEN MainStep("dtr", "init") ELSE MainStep("dtr", "dtr")
    /\ UNCHANGED serving

\* No interface or a failing modbus_init_server is logged and main returns.
init_modbus_server == MainStep("init", "done") /\ serving' \in BOOLEAN

-----------------------------------------------------------------------------
(* The callbacks.                                                          *)

\* BIT, 1 shifted left by a places.
BIT(a) ==
    LET shifted[k \in 0 .. a] == IF k = 0 THEN 1 ELSE 2 * shifted[k - 1] IN shifted[a]

Bit(w, a) == (w \div BIT(a)) % 2

\* Mutant: the bound admits one address too many.
coil_ok_off_by_one(a) == a <= NUM_COILS

coil_ok(a) == a < NUM_COILS
reg_ok(a) == a < NUM_REGISTERS
Accepts(kind, a) == IF kind = "coil" THEN coil_ok(a) ELSE reg_ok(a)

coil_rd(a) == Bit(coils_state, a)
holding_reg_rd(a) == holding_reg[a]

\* Mutant: coils_state &= BIT(addr), the complement forgotten.
coil_wr_masking(a, v) ==
    coils_state' = IF v = 1 THEN coils_state + (1 - Bit(coils_state, a)) * BIT(a)
                   ELSE Bit(coils_state, a) * BIT(a)

\* w | BIT(a) or w & ~BIT(a)
WithBit(w, a, v) == IF v = 1 THEN w + (1 - Bit(w, a)) * BIT(a) ELSE w - Bit(w, a) * BIT(a)

coil_wr(a, v) == coils_state' = WithBit(coils_state, a, v)

holding_reg_wr(a, v) == holding_reg' = [holding_reg EXCEPT ![a] = v]

-----------------------------------------------------------------------------
(* Zephyr's server.                                                        *)

\* A client's request: read or write n items from an address on.
Request ==
    /\ serving /\ answer # "none"
    /\ \E kind \in {"coil", "reg"}, a \in 0 .. MaxAddr, n \in 1 .. MaxCount :
         \/ req' = [op |-> "read", kind |-> kind, addr |-> a, n |-> n]
         \/ \E v \in [1 .. n -> Value(kind)] :
                req' = [op |-> "write", kind |-> kind, addr |-> a, n |-> n, val |-> v]
    /\ done' = 0 /\ answer' = "none" /\ resp' = <<>>
    /\ UNCHANGED <<mainVars, coils_state, holding_reg, wrote>>

At == req.addr + done
Serving(op) == answer = "none" /\ req.op = op /\ done < req.n

ServeRead ==
    /\ Serving("read") /\ Accepts(req.kind, At)
    /\ resp' = Append(resp, IF req.kind = "coil" THEN coil_rd(At) ELSE holding_reg_rd(At))
    /\ done' = done + 1
    /\ UNCHANGED <<mainVars, coils_state, holding_reg, req, answer, wrote>>

ServeWrite ==
    LET v == req.val[done + 1] IN
    /\ Serving("write") /\ Accepts(req.kind, At)
    /\ IF req.kind = "coil" THEN coil_wr(At, v) /\ UNCHANGED holding_reg
       ELSE holding_reg_wr(At, v) /\ UNCHANGED coils_state
    /\ wrote' = [wrote EXCEPT ![<<req.kind, At>>] = v]
    /\ done' = done + 1
    /\ UNCHANGED <<mainVars, req, answer, resp>>

\* -ENOTSUP: the items before this one stay written.
ServeRefused ==
    /\ Serving("read") \/ Serving("write")
    /\ ~Accepts(req.kind, At)
    /\ answer' = "exception"
    /\ UNCHANGED <<mainVars, coils_state, holding_reg, req, done, resp, wrote>>

Respond ==
    /\ answer = "none" /\ done = req.n
    /\ answer' = "ok"
    /\ UNCHANGED <<mainVars, coils_state, holding_reg, req, done, resp, wrote>>

Server == ServeRead \/ ServeWrite \/ ServeRefused \/ Respond

Main == CheckDevice \/ PollDtr \/ init_modbus_server

Next == Main \/ HostDtr \/ Request \/ Server

Spec == Init /\ [][Next]_vars

-----------------------------------------------------------------------------
(* Properties.                                                             *)

\* A read answered without an exception gives, for every item, the value last
\* written to it by any request, one that ended in an exception included, and
\* no write reaches a neighbour (main.c:37-41, 54-60, 72, 84).
ReadsLastWrites ==
    answer = "ok" /\ req # <<>> /\ req.op = "read" =>
        \A k \in 1 .. req.n : resp[k] = wrote[<<req.kind, req.addr + k - 1>>]

\* An exception tells the client that its range leaves the device, and an
\* answer without one that the whole range was served (main.c:33, 49, 68, 80).
AnswerMatchesRange ==
    LET size == IF req.kind = "coil" THEN NUM_COILS ELSE NUM_REGISTERS IN
    req # <<>> /\ answer # "none" => (answer = "ok" <=> req.addr + req.n <= size)
=============================================================================
