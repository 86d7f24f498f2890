-------------------------------- MODULE MSD --------------------------------
(***************************************************************************)
(* The minimum self-delegation ante check (msd/msd.go, used by             *)
(* ante/cosmos/min_stake.go): every Cosmos transaction passes through      *)
(* MinSelfDelegationDecorator.AnteHandle, which runs CheckMSDInTx over its *)
(* messages, looking inside authz MsgExec at any depth, before the staking *)
(* module executes them.                                                   *)
(*                                                                         *)
(* The staking module (cosmos-sdk x/staking, not in the repository) is the *)
(* environment: MsgCreateValidator, MsgEditValidator and a self            *)
(* MsgUndelegate as the SDK's message server applies them, all messages of *)
(* a transaction or none.  Amounts are small integers, with the chain's    *)
(* MSD literal as the constant MinSelfDelegation.                          *)
(***************************************************************************)
EXTENDS Naturals, Sequences, SequencesExt, FiniteSets

CONSTANTS
    Validators,         \* operator addresses
    MinSelfDelegation,  \* msd.MinSelfDelegation (the literal 888888 * 10^18)
    Amounts,            \* the coin amounts and MSD values messages carry
    BondDenom,          \* bondDenom
    OtherDenom,         \* a denomination that is not the bond denom
    Nil,                \* a MsgEditValidator that leaves MinSelfDelegation unset
    BadAny,             \* an Any inside MsgExec that UnpackAny rejects
    MaxDepth,           \* the deepest nesting of MsgExec
    MaxStake            \* the most tokens a validator may hold in the model

ASSUME /\ MinSelfDelegation \in Nat \ {0} /\ Amounts \subseteq Nat \ {0}
       /\ MaxDepth \in Nat /\ MaxStake \in Nat

(***************************************************************************)
(* Messages.  An authz MsgExec holds a sequence of Any, each a message or  *)
(* BadAny.                                                                 *)
(***************************************************************************)
BaseMsgs ==
    [type : {"MsgCreateValidator"}, val : Validators, denom : {BondDenom, OtherDenom},
     amount : Amounts, msd : Amounts]
    \cup [type : {"MsgEditValidator"}, val : Validators, msd : Amounts \cup {Nil}]
    \cup [type : {"MsgDelegate", "MsgUndelegate"}, val : Validators, amount : Amounts,
          self : BOOLEAN]
    \cup [type : {"MsgUnjail"}, val : Validators]
    \cup {[type |-> "MsgSend"]}

\* Messages with MsgExec nested at most d deep, one Any per MsgExec.
RECURSIVE MsgsUpTo(_)
MsgsUpTo(d) ==
    IF d = 0 THEN BaseMsgs
    ELSE MsgsUpTo(d - 1) \cup [type : {"MsgExec"}, msgs : {<<a>> : a \in MsgsUpTo(d - 1) \cup {BadAny}}]

Txs == {<<m>> : m \in MsgsUpTo(MaxDepth)}

(***************************************************************************)
(* The ante check.  A result is "ok", an error, or a panic, which          *)
(* baseapp's runTx recovers into an error.                                 *)
(***************************************************************************)
\* checkCreateValidator: the denom, the amount, then the declared MSD.
checkCreateValidator(m) ==
    CASE m.denom # BondDenom -> "err"
      [] m.amount < MinSelfDelegation -> "err"
      [] m.msd < MinSelfDelegation -> "err"
      [] OTHER -> "ok"

\* checkEditValidator: msg.MinSelfDelegation.LT(...) on the *Int, which
\* dereferences a nil pointer, and panics, when the edit leaves it unset.
checkEditValidator(m) ==
    CASE m.msd = Nil -> "panic"
      [] m.msd < MinSelfDelegation -> "err"
      [] OTHER -> "ok"

\* The first result of a sequence that is not "ok", in order.
FirstFailure(rs) ==
    IF \E i \in 1..Len(rs) : rs[i] # "ok"
    THEN rs[CHOOSE i \in 1..Len(rs) : rs[i] # "ok" /\ \A j \in 1..(i - 1) : rs[j] = "ok"]
    ELSE "ok"

\* Mutant: MsgExec is not looked into.
CheckMSDInMsgNoRecursion(m) ==
    CASE m = BadAny -> "err"
      [] m.type = "MsgExec" -> "ok"
      [] m.type = "MsgCreateValidator" -> checkCreateValidator(m)
      [] m.type = "MsgEditValidator" -> checkEditValidator(m)
      [] OTHER -> "ok"

\* CheckMSDInMsg: into every Any of a MsgExec in order, an unpack failure
\* being an error; the two staking messages are checked; others pass.
RECURSIVE CheckMSDInMsg(_)
CheckMSDInMsg(m) ==
    CASE m = BadAny -> "err"
      [] m.type = "MsgExec" -> FirstFailure([i \in 1..Len(m.msgs) |-> CheckMSDInMsg(m.msgs[i])])
      [] m.type = "MsgCreateValidator" -> checkCreateValidator(m)
      [] m.type = "MsgEditValidator" -> checkEditValidator(m)
      [] OTHER -> "ok"

CheckMSDInTx(tx) == FirstFailure([i \in 1..Len(tx) |-> CheckMSDInMsg(tx[i])])

(***************************************************************************)
(* The staking module, as the environment.                                 *)
(***************************************************************************)
VARIABLES
    validator,   \* operator -> [bonded, jailed, selfDel, tokens, msd]
    lastTx,      \* the last transaction delivered
    lastResult   \* "ok", "ante" (AnteHandle rejected it) or "staking" (a message failed)

vars == <<validator, lastTx, lastResult>>

NoValidator == [bonded |-> FALSE, jailed |-> FALSE, selfDel |-> 0, tokens |-> 0, msd |-> 0]

\* The messages a transaction executes, MsgExec flattened in order.
RECURSIVE Executed(_)
Executed(m) ==
    IF m # BadAny /\ m.type = "MsgExec" THEN FlattenSeq([i \in 1..Len(m.msgs) |-> Executed(m.msgs[i])])
    ELSE <<m>>

\* One staking message applied to the validators; a failure voids the rest.
Fail(st) == [st EXCEPT !.ok = FALSE]

Apply(st, m) ==
    LET vs == st.vs
    IN  CASE ~st.ok -> st
          [] m = BadAny -> Fail(st)    \* authz cannot unpack it either
          [] m.type = "MsgCreateValidator" ->
                IF vs[m.val].bonded \/ m.denom # BondDenom \/ m.msd > m.amount THEN Fail(st)
                ELSE [st EXCEPT !.vs[m.val] = [bonded |-> TRUE, jailed |-> FALSE, selfDel |-> m.amount,
                                               tokens |-> m.amount, msd |-> m.msd]]
          [] m.type = "MsgEditValidator" ->
                IF ~vs[m.val].bonded THEN Fail(st)
                ELSE IF m.msd = Nil THEN st
                ELSE IF m.msd <= vs[m.val].msd \/ m.msd > vs[m.val].tokens THEN Fail(st)
                ELSE [st EXCEPT !.vs[m.val].msd = m.msd]
          [] m.type = "MsgDelegate" ->
                IF ~vs[m.val].bonded THEN Fail(st)
                ELSE [st EXCEPT !.vs[m.val].tokens = @ + m.amount,
                                !.vs[m.val].selfDel = IF m.self THEN @ + m.amount ELSE @]
          [] m.type = "MsgUndelegate" /\ ~m.self ->
                IF ~vs[m.val].bonded \/ m.amount > vs[m.val].tokens - vs[m.val].selfDel THEN Fail(st)
                ELSE [st EXCEPT !.vs[m.val].tokens = @ - m.amount]
          \* The operator's own undelegation jails it below its declared MSD.
          [] m.type = "MsgUndelegate" ->
                IF ~vs[m.val].bonded \/ m.amount > vs[m.val].selfDel THEN Fail(st)
                ELSE LET left == vs[m.val].selfDel - m.amount
                     IN  [st EXCEPT !.vs[m.val].selfDel = left,
                                    !.vs[m.val].tokens = @ - m.amount,
                                    !.vs[m.val].jailed = @ \/ left < vs[m.val].msd]
          \* Unjail: the jail period taken as over, the self-delegation must
          \* cover the declared MSD.
          [] m.type = "MsgUnjail" ->
                IF ~vs[m.val].jailed \/ vs[m.val].selfDel < vs[m.val].msd THEN Fail(st)
                ELSE [st EXCEPT !.vs[m.val].jailed = FALSE]
          [] OTHER -> st

Init ==
    /\ validator = [v \in Validators |-> NoValidator]
    /\ lastTx = <<>>
    /\ lastResult = "ok"

\* A transaction through AnteHandle, then, if it passes, through the staking
\* module's message server.
AnteHandle(tx) ==
    LET after == FoldLeft(Apply, [ok |-> TRUE, vs |-> validator],
                          FlattenSeq([i \in 1..Len(tx) |-> Executed(tx[i])]))
    IN  /\ after.ok => \A v \in Validators : after.vs[v].tokens <= MaxStake
        /\ lastTx' = tx
        /\ CASE CheckMSDInTx(tx) # "ok" -> lastResult' = "ante" /\ UNCHANGED validator
             [] ~after.ok -> lastResult' = "staking" /\ UNCHANGED validator
             [] OTHER -> lastResult' = "ok" /\ validator' = after.vs

Next == \E tx \in Txs : AnteHandle(tx)

Spec == Init /\ [][Next]_vars

\* Every validator that is bonded and not jailed declares a minimum
\* self-delegation of at least the chain's MSD and holds a self-delegation of
\* at least that much, whatever mix of creates, edits and self-undelegations,
\* wrapped in MsgExec at any depth, was delivered.
ActiveValidatorsMeetMSD ==
    \A v \in Validators :
        (validator[v].bonded /\ ~validator[v].jailed) =>
            /\ validator[v].msd >= MinSelfDelegation
            /\ validator[v].selfDel >= MinSelfDelegation

\* The messages of a transaction that break the MSD rules.
RECURSIVE Violates(_)
Violates(m) ==
    CASE m = BadAny -> TRUE
      [] m.type = "MsgExec" -> \E i \in 1..Len(m.msgs) : Violates(m.msgs[i])
      [] m.type = "MsgCreateValidator" ->
            m.denom # BondDenom \/ m.amount < MinSelfDelegation \/ m.msd < MinSelfDelegation
      [] m.type = "MsgEditValidator" -> m.msd # Nil /\ m.msd < MinSelfDelegation
      [] OTHER -> FALSE

\* AnteHandle rejects a transaction only when one of its messages, at any
\* depth, breaks the MSD rules: an edit that leaves the minimum
\* self-delegation unchanged is not the ante handler's business.
AnteRejectsOnlyViolations ==
    lastResult = "ante" => \E i \in 1..Len(lastTx) : Violates(lastTx[i])
=============================================================================
