----------------------------- MODULE OperatorMode -----------------------------
(***************************************************************************)
(* The operator mode of a bot's dialogues (telegram/telegram.go): the      *)
(* first message of an operator that the listener of answers takes from    *)
(* TxCh turns it on, a command of the operator turns it off, and every     *)
(* message of the peer is marked with it.  The flags live in the Bot; the  *)
(* operator and his SSE connection live in another service.                *)
(***************************************************************************)
EXTENDS Integers, Sequences

CONSTANTS Dialogs, \* dialogues of one user
          TxCap    \* capacity of a dialogue's TxCh

ASSUME OperatorAssumption == TxCap \in Nat

VARIABLES operMode,  \* operatorModeByDialog
          connected, \* dialogues with an operator's SSE connection
          txCh,      \* answers on their way to the listener
          disabling, \* where DisableOperatorMode is, per dialogue
          departed,  \* history: the operator has left by himself and nobody has come or let him go since
          stale      \* history: an operator's message was left over when he was let go

operVars == <<operMode, connected, txCh, disabling, departed, stale>>

OperatorInit == /\ operMode = {} /\ connected = {} /\ departed = {} /\ stale = {}
                /\ txCh = [d \in Dialogs |-> <<>>]
                /\ disabling = [d \in Dialogs |-> "no"]

\* An operator takes the dialogue over.
OperatorJoins(d) == /\ d \notin connected
                    /\ connected' = connected \cup {d}
                    /\ departed' = departed \ {d}
                    /\ stale' = IF disabling[d] = "no" THEN stale \ {d} ELSE stale
                    /\ UNCHANGED <<operMode, txCh, disabling>>

\* The operator's connection ends by his own doing or in air_oper: the bot is not told,
\* so the mode stays as it is.
OperatorLeaves(d) == /\ d \in connected
                     /\ connected' = connected \ {d}
                     /\ departed' = departed \cup {d}
                     /\ UNCHANGED <<operMode, txCh, disabling, stale>>

\* The model or the operator answers.
Write(d, author) == /\ author = "operator" => d \in connected
                    /\ Len(txCh[d]) < TxCap
                    /\ txCh' = [txCh EXCEPT ![d] = Append(@, author)]
                    /\ UNCHANGED <<operMode, connected, disabling, departed, stale>>

\* processAssistantMessage: an operator's message turns the mode on before it is sent,
\* whether or not the sending succeeds; without an access hash nothing happens.
ProcessAnswer(d) ==
  /\ txCh[d] # <<>>
  /\ txCh' = [txCh EXCEPT ![d] = Tail(@)]
  /\ \/ /\ Head(txCh[d]) = "operator"
        /\ operMode' = operMode \cup {d}
        /\ stale' = IF disabling[d] = "cleared" THEN stale \cup {d} ELSE stale
     \/ UNCHANGED <<operMode, stale>>
  /\ UNCHANGED <<connected, disabling, departed>>

LeftOver(d) == \E i \in DOMAIN txCh[d] : txCh[d][i] = "operator"

\* Whoever has left by himself is let go with the mode.
LetDepartedGo(d) == /\ departed' = departed \ {d}
                    /\ stale' = IF d \in departed /\ LeftOver(d) THEN stale \cup {d} ELSE stale

\* Mutant of ClearMode: the flag is found but not deleted.
FindMode(d) == /\ d \in operMode
               /\ disabling[d] = "no"
               /\ disabling' = [disabling EXCEPT ![d] = "cleared"]
               /\ LetDepartedGo(d)
               /\ UNCHANGED <<operMode, connected, txCh>>

\* DisableOperatorMode looks for a bot with the flag; without one it fails and does
\* nothing, so an operator who has not written yet stays connected.  Calls for one
\* dialogue do not overlap in the model.
ClearMode(d) == /\ d \in operMode
                /\ disabling[d] = "no"
                /\ operMode' = operMode \ {d}
                /\ disabling' = [disabling EXCEPT ![d] = "cleared"]
                /\ LetDepartedGo(d)
                /\ UNCHANGED <<connected, txCh>>

\* The respondent, his access hash or the message to him fails: the connection is kept.
DisableFails(d) == /\ disabling[d] = "cleared"
                   /\ disabling' = [disabling EXCEPT ![d] = "no"]
                   /\ UNCHANGED <<operMode, connected, txCh, departed, stale>>

\* The peer has been told that the operator has left: CloseOperatorSSE, which finds
\* nobody when the connection is already closed.
CloseOperatorSSE(d) == /\ disabling[d] = "cleared"
                       /\ disabling' = [disabling EXCEPT ![d] = "no"]
                       /\ connected' = connected \ {d}
                       /\ departed' = departed \ {d}
                       /\ stale' = IF LeftOver(d) THEN stale \cup {d} ELSE stale
                       /\ UNCHANGED <<operMode, txCh>>

\* The bot is restarted: its successor has no flags.
RestartBot == /\ operMode' = {}
              /\ UNCHANGED <<connected, txCh, disabling, departed, stale>>

OperatorNext ==
  \/ \E d \in Dialogs : \/ OperatorJoins(d) \/ OperatorLeaves(d) \/ ProcessAnswer(d)
                        \/ \E author \in {"assist", "operator"} : Write(d, author)
                        \/ ClearMode(d) \/ DisableFails(d) \/ CloseOperatorSSE(d)
  \/ RestartBot

OperatorSpec == OperatorInit /\ [][OperatorNext]_operVars

-----------------------------------------------------------------------------
OperatorTypeOK ==
  /\ operMode \subseteq Dialogs /\ connected \subseteq Dialogs /\ departed \subseteq Dialogs
  /\ stale \subseteq Dialogs
  /\ txCh \in [Dialogs -> Seq({"assist", "operator"})]
  /\ \A d \in Dialogs : Len(txCh[d]) <= TxCap
  /\ disabling \in [Dialogs -> {"no", "cleared"}]

\* A peer's messages are marked for an operator only while one is there, or has left by
\* himself and has not been let go since (nothing tells the bot), or when a message of his
\* outlived the letting go: queued when his connection was closed, or processed between the
\* clearing of the flag and the closing (DisableOperatorMode against
\* processAssistantMessage), it turns the mode on again for nobody.
ModeFollowsOperator == operMode \subseteq connected \cup departed \cup stale
=============================================================================
