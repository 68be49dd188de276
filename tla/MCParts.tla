------------------------------- MODULE MCParts -------------------------------
(***************************************************************************)
(* Six parts that share no state, model-checked side by side: a behaviour  *)
(* is one of one part, the others keep their initial states.               *)
(***************************************************************************)
EXTENDS AppShutdown, NtgAsync, AudioBridge, OutgoingCall, ContactsStream, OperatorMode

VARIABLE part \* the part whose behaviour this is

partVars == <<part, shutdownVars, asyncVars, bridgeVars, dialVars, contactsVars, operVars>>

PartsInit ==
  /\ part \in {"shutdown", "async", "bridge", "dial", "contacts", "operator"}
  /\ ShutdownInit /\ AsyncInit /\ BridgeInit /\ DialInit /\ ContactsInit /\ OperatorInit
  /\ part # "contacts" => bot = "running"

PartsNext ==
  \/ /\ part = "shutdown" /\ ShutdownNext
     /\ UNCHANGED <<part, asyncVars, bridgeVars, dialVars, contactsVars, operVars>>
  \/ /\ part = "async" /\ AsyncNext
     /\ UNCHANGED <<part, shutdownVars, bridgeVars, dialVars, contactsVars, operVars>>
  \/ /\ part = "bridge" /\ BridgeNext
     /\ UNCHANGED <<part, shutdownVars, asyncVars, dialVars, contactsVars, operVars>>
  \/ /\ part = "dial" /\ DialNext
     /\ UNCHANGED <<part, shutdownVars, asyncVars, bridgeVars, contactsVars, operVars>>
  \/ /\ part = "contacts" /\ ContactsNext
     /\ UNCHANGED <<part, shutdownVars, asyncVars, bridgeVars, dialVars, operVars>>
  \/ /\ part = "operator" /\ OperatorNext
     /\ UNCHANGED <<part, shutdownVars, asyncVars, bridgeVars, dialVars, contactsVars>>

\* The fairness of a part asks nothing of a behaviour of another one: what it is about is
\* not enabled in the initial state.
PartsSpec == PartsInit /\ [][PartsNext]_partVars
               /\ ShutdownFairness /\ AsyncFairness /\ BridgeFairness
=============================================================================
