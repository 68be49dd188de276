---------------------------- MODULE ContactsStream ----------------------------
(***************************************************************************)
(* The page that lists a user's contacts and chats                         *)
(* (telegram/web_handler.go: HandlerGetContactsWS; telegram/contacts.go:   *)
(* GetUserContactsStreaming).  Two goroutines ask Telegram, one for the    *)
(* contacts and one for the dialogues, and append what they get to one     *)
(* slice, without a lock; when both are over the slice is streamed.        *)
(* Writes to the page whose failure is ignored are taken as done.          *)
(***************************************************************************)
EXTENDS Integers, Sequences, Functions

CONSTANT MaxItems \* bound of the model: items of one source

ASSUME ContactsAssumption == MaxItems \in Nat

VARIABLES bot,      \* the user's bot: "running", "stopped" or "gone"
          page,     \* where the handler is
          fetcher,  \* where the goroutine of each source is
          fetched,  \* how many items each source has
          appended, \* how many of them have been appended
          local,    \* the slice as the goroutine's append has loaded it
          allItems, \* the shared slice
          streamed, \* what the page has been sent
          raced     \* history: an append overwrote what it had not loaded

results == <<fetched, appended, local, allItems, raced>>
contactsVars == <<bot, page, fetcher, fetched, appended, local, allItems, streamed, raced>>

Sources == {"contacts", "dialogs"}

\* An entry of the slice that nobody has written.
NoItem == <<"none", 0>>

ContactsInit == /\ bot \in {"running", "stopped", "gone"}
                /\ page = "connected"
                /\ fetcher = [g \in Sources |-> "idle"]
                /\ fetched = [g \in Sources |-> 0]
                /\ appended = [g \in Sources |-> 0]
                /\ local = [g \in Sources |-> <<>>]
                /\ allItems = <<>> /\ streamed = <<>>
                /\ raced = FALSE

\* The registry and the bot's lifecycle, which the handler does not hold up.
BotStops == /\ \/ bot = "running" /\ bot' = "stopped"
               \/ bot # "gone" /\ bot' = "gone"
            /\ UNCHANGED <<page, fetcher, streamed, results>>

\* No bot, a stopped one, or a page that cannot be written to: the handler returns.
CheckBot == /\ page = "connected"
            /\ \/ bot = "running" /\ page' = "checked"
               \/ page' = "failed"
            /\ UNCHANGED <<bot, fetcher, streamed, results>>

\* GetUserContactsStreaming looks the bot up again: it may have gone, or have no client
\* yet.  Otherwise the two goroutines are started, stopped or not.
BeginLoading ==
  /\ page = "checked"
  /\ \/ /\ bot # "gone"
        /\ page' = "loading"
        /\ fetcher' = [g \in Sources |-> "fetching"]
     \/ /\ page' = "failed"
        /\ UNCHANGED fetcher
  /\ UNCHANGED <<bot, streamed, results>>

\* Telegram answers, or refuses, or the bot's context ends.
Fetch(g) ==
  /\ fetcher[g] = "fetching"
  /\ \/ /\ fetcher' = [fetcher EXCEPT ![g] = "appending"]
        /\ \E n \in 0 .. MaxItems : fetched' = [fetched EXCEPT ![g] = n]
     \/ /\ fetcher' = [fetcher EXCEPT ![g] = "failed"]
        /\ UNCHANGED fetched
  /\ UNCHANGED <<bot, page, appended, local, allItems, streamed, raced>>

\* append reads the slice.
LoadItems(g) ==
  /\ fetcher[g] = "appending"
  /\ appended[g] < fetched[g]
  /\ fetcher' = [fetcher EXCEPT ![g] = "storing"]
  /\ local' = [local EXCEPT ![g] = allItems]
  /\ UNCHANGED <<bot, page, fetched, appended, allItems, streamed, raced>>

\* What the slice may be after item has been appended to the slice seen, if it is now a
\* different one: the other goroutine's appends are lost, or overwritten in an array both
\* use, or its length is kept with an array that does not have its items.
RaceOutcomes(seen, item) ==
  LET last == Len(seen) + 1
  IN  {Append(seen, item)}
        \cup {[allItems EXCEPT ![i] = item] : i \in {last} \cap DOMAIN allItems}
        \cup {[i \in 1 .. Len(allItems) |-> IF i < last THEN seen[i]
                                            ELSE IF i = last THEN item ELSE NoItem]}

\* append writes the slice back.
StoreItems(g) ==
  LET item == <<g, appended[g] + 1>>
  IN  /\ fetcher[g] = "storing"
      /\ fetcher' = [fetcher EXCEPT ![g] = "appending"]
      /\ appended' = [appended EXCEPT ![g] = @ + 1]
      /\ \/ /\ allItems = local[g]
            /\ allItems' = Append(local[g], item)
            /\ UNCHANGED raced
         \/ /\ allItems # local[g]
            /\ allItems' \in RaceOutcomes(local[g], item)
            /\ raced' = TRUE
      /\ UNCHANGED <<bot, page, fetched, local, streamed>>

FetchOver(g) == /\ fetcher[g] = "appending"
                /\ appended[g] = fetched[g]
                /\ fetcher' = [fetcher EXCEPT ![g] = "done"]
                /\ UNCHANGED <<bot, page, streamed, results>>

\* Mutant of AllOver: the first of the two to finish releases the page.
OneOver == \E g \in Sources : fetcher[g] \in {"done", "failed"}

\* wg.Wait
AllOver == \A g \in Sources : fetcher[g] \in {"done", "failed"}

\* Without the contacts the page gets an error; dialogues that could not be had are left
\* out without a word.
BeginStreaming ==
  /\ page = "loading"
  /\ AllOver
  /\ page' = IF fetcher["contacts"] = "failed" THEN "failed" ELSE "streaming"
  /\ UNCHANGED <<bot, fetcher, streamed, results>>

StreamItem == /\ page = "streaming"
              /\ Len(streamed) < Len(allItems)
              /\ streamed' = Append(streamed, allItems[Len(streamed) + 1])
              /\ UNCHANGED <<bot, page, fetcher, results>>

StreamComplete == /\ page = "streaming"
                  /\ Len(streamed) = Len(allItems)
                  /\ page' = "complete"
                  /\ UNCHANGED <<bot, fetcher, streamed, results>>

ContactsNext ==
  \/ BotStops \/ CheckBot \/ BeginLoading \/ BeginStreaming \/ StreamItem \/ StreamComplete
  \/ \E g \in Sources : Fetch(g) \/ LoadItems(g) \/ StoreItems(g) \/ FetchOver(g)

ContactsSpec == ContactsInit /\ [][ContactsNext]_contactsVars

-----------------------------------------------------------------------------
Item == (Sources \X Nat) \cup {NoItem}

Fetched == {<<g, i>> : g \in Sources, i \in 1 .. MaxItems}

\* The items that Telegram returned.
Expected == {item \in Fetched : item[2] <= fetched[item[1]]}

ContactsTypeOK ==
  /\ bot \in {"running", "stopped", "gone"}
  /\ page \in {"connected", "checked", "loading", "streaming", "complete", "failed"}
  /\ fetcher \in [Sources -> {"idle", "fetching", "appending", "storing", "done", "failed"}]
  /\ fetched \in [Sources -> 0 .. MaxItems]
  /\ appended \in [Sources -> 0 .. MaxItems]
  /\ local \in [Sources -> Seq(Item)]
  /\ allItems \in Seq(Item) /\ streamed \in Seq(Item)
  /\ raced \in BOOLEAN

\* A page that is told "all contacts are loaded" has been sent every item of both sources,
\* each once and nothing else, unless the two goroutines' appends to allItems raced
\* (GetUserContactsStreaming: wg.Wait before the slice is read; nothing orders the appends).
StreamedOnce ==
  page = "complete" /\ ~raced => /\ Range(streamed) = Expected
                                 /\ IsInjective(streamed)
=============================================================================
