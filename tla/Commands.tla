------------------------------ MODULE Commands ------------------------------
(***************************************************************************)
(* The command registry and the path of a message through it:              *)
(* app/core/commands.py, the part of app/core/plugin.py that decides under *)
(* which names a plugin's declared commands are registered, and            *)
(* BotClient.handle_bot_event.                                             *)
(*                                                                         *)
(* A command is the plugin that declares it with the names it claimed: its *)
(* own name, plain or dotted with the plugin's, and its aliases.  What the *)
(* gates of handle_message look at (lists, limits, scopes, parameters) is  *)
(* left open: each may refuse any message.  Requests for one plugin take   *)
(* turns here; PluginLifecycle has the overlapping ones.                   *)
(***************************************************************************)
EXTENDS Naturals, Sequences, SequencesExt

CONSTANTS Plugins, Messages, Words,
          System,      \* the plugin that may take names at boot
          BootOrder,   \* the enabled plugins in dependency order
          Declared,    \* Declared[p]: the [name, aliases] of its commands
          NoPlugin

ASSUME CommandsAssumption ==
    /\ System \in Plugins /\ NoPlugin \notin Plugins
    /\ BootOrder \in Seq(Plugins) /\ IsInjective(BootOrder)
    /\ Declared \in [Plugins -> SUBSET [name : Words, aliases : SUBSET Words]]
    /\ \A p \in Plugins : \A c, d \in Declared[p] :
          c.name \notin c.aliases
          /\ (c # d => ({c.name} \cup c.aliases) \cap ({d.name} \cup d.aliases) = {})

Plain(w)     == <<NoPlugin, w>>
Dotted(p, w) == <<p, w>>
Names        == (Plugins \cup {NoPlugin}) \X Words
NoCommand    == [plugin |-> NoPlugin, name |-> << >>, aliases |-> {}]

VARIABLES commands,  \* CommandRegistry._commands
          byPlugin,  \* CommandRegistry._by_plugin
          standing,  \* a plugin is loaded, closing (unload awaits stop()) or out
          booting,   \* how far load_enabled() is in the order
          message    \* each message: where it is, its command, what was recorded

registry    == <<commands, byPlugin, standing, booting>>
commandVars == <<registry, message>>

Command == [plugin : Plugins, name : Names, aliases : SUBSET Names]
Place   == {"new", "ruling", "replying", "handling", "counting", "failing", "excusing", "done"}
Record  == {"parsed", "rejected", "invoked", "failed", "audit_rejected", "audit_invoked",
            "audit_failed", "row_success", "row_failure"}

CommandsTypeOK ==
    /\ commands \in [Names -> Command \cup {NoCommand}]
    /\ byPlugin \in [Plugins -> SUBSET Names]
    /\ standing \in [Plugins -> {"loaded", "closing", "out"}]
    /\ booting \in 0..Len(BootOrder)
    /\ message \in [Messages -> [at : Place, cmd : Command \cup {NoCommand},
                                 log : Seq(Record), cut : BOOLEAN]]

(***************************************************************************)
(* CommandRegistry.register and unregister_plugin on a registry            *)
(* [table, owned].  Unregistering walks the names in the order of a hash   *)
(* set: a name that another plugin has taken over meanwhile takes that     *)
(* command's aliases along if the walk meets it before the alias goes with *)
(* the command it was registered for ("first").                            *)
(***************************************************************************)
Claimed(c) == {c.name} \cup c.aliases

Registered(reg, p, new) ==
    [table |-> [n \in Names |->
                  IF \E c \in new : n \in Claimed(c)
                    THEN CHOOSE c \in new : n \in Claimed(c) ELSE reg.table[n]],
     owned |-> [reg.owned EXCEPT ![p] = @ \cup UNION {Claimed(c) : c \in new}]]

Foreign(reg, p) == {n \in reg.owned[p] : reg.table[n].plugin \notin {p, NoPlugin}}

Unregistered(reg, p, first) ==
    LET walked == (reg.owned[p] \ Foreign(reg, p)) \cup first
        gone   == reg.owned[p] \cup UNION {reg.table[n].aliases : n \in walked}
    IN  [table |-> [n \in Names |-> IF n \in gone THEN NoCommand ELSE reg.table[n]],
         owned |-> [reg.owned EXCEPT ![p] = {}]]

(***************************************************************************)
(* PluginManager: which names a plugin gets.  At boot the names are dealt  *)
(* out over the whole order, the system plugin first of all; a plugin that *)
(* is loaded alone yields to whatever is registered.  An alias is dropped  *)
(* if another plugin's command holds it by then.                           *)
(***************************************************************************)
Says(p, w)  == \E c \in Declared[p] : w \in {c.name} \cup c.aliases
Claims(p, w) ==
    IF System \in Range(BootOrder) /\ Says(System, w)
      THEN p = System
      ELSE \E i \in DOMAIN BootOrder : /\ BootOrder[i] = p /\ Says(p, w)
                                      /\ \A j \in 1..(i - 1) : ~Says(BootOrder[j], w)

\* _current_claims: only names that commands still in the table claim.
Holders(reg, n) == {reg.table[x].plugin : x \in {y \in Names :
                       reg.table[y] # NoCommand /\ n \in Claimed(reg.table[y])}}
Free(reg, p, n) == Holders(reg, n) \subseteq {p}

\* Slip: an alias is kept whoever holds it.
AllAliases(reg, p, c) == {Plain(a) : a \in c.aliases}

KeptAliases(reg, p, c) == {Plain(a) : a \in {b \in c.aliases : Free(reg, p, Plain(b))}}

Resolved(reg, p, kept) ==
    {[plugin  |-> p,
      name    |-> IF c \in kept THEN Plain(c.name) ELSE Dotted(p, c.name),
      aliases |-> KeptAliases(reg, p, c)] : c \in Declared[p]}

AtBoot(reg, p) == Resolved(reg, p, {c \in Declared[p] : Claims(p, c.name)})
Alone(reg, p)  == Resolved(reg, p, {c \in Declared[p] : Free(reg, p, Plain(c.name))})

LoadedAtBoot(reg, p) == Registered(reg, p, AtBoot(reg, p))

Reg == [table |-> commands, owned |-> byPlugin]
Becomes(reg) == commands' = reg.table /\ byPlugin' = reg.owned

Bare == [table |-> [n \in Names |-> NoCommand], owned |-> [p \in Plugins |-> {}]]

CommandsInit ==
    /\ commands = Bare.table /\ byPlugin = Bare.owned
    /\ standing = [p \in Plugins |-> "out"]
    /\ booting = 0
    /\ message = [m \in Messages |-> [at |-> "new", cmd |-> NoCommand,
                                     log |-> << >>, cut |-> FALSE]]

(***************************************************************************)
(* load_enabled() at boot, one plugin of the order after the other and     *)
(* before anything else runs.  A plugin that fails to load may have        *)
(* registered some of its commands already and gives them up.              *)
(***************************************************************************)
Up == booting = Len(BootOrder)

BootPlugin ==
    /\ ~Up
    /\ booting' = booting + 1
    /\ LET p == BootOrder[booting + 1] IN
         \/ /\ Becomes(LoadedAtBoot(Reg, p))
            /\ standing' = [standing EXCEPT ![p] = "loaded"]
         \/ /\ \E tried \in SUBSET AtBoot(Reg, p) :
                  Becomes(Unregistered(Registered(Reg, p, tried), p, {}))
            /\ UNCHANGED standing
    /\ UNCHANGED message

\* A load that fails leaves the registry as it was.
Load(p) ==
    /\ standing[p] = "out"
    /\ Becomes(Registered(Reg, p, Alone(Reg, p)))
    /\ standing' = [standing EXCEPT ![p] = "loaded"]
    /\ UNCHANGED <<booting, message>>

\* unload_plugin(): the plugin leaves PluginManager.loaded at once, its
\* commands only after its own stop() has returned.
BeginUnload(p) ==
    /\ standing[p] = "loaded"
    /\ standing' = [standing EXCEPT ![p] = "closing"]
    /\ UNCHANGED <<commands, byPlugin, booting, message>>

EndUnload(p) ==
    /\ standing[p] = "closing"
    /\ standing' = [standing EXCEPT ![p] = "out"]
    /\ \E first \in SUBSET Foreign(Reg, p) : Becomes(Unregistered(Reg, p, first))
    /\ UNCHANGED <<booting, message>>

(***************************************************************************)
(* handle_bot_event and handle_message.  A rejection is dispatched, by     *)
(* some gates audited, and by some answered; the answer is an await.       *)
(***************************************************************************)
Gates  == {"blocked", "text", "feature", "cooldown", "arguments", "rate"}
Late   == {"rule", "permission", "params"}
Audits == {"blocked", "feature", "rule", "permission", "params"}
Silent == {"blocked", "rule"}

Moves(m, place, cmd, events) ==
    message' = [message EXCEPT ![m] = [at |-> place, cmd |-> cmd,
                                       log |-> @.log \o events, cut |-> @.cut]]

\* Only a group may be told to refuse a disabled feature without an answer.
Rejects(m, c, gate, before) ==
    \E place \in (IF gate \in Silent THEN {"done"}
                  ELSE IF gate = "feature" THEN {"done", "replying"} ELSE {"replying"}) :
       Moves(m, place, c, before \o <<"rejected">>
                                 \o (IF gate \in Audits THEN <<"audit_rejected">> ELSE << >>))

FailsWith == <<"failed", "audit_failed">>

\* Permission, parameters, and the handler up to its first await, where it
\* may raise at once.
Invokes(m, c, before, raises) ==
    IF raises THEN Moves(m, "failing", c, before \o <<"invoked">> \o FailsWith)
              ELSE Moves(m, "handling", c, before \o <<"invoked">>)

\* Ignored by the whitelist, or no command, or an unknown one with or
\* without a hint.
Ignored(m) ==
    /\ message[m].at = "new"
    /\ \E place \in {"done", "replying"} : Moves(m, place, NoCommand, << >>)
    /\ UNCHANGED registry

Arrives(m, n, raises) ==
    /\ message[m].at = "new"
    /\ commands[n] # NoCommand
    /\ \/ \E gate \in Gates \cup (Late \ {"rule"}) : Rejects(m, commands[n], gate, <<"parsed">>)
       \/ Moves(m, "ruling", commands[n], <<"parsed">>)
       \/ Invokes(m, commands[n], <<"parsed">>, raises)
    /\ UNCHANGED registry

\* The rules were awaited; the command is the one looked up before.
Ruled(m, raises) ==
    /\ message[m].at = "ruling"
    /\ \/ \E gate \in Late : Rejects(m, message[m].cmd, gate, << >>)
       \/ Invokes(m, message[m].cmd, << >>, raises)
    /\ UNCHANGED registry

HandlerReturns(m) ==
    /\ message[m].at = "handling"
    /\ Moves(m, "counting", message[m].cmd, << >>)
    /\ UNCHANGED registry

HandlerRaises(m) ==
    /\ message[m].at = "handling"
    /\ Moves(m, "failing", message[m].cmd, FailsWith)
    /\ UNCHANGED registry

\* The statistics row is written or, if the database fails, silently not.
Counted(m) ==
    /\ message[m].at = "counting"
    /\ \E row \in {<< >>, <<"row_success">>} :
          Moves(m, "done", message[m].cmd, row \o <<"audit_invoked">>)
    /\ UNCHANGED registry

FailureCounted(m) ==
    /\ message[m].at = "failing"
    /\ \E row \in {<< >>, <<"row_failure">>} : Moves(m, "excusing", message[m].cmd, row)
    /\ UNCHANGED registry

Replied(m) ==
    /\ message[m].at \in {"replying", "excusing"}
    /\ Moves(m, "done", message[m].cmd, << >>)
    /\ UNCHANGED registry

\* The connection that received the message is stopped, or an answer raises:
\* the exception passes through handle_message at any of its awaits.
Cut(m) ==
    /\ message[m].at \notin {"new", "done"}
    /\ \E row \in {<< >>} \cup (IF message[m].at = "counting" THEN {<<"row_success">>}
                               ELSE IF message[m].at = "failing" THEN {<<"row_failure">>}
                               ELSE {}) :
          message' = [message EXCEPT ![m] = [at |-> "done", cmd |-> @.cmd,
                                             log |-> @.log \o row, cut |-> TRUE]]
    /\ UNCHANGED registry

(***************************************************************************)
(* Properties.                                                             *)
(***************************************************************************)
\* The words that a name can be lost with: those that the system plugin may
\* take from others at boot, and those of any command that has such a word.
Contested ==
    {w \in Words : \A T \in SUBSET Words :
        /\ System \in Range(BootOrder) => \A v \in Words : Says(System, v) => v \in T
        /\ \A p \in Plugins : \A c \in Declared[p] : LET own == {c.name} \cup c.aliases IN
              own \cap T # {} => own \subseteq T
        => w \in T}

(* Nothing leads to a command of a plugin that is out: a message that      *)
(* arrives after an unload never reaches the old handler.                  *)
NoStranger ==
    \A n \in Names : commands[n] # NoCommand => standing[commands[n].plugin] # "out"

(* A plugin keeps every name it was registered under until it is unloaded, *)
(* whatever other plugins load, fail to load and unload.  The exception    *)
(* are contested words: a name that the system plugin takes over at boot   *)
(* stays in the books of its first owner and is lost to all when that one  *)
(* unloads; the aliases of whoever holds it by then go along, and stay in  *)
(* that one's books in turn.                                               *)
NamesKept ==
    \A p \in Plugins : standing[p] # "out" =>
       \A n \in byPlugin[p] :
          commands[n].plugin = p \/ (n[1] = NoPlugin /\ n[2] \in Contested)

RegistryTrue == NoStranger /\ NamesKept

In(m, e) == \E i \in DOMAIN message[m].log : message[m].log[i] = e
Twice(m) == \E i, j \in DOMAIN message[m].log : i # j /\ message[m].log[i] = message[m].log[j]

(* What was recorded of a message that was handled to its end: exactly one *)
(* verdict, one outcome of an invocation, and no row of statistics that    *)
(* contradicts the audit.  A message that was cut short may lack the end,  *)
(* never contradict itself.                                                *)
BooksOf(m) ==
    /\ ~Twice(m)
    /\ In(m, "rejected") => In(m, "parsed") /\ ~In(m, "invoked")
    /\ In(m, "audit_invoked") => In(m, "invoked") /\ ~In(m, "failed")
    /\ In(m, "failed") <=> In(m, "audit_failed")
    /\ In(m, "row_success") => ~In(m, "failed")
    /\ In(m, "row_failure") => In(m, "failed")
    /\ message[m].at = "done" /\ ~message[m].cut =>
          /\ In(m, "parsed") => In(m, "rejected") \/ In(m, "invoked")
          /\ In(m, "invoked") => In(m, "audit_invoked") \/ In(m, "failed")
=============================================================================
