---------------------------- MODULE BrowserPanels ----------------------------
(***************************************************************************)
(* The operator's browser (mission-control/src): the panels of the job that *)
(* is selected (components/JobDetail.jsx), the figures of the wallet        *)
(* (hooks/useWallet.js) and the list of actions (hooks/useActions.js).      *)
(*                                                                          *)
(* Everything shown is the answer to a request made some time before, and   *)
(* answers come in any order.  The requests a selection makes by itself are *)
(* cancelled by the next selection; those of the buttons are not: whatever  *)
(* the operator looks at by then, their answer is shown.                    *)
(***************************************************************************)
EXTENDS Naturals, Sequences, FiniteSets

CONSTANTS
    JobKinds,        \* per job on the list: "v1", "v2" or "prime"
    Nobody,          \* no job, no account
    Accounts,        \* accounts of the wallet
    Ids, UrgentIds,  \* operator actions, and the urgent ones
    MaxSelections, MaxClicks, MaxAsks, MaxPolls    \* bounds

ASSUME BrowserAssumption ==
    /\ MaxSelections \in Nat /\ MaxClicks \in Nat /\ MaxAsks \in Nat /\ MaxPolls \in Nat
    /\ UrgentIds \subseteq Ids /\ Nobody \notin Accounts \cup DOMAIN JobKinds

VARIABLES
    selected,   \* the job in the detail view, or Nobody
    panelOf,    \* per panel: the job whose answer it shows, or Nobody
    busy,       \* panels that say they are loading
    requests,   \* requests of effects on their way: [into, job, live]
    clicked,    \* handlers under way: [handler, job, todo]
    following,  \* a queue transition: the job that is selected when it ends, or Nobody
    opened,     \* the file opened last: the job it is for, and the job selected at the click
    hasty,      \* history variable: another job was selected while a handler was under way
    selections, clicks

detailVars == <<selected, panelOf, busy, requests, clicked, following, opened, hasty, selections, clicks>>

VARIABLES
    chosen,     \* the account the wallet has chosen
    account,    \* the account the browser shows
    figures,    \* per figure: the account it is of, or Nobody
    figureReads,  \* reads of figures on their way: [figure, of]
    accountAsks,  \* answers to eth_accounts on their way
    swapped,    \* history variable: the account was changed while one of these was on its way
    asks

walletVars == <<chosen, account, figures, figureReads, accountAsks, swapped, asks>>

VARIABLES
    listed,     \* the actions on the list
    dismissed,  \* dismissedIds
    filter,     \* which actions the list is to show
    polls,      \* polls on their way: [filter, answer]
    dismissing, \* dismissals on their way
    sweep,      \* dismissAll: the dismissals it still waits for
    pollCount

listVars == <<listed, dismissed, filter, polls, dismissing, sweep, pollCount>>

browserVars == <<detailVars, walletVars, listVars>>

---------------------------------------------------------------------------
(* The detail of a job. *)

(* The panels a selection asks for by itself, and the kinds of job they are *)
(* for.                                                                     *)
EffectKinds ==
    [operatorView |-> {"v1", "v2"}, procArtifacts |-> {"prime"},
     primeTimeline |-> {"prime"}, applyStatus |-> {"v1"}]

Effects == DOMAIN EffectKinds

(* What the buttons ask for: the kinds that have the button, the panels the *)
(* answers go to in turn, those of them that say they are loading           *)
(* meanwhile, and the panels an error of the first clears.                  *)
Button(kinds, fills, loads, clears) == [kinds |-> kinds, fills |-> fills, loads |-> loads, clears |-> clears]

Handler ==
    [validate |-> Button({"v1", "v2", "prime"}, <<"validation">>, {}, {"validation"}),
     prepareApply |-> Button({"v1"}, <<"applyPrepare", "applyStatus">>, {}, {"applyPrepare"}),
     reconcileApply |-> Button({"v1"}, <<"applyStatus">>, {"applyStatus"}, {}),
     prepareValidator |-> Button({"v1"}, <<"validatorPrepare">>, {}, {"validatorPrepare"}),
     decide |-> Button({"v1"}, <<"validatorPrepare">>, {}, {}),
     generatePrime |-> Button({"prime"}, <<"primeAction", "primeTimeline">>, {"primeTimeline"}, {})]

(* The handlers that open the files of the package they prepared, and after *)
(* which answer.                                                            *)
OpensAfter == [prepareApply |-> 2, decide |-> 1, generatePrime |-> 1]

Panels == Effects \cup {"validation", "applyPrepare", "validatorPrepare", "primeAction"}

(* What the first effect empties; the panels of the other effects keep what  *)
(* they show while the answer for the new job is on its way.                *)
Emptied == Panels \ {"operatorView", "procArtifacts"}

KindOf(j) == JobKinds[j]

DetailInit ==
    /\ selected = Nobody
    /\ panelOf = [p \in Panels |-> Nobody]
    /\ busy = {} /\ requests = {} /\ clicked = {}
    /\ following = Nobody
    /\ opened = [of |-> Nobody, at |-> Nobody]
    /\ hasty = FALSE
    /\ selections = 0 /\ clicks = 0

(* The effects of a selection, in order: the reset, then for each panel the  *)
(* clean-up of the request before and a new one, or nothing to show.        *)
Display(j) ==
    LET asked == {p \in Effects : KindOf(j) \in EffectKinds[p]} IN
    /\ j # selected /\ selections < MaxSelections
    /\ selected' = j
    /\ panelOf' = [p \in Panels |-> IF p \in Emptied \cup (Effects \ asked) THEN Nobody ELSE panelOf[p]]
    /\ busy' = asked
    /\ requests' = {[r EXCEPT !.live = FALSE] : r \in requests}
                      \cup {[into |-> p, job |-> j, live |-> TRUE] : p \in asked}
    /\ hasty' = (hasty \/ clicked # {})
    /\ selections' = selections + 1

Select(j) == Display(j) /\ UNCHANGED <<clicked, following, opened, clicks>>

(* Mutant: the answer of a request before is shown. *)
AnswerUncancelled(r, ok) ==
    /\ r \in requests
    /\ requests' = requests \ {r}
    /\ panelOf' = [panelOf EXCEPT ![r.into] = IF ok THEN r.job ELSE Nobody]
    /\ busy' = busy \ {r.into}
    /\ UNCHANGED <<selected, clicked, following, opened, hasty, selections, clicks>>

Answer(r, ok) ==
    /\ r \in requests
    /\ requests' = requests \ {r}
    /\ IF r.live
       THEN /\ panelOf' = [panelOf EXCEPT ![r.into] = IF ok THEN r.job ELSE Nobody]
            /\ busy' = busy \ {r.into}
       ELSE UNCHANGED <<panelOf, busy>>
    /\ UNCHANGED <<selected, clicked, following, opened, hasty, selections, clicks>>

Open(j) == opened' = [of |-> j, at |-> selected]

Loading(h, todo) == Handler[h].loads \cap (IF todo = <<>> THEN {} ELSE {Head(todo)})

(* A decision on a package that is prepared opens its file at once.         *)
Click(h) ==
    /\ selected # Nobody /\ KindOf(selected) \in Handler[h].kinds /\ clicks < MaxClicks
    /\ \A c \in clicked : c.handler # h
    /\ clicks' = clicks + 1
    /\ IF h = "decide" /\ panelOf["validatorPrepare"] # Nobody
       THEN Open(panelOf["validatorPrepare"]) /\ UNCHANGED <<clicked, busy>>
       ELSE /\ clicked' = clicked \cup {[handler |-> h, job |-> selected, todo |-> Handler[h].fills]}
            /\ busy' = busy \cup Loading(h, Handler[h].fills)
            /\ UNCHANGED opened
    /\ UNCHANGED <<selected, panelOf, requests, following, hasty, selections>>

(* An answer to a handler goes to its panel, whatever is selected; an error  *)
(* of the first ends it.  A reconciliation also renews the package shown.    *)
Handled(c, ok) ==
    /\ c \in clicked
    /\ LET step == Len(Handler[c.handler].fills) - Len(c.todo) + 1
           left == IF ok THEN Tail(c.todo) ELSE <<>>
           renewed == {Head(c.todo)} \cup
               (IF c.handler = "reconcileApply" /\ panelOf["applyPrepare"] # Nobody
                THEN {"applyPrepare"} ELSE {})
       IN
       /\ panelOf' = [p \in Panels |->
             IF ok /\ p \in renewed THEN c.job
             ELSE IF ~ok /\ step = 1 /\ p \in Handler[c.handler].clears THEN Nobody
             ELSE panelOf[p]]
       /\ IF /\ c.handler \in DOMAIN OpensAfter /\ OpensAfter[c.handler] = step
             /\ ok \/ step > 1
          THEN Open(c.job) ELSE UNCHANGED opened
       /\ busy' = (busy \ Loading(c.handler, c.todo)) \cup Loading(c.handler, left)
       /\ clicked' = (clicked \ {c}) \cup (IF left = <<>> THEN {} ELSE {[c EXCEPT !.todo = left]})
    /\ UNCHANGED <<selected, requests, following, hasty, selections, clicks>>

(* A row of the queue that is marked selects its job when the lists have     *)
(* been read again.                                                         *)
Mark(j) ==
    /\ following = Nobody
    /\ following' = j
    /\ UNCHANGED <<selected, panelOf, busy, requests, clicked, opened, hasty, selections, clicks>>

Follow ==
    /\ following # Nobody
    /\ \/ Display(following)
       \/ UNCHANGED <<selected, panelOf, busy, requests, hasty, selections>>
    /\ following' = Nobody
    /\ UNCHANGED <<clicked, opened, clicks>>

DetailNext ==
    \/ \E j \in DOMAIN JobKinds : Select(j) \/ Mark(j)
    \/ \E ok \in BOOLEAN : (\E r \in requests : Answer(r, ok)) \/ (\E c \in clicked : Handled(c, ok))
    \/ \E h \in DOMAIN Handler : Click(h)
    \/ Follow

---------------------------------------------------------------------------
(* The wallet. *)

Figures == {"balances", "reputation", "holdings", "ensName"}

WalletInit ==
    /\ chosen \in Accounts \cup {Nobody}
    /\ account = Nobody
    /\ figures = [f \in Figures |-> Nobody]
    /\ figureReads = {} /\ swapped = FALSE
    /\ accountAsks = {chosen} /\ asks = 0

(* accountsChanged, and a click on connect while the account stays. *)
AskAccount(a) ==
    /\ asks < MaxAsks
    /\ asks' = asks + 1
    /\ chosen' = a
    /\ accountAsks' = accountAsks \cup {a}
    /\ swapped' = (swapped \/ (a # chosen /\ (figureReads # {} \/ accountAsks # {})))
    /\ UNCHANGED <<account, figures, figureReads>>

(* refresh: the name is dropped at once, and without an account the rest;   *)
(* the other figures stay until the reads for the new account answer.       *)
TakeAccount(a) ==
    /\ a \in accountAsks
    /\ accountAsks' = accountAsks \ {a}
    /\ account' = a
    /\ figures' = [f \in Figures |-> IF f = "ensName" \/ a = Nobody THEN Nobody ELSE figures[f]]
    /\ figureReads' = figureReads \cup (IF a = Nobody THEN {} ELSE {[figure |-> f, of |-> a] : f \in Figures})
    /\ UNCHANGED <<chosen, swapped, asks>>

(* An error clears what it is about, except for the balances.               *)
TakeFigure(r, ok) ==
    /\ r \in figureReads
    /\ figureReads' = figureReads \ {r}
    /\ figures' = [figures EXCEPT ![r.figure] = IF ok THEN r.of
                                                ELSE IF r.figure = "balances" THEN @ ELSE Nobody]
    /\ UNCHANGED <<chosen, account, accountAsks, swapped, asks>>

WalletNext ==
    \/ \E a \in Accounts \cup {Nobody} : AskAccount(a) \/ TakeAccount(a)
    \/ \E r \in figureReads, ok \in BOOLEAN : TakeFigure(r, ok)

---------------------------------------------------------------------------
(* The list of actions. *)

Filters == {"pending", "urgent", "dismissed"}

Visible(ids, by) ==
    CASE by = "pending" -> ids
      [] by = "urgent" -> ids \cap UrgentIds
      [] by = "dismissed" -> {}

ListInit ==
    /\ listed = {} /\ dismissed = {} /\ filter = "pending"
    /\ polls = {} /\ dismissing = {} /\ sweep = {} /\ pollCount = 0

Ask(by) == \E answer \in SUBSET Ids : polls' = polls \cup {[filter |-> by, answer |-> answer]}

(* The timer. *)
BeginPoll ==
    /\ pollCount < MaxPolls /\ pollCount' = pollCount + 1
    /\ Ask(filter)
    /\ UNCHANGED <<listed, dismissed, filter, dismissing, sweep>>

(* Another filter polls at once; a poll under the former one goes on.       *)
SetFilter(by) ==
    /\ by # filter /\ pollCount < MaxPolls /\ pollCount' = pollCount + 1
    /\ filter' = by /\ Ask(by)
    /\ UNCHANGED <<listed, dismissed, dismissing, sweep>>

(* Mutant: the answer is taken as it comes. *)
TakePollWhole(poll) ==
    /\ poll \in polls
    /\ polls' = polls \ {poll}
    /\ listed' = Visible(poll.answer, poll.filter)
    /\ UNCHANGED <<dismissed, filter, dismissing, sweep, pollCount>>

(* What was dismissed by then is left out. *)
TakePoll(poll) ==
    /\ poll \in polls
    /\ polls' = polls \ {poll}
    /\ listed' = Visible(poll.answer \ dismissed, poll.filter)
    /\ UNCHANGED <<dismissed, filter, dismissing, sweep, pollCount>>

Dismiss(id) ==
    /\ id \in listed
    /\ dismissing' = dismissing \cup {id}
    /\ UNCHANGED <<listed, dismissed, filter, polls, sweep, pollCount>>

Dismissed(id, ok) ==
    /\ id \in dismissing
    /\ dismissing' = dismissing \ {id}
    /\ IF ok THEN dismissed' = dismissed \cup {id} /\ listed' = listed \ {id}
             ELSE UNCHANGED <<dismissed, listed>>
    /\ UNCHANGED <<filter, polls, sweep, pollCount>>

DismissAll ==
    /\ sweep = {} /\ listed # {}
    /\ sweep' = listed
    /\ UNCHANGED <<listed, dismissed, filter, polls, dismissing, pollCount>>

(* Each answer counts as a dismissal, errors too; after the last the list is *)
(* emptied, whatever a poll brought meanwhile.                              *)
Swept(id) ==
    /\ id \in sweep
    /\ dismissed' = dismissed \cup {id}
    /\ sweep' = sweep \ {id}
    /\ listed' = IF sweep' = {} THEN {} ELSE listed
    /\ UNCHANGED <<filter, polls, dismissing, pollCount>>

ListNext ==
    \/ BeginPoll \/ DismissAll
    \/ \E by \in Filters : SetFilter(by)
    \/ \E poll \in polls : TakePoll(poll)
    \/ \E id \in Ids : Dismiss(id) \/ Swept(id) \/ (\E ok \in BOOLEAN : Dismissed(id, ok))

---------------------------------------------------------------------------
BrowserInit == DetailInit /\ WalletInit /\ ListInit

BrowserNext ==
    \/ DetailNext /\ UNCHANGED <<walletVars, listVars>>
    \/ WalletNext /\ UNCHANGED <<detailVars, listVars>>
    \/ ListNext /\ UNCHANGED <<detailVars, walletVars>>

BrowserSpec == BrowserInit /\ [][BrowserNext]_browserVars

(* What the operator signs after a look at the detail view is about the job  *)
(* that is selected: a panel that says it has loaded shows that job or      *)
(* nothing, in whatever order answers come.  For the panels and the files   *)
(* of the buttons only as long as no other job is selected while one of     *)
(* them is at work (the "cancelled" of JobDetail.jsx), and likewise the     *)
(* figures of the wallet are of the account shown; the balances are not,    *)
(* for an error leaves those of the account before.                         *)
SettledIsSelected ==
    /\ \A p \in {"operatorView", "procArtifacts"} \ busy : panelOf[p] \in {Nobody, selected}
    /\ ~hasty => /\ \A p \in Panels \ busy : panelOf[p] \in {Nobody, selected}
                 /\ opened.of = opened.at
    /\ ~swapped /\ accountAsks = {} =>
          /\ account = chosen
          /\ \A f \in Figures \ {"balances"} :
                (\A r \in figureReads : r.figure # f) => figures[f] \in {Nobody, account}

(* A dismissed action does not come back with the answer of a poll that was  *)
(* asked for before it was dismissed (dismissedIds in useActions.js).       *)
DismissedStaysGone == sweep = {} => listed \cap dismissed = {}
=============================================================================
