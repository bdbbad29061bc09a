------------------------------- MODULE Canvas -------------------------------
(***************************************************************************)
(* The live canvas of the desktop window: the tools of                     *)
(* plugins/tools/pywry_canvas.py, PyWryCanvas of acp/canvas.py, which they *)
(* draw with, and the chart controller of acp/canvas_app.py, by which the  *)
(* page answers.  The tools are plain functions: the calls of one answer   *)
(* of the model run in threads, side by side.                              *)
(***************************************************************************)
EXTENDS Naturals

CONSTANTS
    Call,     \* the tool calls of a run
    None

CanvasAssumption == None \notin Call

VARIABLES
    hasFeed,     \* whether the host has a datafeed provider
    bound,       \* the slot of runtime/canvas.py
    offered,     \* whether the run was given the canvas tools
    page,        \* what is on the page, and which call put it there
    datasets,    \* whose bars _tvchart_datasets are
    wired,       \* _tvchart_wired
    handlers,    \* registrations of _on_tvchart_data_request
    feeds,       \* and of the handler of the datafeed
    feed,        \* _tvchart_datafeed_wired
    feedFailed,  \* history: whether wiring it has ever failed
    raced,       \* history: whether two calls have been wiring at once
    mixed,       \* history: whether two calls have shown bars side by side
    controller,  \* whether the chart controller is bound
    waiters,     \* _waiters: the calls an answer of the page is expected for
    call         \* what each call does: the kind of its tool, and where it is

vars == <<hasFeed, bound, offered, page, datasets, wired, handlers, feeds, feed, feedFailed,
          raced, mixed, controller, waiters, call>>
wiring == <<wired, handlers, feeds, feed, feedFailed, raced>>

Content == {"html", "plotly", "clear"}       \* canvas_markdown is like _html, _table like _plotly
Media == {"image", "document"}
Chart == {"tvchart", "symbol"}
Query == {"list_indicators", "get_state"}
Kind == {"content", "clear", "command", "query"} \cup Media \cup Chart
Careless == {"html", "clear", "view"} \cup Query   \* they look at no argument
Wiring == {"wiring", "feeding", "fed", "on", "registered"}
Stage == {"new", "resolve", "render", "stash", "wire", "bind", "frame", "create", "mount", "asked",
          "answered", "raised", "shown", "error", "broken"} \cup Wiring
Ended == {"shown", "error", "raised", "broken"}
Busy(c) == call[c].pc \notin Ended \cup {"new"}

(* The type of every variable; only a call at work has a tool.             *)
TypeOK ==
    /\ hasFeed \in BOOLEAN /\ bound \in BOOLEAN /\ offered \in BOOLEAN
    /\ page \in [kind : {"empty", "other", "frame"} \cup Chart, by : Call \cup {None}]
    /\ datasets \in Call \cup {None}
    /\ wired \in BOOLEAN /\ feed \in BOOLEAN /\ feedFailed \in BOOLEAN
    /\ raced \in BOOLEAN /\ mixed \in BOOLEAN
    /\ handlers \in Nat /\ feeds \in Nat
    /\ controller \in BOOLEAN
    /\ waiters \in SUBSET Call
    /\ call \in [Call -> [tool : Kind \cup {"none"}, pc : Stage]]
    /\ \A c \in Call : Busy(c) <=> call[c].tool # "none"

Init ==
    /\ hasFeed \in BOOLEAN /\ bound = FALSE /\ offered = FALSE
    /\ page = [kind |-> "empty", by |-> None]
    /\ datasets = None
    /\ wired = FALSE /\ handlers = 0 /\ feeds = 0 /\ feed = FALSE /\ feedFailed = FALSE
    /\ raced = FALSE /\ mixed = FALSE
    /\ controller = FALSE
    /\ waiters = {}
    /\ call = [c \in Call |-> [tool |-> "none", pc |-> "new"]]

To(c, pc) ==
    call' = [call EXCEPT ![c] = [tool |-> IF pc \in Ended THEN "none" ELSE @.tool, pc |-> pc]]

-----------------------------------------------------------------------------
(* launch binds the canvas once the window is shown, _teardown takes it    *)
(* away when it has closed.                                                *)
Launch ==
    /\ ~bound /\ ~offered
    /\ bound' = TRUE
    /\ UNCHANGED <<hasFeed, mixed, offered, page, datasets, wiring, controller, waiters, call>>

Teardown ==
    /\ bound
    /\ bound' = FALSE
    /\ UNCHANGED <<hasFeed, mixed, offered, page, datasets, wiring, controller, waiters, call>>

(* PyWryCanvasToolSource.tools: a run has them only if there is a canvas.  *)
Offer ==
    /\ ~offered /\ bound
    /\ offered' = TRUE
    /\ UNCHANGED <<hasFeed, mixed, bound, page, datasets, wiring, controller, waiters, call>>

Begin(c, kind, pc) ==
    /\ offered
    /\ call[c].pc = "new"
    /\ call' = [call EXCEPT ![c] = IF pc = "error" THEN [tool |-> "none", pc |-> pc]
                                   ELSE [tool |-> kind, pc |-> pc]]
    /\ mixed' = (mixed \/ /\ call'[c].tool = "tvchart"
                          /\ \E d \in Call \ {c} : call[d].tool = "tvchart")
    /\ UNCHANGED <<hasFeed, bound, offered, page, datasets, wiring, controller, waiters>>

(* Every tool begins by looking for the canvas, and answers with an error  *)
(* without one, or when its arguments make no sense.                       *)
Refuse(c, tool) == ~bound \/ tool \notin Careless \cup Media

BeginContent(c, tool) ==
    LET kind == IF tool = "clear" THEN "clear" ELSE "content"
    IN  \/ bound /\ Begin(c, kind, "mount")
        \/ Refuse(c, tool) /\ Begin(c, kind, "error")

BeginMedia(c, tool) == Begin(c, tool, IF bound THEN "resolve" ELSE "error")

BeginChart(c) ==
    \/ bound /\ Begin(c, "tvchart", "stash")
    \/ Refuse(c, "tvchart") /\ Begin(c, "tvchart", "error")

BeginSymbol(c) ==
    \/ bound /\ Begin(c, "symbol", "bind")
    \/ Refuse(c, "symbol") /\ Begin(c, "symbol", "error")

(* _tvchart_ctrl: a chart is there when there is a controller.             *)
ChartFound == bound /\ controller

AskChart(c, tool) ==
    LET kind == IF tool \in Query THEN "query" ELSE "command"
    IN  \/ ChartFound /\ Begin(c, kind, "asked")
        \/ (~ChartFound \/ tool \notin Careless) /\ Begin(c, kind, "error")

(* update, stream_bar, add_series, remove_series.                          *)
BeginBars(c) == AskChart(c, "bars")

(* add_indicator, remove_indicator.                                        *)
BeginStudy(c) == AskChart(c, "study")

(* add_volume_profile.                                                     *)
BeginProfile(c) == AskChart(c, "profile")

(* add_markers, add_price_line.                                            *)
BeginMark(c) == AskChart(c, "mark")

(* set_visible_range, fit_content.                                         *)
BeginView(c) == AskChart(c, "view")

(* apply_options.                                                          *)
BeginOptions(c) == AskChart(c, "options")

BeginList(c) == AskChart(c, "list_indicators")

BeginState(c) == AskChart(c, "get_state")

-----------------------------------------------------------------------------
(* _resolve_media: the bytes of an upload, of the arguments or of a file,  *)
(* or a link the page follows; what cannot be resolved, fetched or inlined *)
(* ends the call.                                                          *)
Resolve(c) ==
    /\ call[c].pc = "resolve"
    /\ \E pc \in {"render", "error"} : To(c, pc)
    /\ UNCHANGED <<hasFeed, mixed, bound, offered, page, datasets, wiring, controller, waiters>>

(* A document of a text type is parsed first, and may turn out to be none. *)
Render(c) ==
    /\ call[c].pc = "render"
    /\ \E pc \in {"mount"} \cup (IF call[c].tool = "document" THEN {"error"} ELSE {}) : To(c, pc)
    /\ UNCHANGED <<hasFeed, mixed, bound, offered, page, datasets, wiring, controller, waiters>>

(* One event puts any content on the page, in place of what was there.     *)
Mount(c) ==
    /\ call[c].pc = "mount"
    /\ page' = IF call[c].tool = "clear" THEN [kind |-> "empty", by |-> None]
               ELSE [kind |-> "other", by |-> c]
    /\ To(c, "shown")
    /\ UNCHANGED <<hasFeed, mixed, bound, offered, datasets, wiring, controller, waiters>>

(* An event may not get out, nor a registration: the call ends there.  The *)
(* bundle of the engine is emitted before the wiring, or before the symbol *)
(* is bound.                                                               *)
Breaks(c) ==
    /\ \/ call[c].pc \in {"wire", "on", "frame", "create", "mount"}
       \/ call[c].pc = "bind" /\ call[c].tool = "symbol"
       \/ call[c].pc = "asked" /\ call[c].tool = "command"
    /\ To(c, "broken")
    /\ UNCHANGED <<hasFeed, mixed, bound, offered, page, datasets, wiring, controller, waiters>>

-----------------------------------------------------------------------------
(* show_tvchart keeps its bars for the requests of the page ...            *)
Stash(c) ==
    /\ call[c].pc = "stash"
    /\ datasets' = c
    /\ To(c, "wire")
    /\ UNCHANGED <<hasFeed, mixed, bound, offered, page, wiring, controller, waiters>>

Races(c) == raced \/ \E d \in Call \ {c} : call[d].pc \in Wiring

(* ... and sees to it that they are answered, if nobody has yet.  There    *)
(* is no lock between the look and the registration.                       *)
LookWired(c) ==
    /\ call[c].pc = "wire"
    /\ To(c, IF wired THEN "bind" ELSE "wiring")
    /\ raced' = IF wired THEN raced ELSE Races(c)
    /\ UNCHANGED <<hasFeed, mixed, bound, offered, page, datasets, wired, handlers, feeds, feed,
                   feedFailed, controller, waiters>>

(* show_tvchart_symbol binds the controller first, and always looks for    *)
(* the datafeed.                                                           *)
BindSymbol(c) ==
    /\ call[c].pc = "bind" /\ call[c].tool = "symbol"
    /\ controller' \in {controller, TRUE}
    /\ To(c, "wiring")
    /\ raced' = Races(c)
    /\ UNCHANGED <<hasFeed, mixed, bound, offered, page, datasets, wired, handlers, feeds, feed,
                   feedFailed, waiters>>

Wired(c) == To(c, IF call[c].tool = "tvchart" THEN "bind" ELSE "frame")
Unfed(c) == To(c, IF call[c].tool = "tvchart" THEN "on" ELSE "error")

(* _ensure_datafeed_wired: is there a datafeed, and is it wired?           *)
LookFeed(c) ==
    /\ call[c].pc = "wiring"
    /\ \/ feed /\ wired' = TRUE /\ Wired(c)
       \/ hasFeed /\ ~feed /\ To(c, "feeding") /\ UNCHANGED wired
       \/ ~hasFeed /\ Unfed(c) /\ UNCHANGED wired
    /\ UNCHANGED <<hasFeed, mixed, bound, offered, page, datasets, handlers, feeds, feed,
                   feedFailed, raced, controller, waiters>>

(* It needs the controller.                                                *)
WireFeed(c) ==
    /\ call[c].pc = "feeding"
    /\ feeds' = feeds + 1 /\ controller' = TRUE
    /\ To(c, "fed")
    /\ UNCHANGED <<hasFeed, mixed, bound, offered, page, datasets, wired, handlers, feed,
                   feedFailed, raced, waiters>>

(* That may fail, as the wiring may; a chart of given bars can do without. *)
FeedFails(c) ==
    /\ call[c].pc = "feeding"
    /\ feedFailed' = TRUE
    /\ controller' \in {controller, TRUE}
    /\ Unfed(c)
    /\ UNCHANGED <<hasFeed, mixed, bound, offered, page, datasets, wired, handlers, feeds, feed,
                   raced, waiters>>

(* Mutant: the flag of the datafeed is not set.                            *)
KeepFeed_Forgets(c) ==
    /\ call[c].pc = "fed"
    /\ wired' = TRUE
    /\ Wired(c)
    /\ UNCHANGED <<hasFeed, mixed, bound, offered, page, datasets, handlers, feeds, feed,
                   feedFailed, raced, controller, waiters>>

KeepFeed(c) ==
    /\ call[c].pc = "fed"
    /\ feed' = TRUE /\ wired' = TRUE
    /\ Wired(c)
    /\ UNCHANGED <<hasFeed, mixed, bound, offered, page, datasets, handlers, feeds, feedFailed,
                   raced, controller, waiters>>

(* Without a datafeed the static handler answers.                          *)
Register(c) ==
    /\ call[c].pc = "on"
    /\ handlers' = handlers + 1
    /\ To(c, "registered")
    /\ UNCHANGED <<hasFeed, mixed, bound, offered, page, datasets, wired, feeds, feed, feedFailed,
                   raced, controller, waiters>>

KeepRegistered(c) ==
    /\ call[c].pc = "registered"
    /\ wired' = TRUE
    /\ Wired(c)
    /\ UNCHANGED <<hasFeed, mixed, bound, offered, page, datasets, handlers, feeds, feed,
                   feedFailed, raced, controller, waiters>>

(* _ensure_tvchart_controller; without one the chart is shown, but no tool *)
(* reaches it.                                                             *)
Bind(c) ==
    /\ call[c].pc = "bind" /\ call[c].tool = "tvchart"
    /\ controller' \in {controller, TRUE}
    /\ To(c, "frame")
    /\ UNCHANGED <<hasFeed, mixed, bound, offered, page, datasets, wiring, waiters>>

(* _mount_tvchart_chrome puts a frame on the page ...                      *)
Frame(c) ==
    /\ call[c].pc = "frame"
    /\ page' = [kind |-> "frame", by |-> c]
    /\ To(c, "create")
    /\ UNCHANGED <<hasFeed, mixed, bound, offered, datasets, wiring, controller, waiters>>

(* ... for the chart, which the page draws if a frame is still there.      *)
Create(c) ==
    /\ call[c].pc = "create"
    /\ page' = IF page.kind \in {"frame"} \cup Chart THEN [kind |-> call[c].tool, by |-> c]
               ELSE page
    /\ To(c, "shown")
    /\ UNCHANGED <<hasFeed, mixed, bound, offered, datasets, wiring, controller, waiters>>

-----------------------------------------------------------------------------
(* A command is emitted, whether or not a chart is still there ...         *)
Emit(c) ==
    /\ call[c].pc = "asked" /\ call[c].tool = "command"
    /\ To(c, "shown")
    /\ UNCHANGED <<hasFeed, mixed, bound, offered, page, datasets, wiring, controller, waiters>>

(* ... and a question waits for the answer of the page, with a token of    *)
(* its own, that is there before the question is.                          *)
Ask(c) ==
    /\ call[c].pc = "asked" /\ call[c].tool = "query"
    /\ waiters' = waiters \cup {c}
    /\ To(c, "answered")
    /\ UNCHANGED <<hasFeed, mixed, bound, offered, page, datasets, wiring, controller>>

(* The emit raises: the waiter stays.                                      *)
AskRaises(c) ==
    /\ call[c].pc = "asked" /\ call[c].tool = "query"
    /\ waiters' = waiters \cup {c}
    /\ To(c, "raised")
    /\ UNCHANGED <<hasFeed, mixed, bound, offered, page, datasets, wiring, controller>>

(* Only a chart answers; an answer nobody waits for is dropped.            *)
Answer(c) ==
    /\ call[c].pc = "answered" /\ c \in waiters /\ page.kind \in Chart
    /\ waiters' = waiters \ {c}
    /\ To(c, "shown")
    /\ UNCHANGED <<hasFeed, mixed, bound, offered, page, datasets, wiring, controller>>

TimesOut(c) ==
    /\ call[c].pc = "answered"
    /\ waiters' = waiters \ {c}
    /\ To(c, "error")
    /\ UNCHANGED <<hasFeed, mixed, bound, offered, page, datasets, wiring, controller>>

Next ==
    \/ Launch \/ Teardown \/ Offer
    \/ \E c \in Call :
          \/ \E tool \in Content : BeginContent(c, tool)
          \/ \E tool \in Media : BeginMedia(c, tool)
          \/ BeginChart(c) \/ BeginSymbol(c)
          \/ BeginBars(c) \/ BeginStudy(c) \/ BeginProfile(c) \/ BeginMark(c)
          \/ BeginView(c) \/ BeginOptions(c) \/ BeginList(c) \/ BeginState(c)
          \/ Resolve(c) \/ Render(c) \/ Mount(c) \/ Breaks(c)
          \/ Stash(c) \/ LookWired(c) \/ BindSymbol(c) \/ LookFeed(c)
          \/ WireFeed(c) \/ FeedFails(c) \/ KeepFeed(c) \/ Register(c) \/ KeepRegistered(c)
          \/ Bind(c) \/ Frame(c) \/ Create(c)
          \/ Emit(c) \/ Ask(c) \/ AskRaises(c) \/ Answer(c) \/ TimesOut(c)

Spec == Init /\ [][Next]_vars

-----------------------------------------------------------------------------
(* What a data request of the chart on the page gets: at most one answer,  *)
(* unless two calls have been wiring at once, or the datafeed could only   *)
(* be wired at a later attempt; and from the static handler the bars of    *)
(* this very chart, unless two calls have shown bars side by side, or one  *)
(* with other bars broke off after it.                                     *)
ChartIsAnswered ==
    /\ handlers + feeds > 1 => feedFailed \/ raced
    /\ page.kind = "tvchart" /\ handlers > 0 /\ ~feed /\ ~mixed /\ (\A c \in Call : ~Busy(c)) =>
          datasets = page.by \/ call[datasets].pc = "broken"

(* Whoever waits for the page can be told: its waiter is there until its   *)
(* answer or its timeout, and no longer, unless asking raised.             *)
WaitersAreWaiting ==
    \A c \in Call : (c \in waiters) <=> call[c].pc = "raised" \/ call[c].pc = "answered"
=============================================================================
