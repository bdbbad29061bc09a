--------------------------- MODULE DesktopProofs ---------------------------
(***************************************************************************)
(* The invariants of the desktop window, for any number of turns and any   *)
(* set of tool calls: of Window, the canvas, of Turns, the turns of a chat *)
(* session, and of the two as Desktop.                                     *)
(***************************************************************************)
EXTENDS Desktop, TLAPS

-----------------------------------------------------------------------------
(* Window.  The stages of show_tvchart.                                    *)
Drawn == {"stash", "wire", "bind", "frame", "create"} \cup Window!Wiring

(* What a call does goes with its tool; and two calls neither show bars    *)
(* nor wire side by side unless that has been noted.                       *)
CallsInv ==
    /\ \A c \in Call :
          /\ call[c].pc \in {"stash", "wire", "on", "registered"} => call[c].tool = "tvchart"
          /\ call[c].tool = "tvchart" => call[c].pc \in Drawn
          /\ call[c].pc \in {"bind", "frame", "create"} \cup Window!Wiring =>
                call[c].tool \in Window!Chart
    /\ ~mixed => \A c, d \in Call : call[c].tool = "tvchart" /\ call[d].tool = "tvchart" => c = d
    /\ ~raced => \A c, d \in Call :
                    call[c].pc \in Window!Wiring /\ call[d].pc \in Window!Wiring => c = d

(* The datafeed is one of a host that has it, and the static handler a     *)
(* stand-in for one that failed.                                           *)
StandIn ==
    /\ feed \/ feeds > 0 => hasFeed
    /\ \A c \in Call : call[c].pc \in {"feeding", "fed"} => hasFeed
    /\ hasFeed /\ (handlers > 0 \/ \E c \in Call : call[c].pc \in {"on", "registered"}) =>
          feedFailed

(* One call wires at a time: it registers the datafeed, or without one the *)
(* static handler, once, and sets its flag before the next one looks.      *)
Once ==
    ~raced =>
        /\ hasFeed =>
              /\ feeds <= 1
              /\ feeds = 1 => feed \/ \E c \in Call : call[c].pc = "fed"
              /\ \A c \in Call : call[c].pc = "feeding" => ~feed
        /\ ~hasFeed =>
              /\ handlers <= 1
              /\ handlers = 1 => wired \/ \E c \in Call : call[c].pc = "registered"
              /\ \A c \in Call :
                    call[c].pc = "on" \/ (call[c].pc = "wiring" /\ call[c].tool = "tvchart") =>
                        ~wired

(* The bars are those of the call that shows its chart, and then of the    *)
(* chart on the page, or of a call that broke off.                         *)
BarsInv ==
    ~mixed =>
        /\ \A c \in Call : call[c].tool = "tvchart" /\ call[c].pc # "stash" => datasets = c
        /\ page.kind = "tvchart" =>
              \/ datasets = page.by
              \/ \E c \in Call : call[c].tool = "tvchart" /\ call[c].pc # "stash"
              \/ datasets \in Call /\ call[datasets].pc = "broken"

WindowInv ==
    Window!TypeOK /\ CallsInv /\ StandIn /\ Once /\ BarsInv /\ Window!WaitersAreWaiting

(* Init: nobody has called, and nothing is wired.                          *)
LEMMA WindowStarts == Window!Init => WindowInv
<1> SUFFICES ASSUME Window!Init  PROVE WindowInv
    OBVIOUS
<1> USE DEF Window!Init
<1>1. Window!TypeOK
  <2>1. /\ call \in [Call -> [tool : Window!Kind \cup {"none"}, pc : Window!Stage]]
        /\ \A c \in Call : Window!Busy(c) <=> call[c].tool # "none"
        BY DEF Window!Stage, Window!Busy, Window!Ended
  <2> QED  BY <2>1 DEF Window!TypeOK
<1>2. CallsInv /\ StandIn /\ Once /\ BarsInv /\ Window!WaitersAreWaiting
      BY DEF CallsInv, StandIn, Once, BarsInv, Window!WaitersAreWaiting, Window!Wiring
<1> QED  BY <1>1, <1>2 DEF WindowInv

(* What a call is between two steps.                                       *)
Calls == [tool : Window!Kind \cup {"none"}, pc : Window!Stage]

(* One call moves, to a stage at which it is at work exactly when it has a *)
(* tool.                                                                   *)
LEMMA OneMoves ==
    ASSUME Window!TypeOK, NEW c \in Call, NEW r \in Calls,
           r.pc \notin Window!Ended \cup {"new"} <=> r.tool # "none",
           call' = [call EXCEPT ![c] = r]
    PROVE  /\ call' \in [Call -> Calls]
           /\ \A d \in Call : Window!Busy(d)' <=> call'[d].tool # "none"
           /\ call'[c] = r /\ \A d \in Call \ {c} : call'[d] = call[d]
<1>1. call \in [Call -> Calls] /\ \A d \in Call : Window!Busy(d) <=> call[d].tool # "none"
      BY DEF Window!TypeOK, Calls
<1>2. /\ call' \in [Call -> Calls]
      /\ call'[c] = r /\ \A d \in Call \ {c} : call'[d] = call[d]
      BY <1>1
<1>3. ASSUME NEW d \in Call  PROVE Window!Busy(d)' <=> call'[d].tool # "none"
  <2>1. CASE d = c  BY <1>2, <2>1 DEF Window!Busy
  <2>2. CASE d # c
    <3>1. call'[d] = call[d]  BY <1>2, <2>2
    <3> QED  BY <1>1, <3>1 DEF Window!Busy
  <2> QED  BY <2>1, <2>2
<1> QED  BY <1>2, <1>3

(* ... to the stage pc, keeping its tool until it ends.                    *)
Moved(c, pc) ==
    /\ call' \in [Call -> Calls]
    /\ \A d \in Call : Window!Busy(d)' <=> call'[d].tool # "none"
    /\ call'[c].pc = pc
    /\ call'[c].tool = IF pc \in Window!Ended THEN "none" ELSE call[c].tool
    /\ \A d \in Call \ {c} : call'[d] = call[d]

LEMMA ToMoves ==
    ASSUME Window!TypeOK, NEW c \in Call, Window!Busy(c), NEW pc \in Window!Stage \ {"new"},
           Window!To(c, pc)
    PROVE  Moved(c, pc)
<1> DEFINE r == [tool |-> IF pc \in Window!Ended THEN "none" ELSE call[c].tool, pc |-> pc]
<1>1. call[c] \in Calls /\ call[c].tool # "none"  BY DEF Window!TypeOK, Calls
<1>2. r \in Calls /\ (r.pc \notin Window!Ended \cup {"new"} <=> r.tool # "none")
      BY <1>1 DEF Calls, Window!Ended
<1>3. call' = [call EXCEPT ![c] = r]
      BY DEF Window!To, Window!TypeOK
<1>4. r.pc = pc /\ r.tool = IF pc \in Window!Ended THEN "none" ELSE call[c].tool  OBVIOUS
<1> HIDE DEF r
<1> QED  BY <1>2, <1>3, <1>4, OneMoves DEF Moved

(* The rest of the state has its types.                                    *)
PageOK ==
    /\ hasFeed \in BOOLEAN /\ bound \in BOOLEAN /\ offered \in BOOLEAN
    /\ page \in [kind : {"empty", "other", "frame"} \cup Window!Chart, by : Call \cup {None}]
    /\ datasets \in Call \cup {None}
    /\ waiters \in SUBSET Call
    /\ mixed \in BOOLEAN

WiringOK ==
    /\ wired \in BOOLEAN /\ feed \in BOOLEAN /\ feedFailed \in BOOLEAN
    /\ raced \in BOOLEAN /\ controller \in BOOLEAN
    /\ handlers \in Nat /\ feeds \in Nat

(* ... and with what is known of the calls, those are all the types.       *)
LEMMA WindowTypes ==
    /\ Window!TypeOK => PageOK /\ WiringOK
    /\ /\ PageOK' /\ WiringOK' /\ call' \in [Call -> Calls]
       /\ \A d \in Call : Window!Busy(d)' <=> call'[d].tool # "none"
       => Window!TypeOK'
  BY DEF Window!TypeOK, PageOK, WiringOK, Calls

(* launch, _teardown and the offer of the tools leave the calls alone.     *)
LEMMA WindowOpens ==
    ASSUME WindowInv, Window!Launch \/ Window!Teardown \/ Window!Offer \/ UNCHANGED drawing
    PROVE  WindowInv'
<1>1. /\ UNCHANGED <<hasFeed, mixed, page, datasets, wired, handlers, feeds, feed, feedFailed,
                     raced, controller, waiters, call>>
      /\ bound' \in BOOLEAN /\ offered' \in BOOLEAN
      BY DEF WindowInv, Window!TypeOK, Window!Launch, Window!Teardown, Window!Offer, drawing,
             Window!wiring
<1>2. Window!TypeOK'  BY <1>1 DEF WindowInv, Window!TypeOK, Window!Busy
<1>3. CallsInv' /\ StandIn' /\ Once' /\ BarsInv' /\ Window!WaitersAreWaiting'
      BY <1>1 DEF WindowInv, CallsInv, StandIn, Once, BarsInv, Window!WaitersAreWaiting
<1> QED  BY <1>2, <1>3 DEF WindowInv

(* The first stages of the tools.                                          *)
First == {"mount", "error", "resolve", "stash", "bind", "asked"}

(* A tool begins, at one of them.                                          *)
Starts(kind, pc) ==
    /\ pc = "stash" => kind = "tvchart"
    /\ pc = "bind" => kind = "symbol"
    /\ kind = "tvchart" => pc \in {"stash", "error"}

LEMMA BeginKeeps ==
    ASSUME WindowInv, NEW c \in Call, NEW kind \in Window!Kind, NEW pc \in First,
           Starts(kind, pc), Window!Begin(c, kind, pc)
    PROVE  WindowInv'
<1> DEFINE r == IF pc = "error" THEN [tool |-> "none", pc |-> pc] ELSE [tool |-> kind, pc |-> pc]
<1>1. /\ call[c].pc = "new" /\ call' = [call EXCEPT ![c] = r]
      /\ mixed' = (mixed \/ /\ call'[c].tool = "tvchart"
                            /\ \E d \in Call \ {c} : call[d].tool = "tvchart")
      /\ UNCHANGED <<hasFeed, bound, offered, page, datasets, wired, handlers, feeds, feed,
                     feedFailed, raced, controller, waiters>>
      BY DEF Window!Begin, Window!wiring
<1>2. kind # "none"  BY DEF Window!Kind, Window!Media, Window!Chart
<1>3. /\ r \in Calls /\ (r.pc \notin Window!Ended \cup {"new"} <=> r.tool # "none")
      /\ r.pc = pc /\ r.tool = IF pc = "error" THEN "none" ELSE kind
  <2>1. CASE pc = "error"
    <3>1. r = [tool |-> "none", pc |-> pc]  BY <2>1
    <3> HIDE DEF r
    <3> QED  BY <2>1, <3>1 DEF Calls, Window!Ended, Window!Stage
  <2>2. CASE pc # "error"
    <3>1. r = [tool |-> kind, pc |-> pc]  BY <2>2
    <3> HIDE DEF r
    <3> QED  BY <1>2, <2>2, <3>1 DEF Calls, First, Window!Ended, Window!Stage
  <2> QED  BY <2>1, <2>2
<1> HIDE DEF r
<1>4. /\ call' \in [Call -> Calls]
      /\ \A d \in Call : Window!Busy(d)' <=> call'[d].tool # "none"
      /\ call'[c].pc = pc /\ call'[c].tool = IF pc = "error" THEN "none" ELSE kind
      /\ \A d \in Call \ {c} : call'[d] = call[d]
      BY <1>1, <1>3, OneMoves DEF WindowInv
<1>5. call[c].tool = "none"
      BY <1>1 DEF WindowInv, Window!TypeOK, Window!Busy
<1>6. PageOK' /\ WiringOK' /\ (mixed => mixed')
      BY <1>1, WindowTypes DEF WindowInv, PageOK, WiringOK
<1>7. ~mixed' => \A d, e \in Call : call'[d].tool = "tvchart" /\ call'[e].tool = "tvchart" => d = e
      BY <1>1, <1>4 DEF WindowInv, CallsInv
<1>8. pc \notin Window!Wiring  BY DEF First, Window!Wiring
<1>9. CallsInv'
  <2>1. \A d \in Call :
          /\ call'[d].pc \in {"stash", "wire", "on", "registered"} => call'[d].tool = "tvchart"
          /\ call'[d].tool = "tvchart" => call'[d].pc \in Drawn
          /\ call'[d].pc \in {"bind", "frame", "create"} \cup Window!Wiring =>
                call'[d].tool \in Window!Chart
        BY <1>4, <1>8 DEF WindowInv, CallsInv, First, Starts, Drawn, Window!Chart
  <2>2. ~raced' => \A d, e \in Call :
                    call'[d].pc \in Window!Wiring /\ call'[e].pc \in Window!Wiring => d = e
        BY <1>1, <1>4, <1>8 DEF WindowInv, CallsInv
  <2> QED  BY <1>7, <2>1, <2>2 DEF CallsInv
<1>10. StandIn' /\ Once'
  <2>1. pc \notin {"feeding", "fed", "on", "registered", "wiring"}  BY DEF First
  <2>2. StandIn'  BY <1>1, <1>4, <2>1 DEF WindowInv, StandIn
  <2>3. Once'  BY <1>1, <1>4, <2>1 DEF WindowInv, Once
  <2> QED  BY <2>2, <2>3
<1>11. BarsInv'
       BY <1>1, <1>4, <1>5, <1>6 DEF WindowInv, BarsInv, Starts
<1>12. Window!WaitersAreWaiting'
       BY <1>1, <1>4 DEF WindowInv, Window!WaitersAreWaiting, First
<1> QED  BY <1>4, <1>6, <1>9, <1>10, <1>11, <1>12, WindowTypes DEF WindowInv

(* ... as every tool does.                                                 *)
LEMMA ToolsBegin ==
    ASSUME WindowInv, NEW c \in Call,
           \/ \E tool \in Window!Content : Window!BeginContent(c, tool)
           \/ \E tool \in Window!Media : Window!BeginMedia(c, tool)
           \/ Window!BeginChart(c) \/ Window!BeginSymbol(c)
           \/ Window!BeginBars(c) \/ Window!BeginStudy(c) \/ Window!BeginProfile(c)
           \/ Window!BeginMark(c) \/ Window!BeginView(c) \/ Window!BeginOptions(c)
           \/ Window!BeginList(c) \/ Window!BeginState(c)
    PROVE  WindowInv'
<1>1. PICK kind \in Window!Kind, pc \in First : Window!Begin(c, kind, pc) /\ Starts(kind, pc)
  <2> USE DEF First, Starts
  <2>1. ASSUME NEW tool \in Window!Content, Window!BeginContent(c, tool)
        PROVE  \E kind \in {"content", "clear"}, pc \in {"mount", "error"} :
                    Window!Begin(c, kind, pc)
        BY <2>1 DEF Window!BeginContent
  <2>2. ASSUME NEW tool \in Window!Media, Window!BeginMedia(c, tool)
        PROVE  \E pc \in {"resolve", "error"} : Window!Begin(c, tool, pc)
        BY <2>2 DEF Window!BeginMedia
  <2>3. ASSUME Window!BeginChart(c)
        PROVE  \E pc \in {"stash", "error"} : Window!Begin(c, "tvchart", pc)
        BY <2>3 DEF Window!BeginChart
  <2>4. ASSUME Window!BeginSymbol(c)
        PROVE  \E pc \in {"bind", "error"} : Window!Begin(c, "symbol", pc)
        BY <2>4 DEF Window!BeginSymbol
  <2>5. ASSUME NEW tool, Window!AskChart(c, tool)
        PROVE  \E kind \in {"query", "command"}, pc \in {"asked", "error"} :
                    Window!Begin(c, kind, pc)
        BY <2>5 DEF Window!AskChart
  <2>6. \/ \E tool \in Window!Content : Window!BeginContent(c, tool)
        \/ \E tool \in Window!Media : Window!BeginMedia(c, tool)
        \/ Window!BeginChart(c) \/ Window!BeginSymbol(c)
        \/ \E tool \in Window!Query \cup {"bars", "study", "profile", "mark", "view", "options"} :
              Window!AskChart(c, tool)
        BY DEF Window!BeginBars, Window!BeginStudy, Window!BeginProfile, Window!BeginMark,
               Window!BeginView, Window!BeginOptions, Window!BeginList, Window!BeginState,
               Window!Query
  <2>7. {"content", "clear", "tvchart", "symbol", "query", "command"} \cup Window!Media
          \subseteq Window!Kind
        BY DEF Window!Kind, Window!Chart
  <2>8. \A tool \in Window!Media : tool # "tvchart"  BY DEF Window!Media
  <2> QED  BY <2>1, <2>2, <2>3, <2>4, <2>5, <2>6, <2>7, <2>8
<1> QED  BY <1>1, BeginKeeps

(* A call at work moves on: what it needs for the invariant of the calls.  *)
LEMMA CallMoves ==
    ASSUME WindowInv, NEW c \in Call, call[c].pc \in Window!Stage \ (Window!Ended \cup {"new"}),
           NEW pc \in Window!Stage \ {"new"}, Window!To(c, pc),
           pc \in {"stash", "wire", "on", "registered"} => call[c].tool = "tvchart",
           call[c].tool = "tvchart" => pc \in Drawn \cup Window!Ended,
           pc \in {"bind", "frame", "create"} \cup Window!Wiring => call[c].tool \in Window!Chart,
           pc \in Window!Wiring =>
               call[c].pc \in Window!Wiring \/ raced' \/ (\A d \in Call \ {c} : call[d].pc \notin Window!Wiring),
           raced => raced', mixed' = mixed
    PROVE  Moved(c, pc) /\ CallsInv'
<1>1. Moved(c, pc)  BY ToMoves DEF WindowInv, Window!Busy
<1>2. pc \in {"bind", "frame", "create", "stash", "wire"} \cup Window!Wiring => pc \notin Window!Ended
      BY DEF Window!Wiring, Window!Ended
<1>3. \A d \in Call :
          /\ call'[d].pc \in {"stash", "wire", "on", "registered"} => call'[d].tool = "tvchart"
          /\ call'[d].tool = "tvchart" => call'[d].pc \in Drawn
          /\ call'[d].pc \in {"bind", "frame", "create"} \cup Window!Wiring =>
                call'[d].tool \in Window!Chart
  <2>1. {"on", "registered"} \subseteq Window!Wiring  BY DEF Window!Wiring
  <2> QED  BY <1>1, <1>2, <2>1 DEF WindowInv, CallsInv, Moved
<1>4. ~mixed' => \A d, e \in Call : call'[d].tool = "tvchart" /\ call'[e].tool = "tvchart" => d = e
  <2>1. \A d \in Call : call'[d].tool = "tvchart" => call[d].tool = "tvchart"
        BY <1>1 DEF Moved
  <2> QED  BY <2>1 DEF WindowInv, CallsInv
<1>5. ~raced' => \A d, e \in Call :
                    call'[d].pc \in Window!Wiring /\ call'[e].pc \in Window!Wiring => d = e
      BY <1>1 DEF WindowInv, CallsInv, Moved
<1> QED  BY <1>1, <1>3, <1>4, <1>5 DEF CallsInv

(* The wiring stays as it is when a call moves outside of it.              *)
LEMMA WiringStays ==
    ASSUME WindowInv, NEW c \in Call, NEW pc, Moved(c, pc),
           call[c].pc \notin Window!Wiring \ {"on"}, pc \notin Window!Wiring,
           UNCHANGED <<hasFeed, wired, handlers, feeds, feed, feedFailed, raced>>
    PROVE  StandIn' /\ Once'
<1>1. pc \notin {"feeding", "fed", "on", "registered", "wiring"}  BY DEF Window!Wiring
<1>2. call[c].pc \notin {"feeding", "fed", "registered", "wiring"}  BY DEF Window!Wiring
<1>3. \A d \in Call \ {c} : call'[d] = call[d]  BY DEF Moved
<1>4. call'[c].pc = pc  BY DEF Moved
<1>5. StandIn'  BY <1>1, <1>3, <1>4 DEF WindowInv, StandIn
<1>6. Once'  BY <1>1, <1>2, <1>3, <1>4 DEF WindowInv, Once
<1> QED  BY <1>5, <1>6

(* ... and the bars and the waiters, when it neither shows them nor ends.  *)
LEMMA BarsStay ==
    ASSUME WindowInv, NEW c \in Call, NEW pc, Moved(c, pc),
           call[c].tool = "tvchart" => call[c].pc # "stash",
           pc \in Window!Ended \ {"broken"} => call[c].tool # "tvchart",
           call[c].pc \notin {"answered", "raised", "broken"}, pc \notin {"answered", "raised", "stash"},
           UNCHANGED <<page, datasets, waiters, mixed>>
    PROVE  BarsInv' /\ Window!WaitersAreWaiting'
<1>1. Window!WaitersAreWaiting'
      BY DEF WindowInv, Window!WaitersAreWaiting, Moved
<1>2. BarsInv'
  <2> SUFFICES ASSUME ~mixed'  PROVE BarsInv'
      BY DEF BarsInv
  <2>1. ~mixed  OBVIOUS
  <2>2. \A d \in Call : call'[d].tool = "tvchart" => call[d].tool = "tvchart"  BY DEF Moved
  <2>3. \A d \in Call : call'[d].tool = "tvchart" /\ call'[d].pc # "stash" => datasets' = d
        BY <2>1, <2>2 DEF WindowInv, BarsInv, Moved
  <2>4. ASSUME page'.kind = "tvchart", ~ datasets' = page'.by
        PROVE  \/ \E d \in Call : call'[d].tool = "tvchart" /\ call'[d].pc # "stash"
               \/ datasets' \in Call /\ call'[datasets'].pc = "broken"
    <3>1. CASE datasets \in Call /\ call[datasets].pc = "broken"
      <4>1. datasets # c  BY <3>1
      <4> QED  BY <3>1, <4>1 DEF Moved
    <3>2. ASSUME NEW d \in Call, call[d].tool = "tvchart", call[d].pc # "stash"
          PROVE  \/ \E e \in Call : call'[e].tool = "tvchart" /\ call'[e].pc # "stash"
                 \/ datasets' \in Call /\ call'[datasets'].pc = "broken"
      <4>1. CASE d # c  BY <3>2, <4>1 DEF Moved
      <4>2. CASE d = c
        <5>1. datasets = c  BY <2>1, <3>2, <4>2 DEF WindowInv, BarsInv
        <5>2. CASE pc \in Window!Ended
          <6>1. pc = "broken"  BY <3>2, <4>2, <5>2
          <6> QED  BY <5>1, <6>1 DEF Moved
        <5>3. CASE pc \notin Window!Ended
          BY <3>2, <4>2, <5>3 DEF Moved
        <5> QED  BY <5>2, <5>3
      <4> QED  BY <4>1, <4>2
    <3> QED  BY <2>1, <2>4, <3>1, <3>2 DEF WindowInv, BarsInv
  <2> QED  BY <2>3, <2>4 DEF BarsInv
<1> QED  BY <1>1, <1>2

(* What a call does outside of the wiring, with nothing on the page: media *)
(* is fetched and rendered, a command is emitted, the controller is bound, *)
(* show_tvchart looks whether it is wired, and anything may break off.     *)
LEMMA CallGoesOn ==
    ASSUME WindowInv, NEW c \in Call,
           \/ Window!Resolve(c) \/ Window!Render(c) \/ Window!Breaks(c) \/ Window!Bind(c)
           \/ Window!Emit(c)
    PROVE  WindowInv'
<1>1. PICK pc \in {"render", "mount", "error", "frame", "shown", "broken"} :
         /\ Window!To(c, pc)
         /\ pc = "frame" => call[c].tool = "tvchart"
         /\ pc \in {"render", "mount", "error", "shown"} =>
               call[c].pc \in {"resolve", "render", "asked"}
      BY DEF Window!Resolve, Window!Render, Window!Breaks, Window!Bind, Window!Emit
<1>2. /\ call[c].pc \in {"resolve", "render", "wire", "on", "frame", "create", "mount", "bind", "asked"}
      /\ UNCHANGED <<hasFeed, mixed, bound, offered, page, datasets, wired, handlers, feeds, feed,
                     feedFailed, raced, waiters>>
      BY DEF Window!Resolve, Window!Render, Window!Breaks, Window!Bind, Window!Emit, Window!wiring
<1>3. controller' \in {controller, TRUE}
      BY DEF Window!Resolve, Window!Render, Window!Breaks, Window!Bind, Window!Emit
<1>4. /\ call[c].pc \in Window!Stage \ (Window!Ended \cup {"new"}) /\ pc \in Window!Stage \ {"new"}
      /\ pc \notin Window!Wiring /\ call[c].pc \notin Window!Wiring \ {"on"}
      BY <1>1, <1>2 DEF Window!Stage, Window!Ended, Window!Wiring
<1>5. pc \in {"render", "mount", "error", "shown"} => call[c].tool # "tvchart"
      BY <1>1 DEF WindowInv, CallsInv, Drawn, Window!Wiring
<1>6. Moved(c, pc) /\ CallsInv'
  <2>1. call[c].tool = "tvchart" => pc \in Drawn \cup Window!Ended
        BY <1>1, <1>5 DEF Drawn, Window!Ended
  <2>2. pc = "frame" => call[c].tool \in Window!Chart  BY <1>1 DEF Window!Chart
  <2> QED  BY <1>1, <1>2, <1>4, <2>1, <2>2, CallMoves
<1>7. StandIn' /\ Once'  BY <1>2, <1>4, <1>6, WiringStays
<1>8. BarsInv' /\ Window!WaitersAreWaiting'
      BY <1>1, <1>2, <1>5, <1>6, BarsStay DEF Window!Ended
<1>9. PageOK' /\ WiringOK'
  <2>1. PageOK /\ WiringOK  BY WindowTypes DEF WindowInv
  <2>2. controller' \in BOOLEAN  BY <1>3, <2>1 DEF WiringOK
  <2>3. PageOK'  BY <1>2, <2>1 DEF PageOK
  <2>4. WiringOK'  BY <1>2, <2>1, <2>2 DEF WiringOK
  <2> QED  BY <2>3, <2>4
<1>10. Window!TypeOK'  BY <1>6, <1>9, WindowTypes DEF Moved
<1> QED  BY <1>6, <1>7, <1>8, <1>10 DEF WindowInv

(* Mount, Frame and Create: a chart comes with its bars.                   *)
LEMMA PageChanges ==
    ASSUME WindowInv, NEW c \in Call, Window!Mount(c) \/ Window!Frame(c) \/ Window!Create(c)
    PROVE  WindowInv'
<1>1. PICK pc \in {"create", "shown"} :
         /\ Window!To(c, pc) /\ (pc = "create" <=> call[c].pc = "frame")
         /\ call[c].pc \in {"mount", "frame", "create"}
      BY DEF Window!Mount, Window!Frame, Window!Create
<1>2. UNCHANGED <<hasFeed, mixed, bound, offered, datasets, wired, handlers, feeds, feed,
                  feedFailed, raced, controller, waiters>>
      BY DEF Window!Mount, Window!Frame, Window!Create, Window!wiring
<1>3. call[c].pc \in {"frame", "create"} => call[c].tool \in {"tvchart", "symbol"}
      BY DEF WindowInv, CallsInv, Window!Chart
<1>4. call[c].pc = "mount" => call[c].tool # "tvchart"
      BY DEF WindowInv, CallsInv, Drawn, Window!Wiring
<1>5. /\ page' \in [kind : {"empty", "other", "frame"} \cup Window!Chart, by : Call \cup {None}]
      /\ page'.kind = "tvchart" => \/ call[c].tool = "tvchart" /\ page'.by = c
                                   \/ page' = page /\ call[c].tool # "tvchart"
      /\ call[c].tool = "tvchart" /\ pc = "shown" => page'.kind # "tvchart" \/ page'.by = c
  <2>1. page \in [kind : {"empty", "other", "frame"} \cup Window!Chart, by : Call \cup {None}]
        BY WindowTypes DEF WindowInv, PageOK
  <2>2. CASE Window!Mount(c)
    <3>1. page' = [kind |-> "empty", by |-> None] \/ page' = [kind |-> "other", by |-> c]
          BY <2>2 DEF Window!Mount
    <3> QED  BY <3>1
  <2>3. CASE Window!Frame(c)
    <3>1. page' = [kind |-> "frame", by |-> c]  BY <2>3 DEF Window!Frame
    <3> QED  BY <3>1
  <2>4. CASE Window!Create(c)
    <3>1. \/ page' = [kind |-> call[c].tool, by |-> c]
          \/ page' = page /\ page.kind \notin {"frame"} \cup Window!Chart
          BY <2>4 DEF Window!Create
    <3>2. call[c].tool \in {"tvchart", "symbol"}  BY <1>3, <2>4 DEF Window!Create
    <3> QED  BY <2>1, <3>1, <3>2 DEF Window!Chart
  <2> QED  BY <2>2, <2>3, <2>4
<1>6. /\ call[c].pc \in Window!Stage \ (Window!Ended \cup {"new"}) /\ pc \in Window!Stage \ {"new"}
      /\ pc \notin Window!Wiring /\ call[c].pc \notin Window!Wiring \ {"on"}
      BY <1>1 DEF Window!Stage, Window!Ended, Window!Wiring
<1>7. Moved(c, pc) /\ CallsInv'
  <2>1. pc \in Drawn \cup Window!Ended /\ (pc = "create" => call[c].tool \in Window!Chart)
        BY <1>1, <1>3 DEF Drawn, Window!Ended, Window!Chart
  <2> QED  BY <1>1, <1>2, <1>6, <2>1, CallMoves
<1>8. StandIn' /\ Once'  BY <1>2, <1>6, <1>7, WiringStays
<1>9. BarsInv'
  <2> SUFFICES ASSUME ~mixed'  PROVE BarsInv'
      BY DEF BarsInv
  <2>1. ~mixed  BY <1>2
  <2>2. \A d \in Call : call'[d].tool = "tvchart" => call[d].tool = "tvchart"  BY <1>7 DEF Moved
  <2>3. \A d \in Call : call'[d].tool = "tvchart" /\ call'[d].pc # "stash" => datasets' = d
        BY <1>1, <1>2, <1>7, <2>1, <2>2 DEF WindowInv, BarsInv, Moved
  <2>4. ASSUME page'.kind = "tvchart", ~ datasets' = page'.by
        PROVE  \/ \E d \in Call : call'[d].tool = "tvchart" /\ call'[d].pc # "stash"
               \/ datasets' \in Call /\ call'[datasets'].pc = "broken"
    <3>1. call[c].tool = "tvchart" => datasets = c
          BY <1>1, <2>1 DEF WindowInv, BarsInv
    <3>2. page' = page /\ call[c].tool # "tvchart"  BY <1>2, <1>5, <2>4, <3>1
    <3>3. call[c].pc # "broken"  BY <1>1
    <3> QED  BY <1>2, <1>7, <2>1, <2>4, <3>2, <3>3 DEF WindowInv, BarsInv, Moved
  <2> QED  BY <2>3, <2>4 DEF BarsInv
<1>10. Window!WaitersAreWaiting'
      BY <1>1, <1>2, <1>7 DEF WindowInv, Window!WaitersAreWaiting, Moved
<1>11. PageOK' /\ WiringOK'
      BY <1>2, <1>5, WindowTypes DEF WindowInv, PageOK, WiringOK
<1> QED  BY <1>7, <1>8, <1>9, <1>10, <1>11, WindowTypes DEF WindowInv, Moved

(* Stash: the bars are of the one call that shows a chart.                 *)
LEMMA BarsChange ==
    ASSUME WindowInv, NEW c \in Call, Window!Stash(c)
    PROVE  WindowInv'
<1>1. /\ call[c].pc = "stash" /\ datasets' = c /\ Window!To(c, "wire")
      /\ UNCHANGED <<hasFeed, mixed, bound, offered, page, wired, handlers, feeds, feed,
                     feedFailed, raced, controller, waiters>>
      BY DEF Window!Stash, Window!wiring
<1>2. call[c].tool = "tvchart"  BY <1>1 DEF WindowInv, CallsInv
<1>3. /\ call[c].pc \in Window!Stage \ (Window!Ended \cup {"new"}) /\ "wire" \in Window!Stage \ {"new"}
      /\ "wire" \notin Window!Wiring /\ call[c].pc \notin Window!Wiring \ {"on"}
      /\ "wire" \in Drawn /\ "wire" \notin Window!Ended
      BY <1>1 DEF Window!Stage, Window!Ended, Window!Wiring, Drawn
<1>4. Moved(c, "wire") /\ CallsInv'  BY <1>1, <1>2, <1>3, CallMoves
<1>5. StandIn' /\ Once'  BY <1>1, <1>3, <1>4, WiringStays
<1>6. BarsInv'
  <2>1. ~mixed => \A d \in Call \ {c} : call'[d].tool # "tvchart"
        BY <1>2, <1>4 DEF WindowInv, CallsInv, Moved
  <2>2. call'[c].tool = "tvchart" /\ call'[c].pc # "stash"
        BY <1>2, <1>3, <1>4 DEF Moved
  <2> QED  BY <1>1, <2>1, <2>2 DEF BarsInv
<1>7. Window!WaitersAreWaiting'
      BY <1>1, <1>4 DEF WindowInv, Window!WaitersAreWaiting, Moved
<1>8. PageOK' /\ WiringOK'
      BY <1>1, WindowTypes DEF WindowInv, PageOK, WiringOK
<1> QED  BY <1>4, <1>5, <1>6, <1>7, <1>8, WindowTypes DEF WindowInv, Moved

(* _ensure_tvchart_wired, _ensure_datafeed_wired and the controller: a     *)
(* call that wires moves on, and so do the calls and the bars.             *)
LEMMA CallWires ==
    ASSUME WindowInv, NEW c \in Call,
           NEW pc \in {"wiring", "feeding", "fed", "on", "registered", "bind", "frame", "error"},
           Window!To(c, pc),
           call[c].pc \in {"wire", "bind"} \cup Window!Wiring,
           pc \in {"on", "registered"} => call[c].tool = "tvchart",
           pc = "error" => call[c].tool # "tvchart",
           pc \in Window!Wiring => call[c].pc \in Window!Wiring \/ raced' = Window!Races(c),
           raced => raced',
           UNCHANGED <<hasFeed, mixed, bound, offered, page, datasets, waiters>>
    PROVE  Moved(c, pc) /\ CallsInv' /\ BarsInv' /\ Window!WaitersAreWaiting' /\ PageOK'
<1>1. call[c].pc \in {"wire", "bind", "wiring", "feeding", "fed", "on", "registered"}
      BY DEF Window!Wiring
<1>2. /\ call[c].pc \in Window!Stage \ (Window!Ended \cup {"new"})
      /\ pc \in Window!Stage \ {"new"}
      BY <1>1 DEF Window!Stage, Window!Ended, Window!Wiring
<1>3. call[c].tool \in Window!Chart
      BY <1>1 DEF WindowInv, CallsInv, Window!Chart, Window!Wiring
<1>4. Moved(c, pc) /\ CallsInv'
  <2>1. call[c].tool = "tvchart" => pc \in Drawn \cup Window!Ended
        BY DEF Drawn, Window!Wiring, Window!Ended
  <2>2. pc \in Window!Wiring =>
            \/ call[c].pc \in Window!Wiring \/ raced'
            \/ \A d \in Call \ {c} : call[d].pc \notin Window!Wiring
        BY DEF Window!Races
  <2> QED  BY <1>2, <1>3, <2>1, <2>2, CallMoves
<1>5. BarsInv' /\ Window!WaitersAreWaiting'
      BY <1>1, <1>4, BarsStay DEF Window!Ended
<1>6. PageOK'  BY WindowTypes DEF WindowInv, PageOK
<1> QED  BY <1>4, <1>5, <1>6

(* The looks: what they find is so until the flag is set, unless two are   *)
(* wiring at once.                                                         *)
LEMMA WiringBegins ==
    ASSUME WindowInv, NEW c \in Call, Window!LookWired(c) \/ Window!BindSymbol(c)
    PROVE  WindowInv'
<1>1. PICK pc \in {"wiring", "bind"} :
         /\ Window!To(c, pc)
         /\ pc = "wiring" => raced' = Window!Races(c)
         /\ pc = "bind" => raced' = raced
         /\ pc = "wiring" /\ call[c].tool = "tvchart" => ~wired
      BY DEF Window!LookWired, Window!BindSymbol
<1>2. /\ call[c].pc \in {"wire", "bind"} /\ controller' \in {controller, TRUE}
      /\ UNCHANGED <<hasFeed, mixed, bound, offered, page, datasets, wired, handlers, feeds, feed,
                     feedFailed, waiters>>
      BY DEF Window!LookWired, Window!BindSymbol
<1>3. raced' \in BOOLEAN /\ (raced => raced')
  <2>1. raced \in BOOLEAN  BY WindowTypes DEF WindowInv, WiringOK
  <2>2. Window!Races(c) \in BOOLEAN /\ (raced => Window!Races(c))  BY <2>1 DEF Window!Races
  <2> QED  BY <1>1, <2>1, <2>2
<1>4. Moved(c, pc) /\ CallsInv' /\ BarsInv' /\ Window!WaitersAreWaiting' /\ PageOK'
  <2>1. pc = "wiring" \/ pc \notin Window!Wiring  BY DEF Window!Wiring
  <2> QED  BY <1>1, <1>2, <1>3, <2>1, CallWires
<1>5. WiringOK'  BY <1>2, <1>3, WindowTypes DEF WindowInv, WiringOK
<1>6. pc \notin Window!Ended  BY DEF Window!Ended
<1>7. StandIn'  BY <1>2, <1>4 DEF WindowInv, StandIn, Moved
<1>8. Once'
      BY <1>1, <1>2, <1>3, <1>4, <1>6 DEF WindowInv, Once, Moved
<1> QED  BY <1>4, <1>5, <1>7, <1>8, WindowTypes DEF WindowInv, Moved

LEMMA FeedIsLooked ==
    ASSUME WindowInv, NEW c \in Call, Window!LookFeed(c)
    PROVE  WindowInv'
<1>1. PICK pc \in {"bind", "frame", "feeding", "on", "error"} :
         /\ Window!To(c, pc)
         /\ pc \in {"bind", "frame"} => feed /\ wired' = TRUE
         /\ pc \notin {"bind", "frame"} => wired' = wired
         /\ pc = "feeding" => hasFeed /\ ~feed
         /\ pc \in {"on", "error"} => ~hasFeed
         /\ pc = "on" => call[c].tool = "tvchart"
         /\ pc = "error" => call[c].tool # "tvchart"
      BY DEF Window!LookFeed, Window!Wired, Window!Unfed
<1>2. /\ call[c].pc = "wiring"
      /\ UNCHANGED <<hasFeed, mixed, bound, offered, page, datasets, handlers, feeds, feed,
                     feedFailed, raced, controller, waiters>>
      BY DEF Window!LookFeed
<1>3. Moved(c, pc) /\ CallsInv' /\ BarsInv' /\ Window!WaitersAreWaiting' /\ PageOK'
  <2>1. call[c].pc \in Window!Wiring  BY <1>2 DEF Window!Wiring
  <2> QED  BY <1>1, <1>2, <2>1, CallWires
<1>4. WiringOK'  BY <1>1, <1>2, WindowTypes DEF WindowInv, WiringOK
<1>5. StandIn'  BY <1>1, <1>2, <1>3 DEF WindowInv, StandIn, Moved
<1>6. Once'
  <2>1. feed => hasFeed  BY DEF WindowInv, StandIn
  <2>2. ~raced /\ hasFeed => Once'
        BY <1>1, <1>2, <1>3 DEF WindowInv, Once, Moved
  <2>3. ~raced /\ ~hasFeed => wired' = wired /\ pc \in {"on", "error"}
        BY <1>1, <2>1
  <2>4. ~raced /\ ~hasFeed => Once'
        BY <1>1, <1>2, <1>3, <2>3 DEF WindowInv, Once, Moved
  <2>5. raced => Once'  BY <1>2 DEF Once
  <2> QED  BY <2>2, <2>4, <2>5
<1> QED  BY <1>3, <1>4, <1>5, <1>6, WindowTypes DEF WindowInv, Moved

(* The datafeed: wired, or not.                                            *)
LEMMA FeedIsWired ==
    ASSUME WindowInv, NEW c \in Call, Window!WireFeed(c)
    PROVE  WindowInv'
<1>1. /\ call[c].pc = "feeding" /\ Window!To(c, "fed")
      /\ feeds' = feeds + 1 /\ controller' = TRUE
      /\ UNCHANGED <<hasFeed, mixed, bound, offered, page, datasets, wired, handlers, feed,
                     feedFailed, raced, waiters>>
      BY DEF Window!WireFeed
<1>2. Moved(c, "fed") /\ CallsInv' /\ BarsInv' /\ Window!WaitersAreWaiting' /\ PageOK'
  <2>1. call[c].pc \in Window!Wiring  BY <1>1 DEF Window!Wiring
  <2> QED  BY <1>1, <2>1, CallWires
<1>3. WiringOK'  BY <1>1, WindowTypes DEF WindowInv, WiringOK
<1>4. hasFeed  BY <1>1 DEF WindowInv, StandIn
<1>5. StandIn'  BY <1>1, <1>2, <1>4 DEF WindowInv, StandIn, Moved
<1>6. Once'
  <2> SUFFICES ASSUME ~raced  PROVE Once'
      BY <1>1 DEF Once
  <2>1. ~feed /\ feeds <= 1 /\ (feeds = 1 => \E d \in Call : call[d].pc = "fed")
        BY <1>1, <1>4 DEF WindowInv, Once
  <2>2. \A d \in Call \ {c} : call[d].pc \notin {"feeding", "fed"}
        BY <1>1 DEF WindowInv, CallsInv, Window!Wiring
  <2>3. feeds = 0
        BY <1>1, <2>1, <2>2, WindowTypes DEF WindowInv, WiringOK
  <2>4. feeds' = 1 /\ call'[c].pc = "fed"  BY <1>1, <1>2, <2>3 DEF Moved
  <2>5. \A d \in Call : call'[d].pc # "feeding"  BY <1>2, <2>2 DEF Moved
  <2> QED  BY <1>1, <1>4, <2>4, <2>5 DEF Once
<1> QED  BY <1>2, <1>3, <1>5, <1>6, WindowTypes DEF WindowInv, Moved

LEMMA FeedFailsKeeps ==
    ASSUME WindowInv, NEW c \in Call, Window!FeedFails(c)
    PROVE  WindowInv'
<1>1. PICK pc \in {"on", "error"} :
         Window!To(c, pc) /\ (pc = "on" <=> call[c].tool = "tvchart")
      BY DEF Window!FeedFails, Window!Unfed
<1>2. /\ call[c].pc = "feeding"
      /\ feedFailed' = TRUE /\ controller' \in {controller, TRUE}
      /\ UNCHANGED <<hasFeed, mixed, bound, offered, page, datasets, wired, handlers, feeds, feed,
                     raced, waiters>>
      BY DEF Window!FeedFails
<1>3. Moved(c, pc) /\ CallsInv' /\ BarsInv' /\ Window!WaitersAreWaiting' /\ PageOK'
  <2>1. call[c].pc \in Window!Wiring  BY <1>2 DEF Window!Wiring
  <2> QED  BY <1>1, <1>2, <2>1, CallWires
<1>4. WiringOK'  BY <1>2, WindowTypes DEF WindowInv, WiringOK
<1>5. hasFeed  BY <1>2 DEF WindowInv, StandIn
<1>6. StandIn'  BY <1>1, <1>2, <1>3, <1>5 DEF WindowInv, StandIn, Moved
<1>7. Once'  BY <1>1, <1>2, <1>3, <1>5 DEF WindowInv, Once, Moved
<1> QED  BY <1>3, <1>4, <1>6, <1>7, WindowTypes DEF WindowInv, Moved

LEMMA FeedIsKept ==
    ASSUME WindowInv, NEW c \in Call, Window!KeepFeed(c)
    PROVE  WindowInv'
<1>1. PICK pc \in {"bind", "frame"} : Window!To(c, pc)
      BY DEF Window!KeepFeed, Window!Wired
<1>2. /\ call[c].pc = "fed"
      /\ feed' = TRUE /\ wired' = TRUE
      /\ UNCHANGED <<hasFeed, mixed, bound, offered, page, datasets, handlers, feeds, feedFailed,
                     raced, controller, waiters>>
      BY DEF Window!KeepFeed
<1>3. Moved(c, pc) /\ CallsInv' /\ BarsInv' /\ Window!WaitersAreWaiting' /\ PageOK'
  <2>1. call[c].pc \in Window!Wiring  BY <1>2 DEF Window!Wiring
  <2> QED  BY <1>1, <1>2, <2>1, CallWires
<1>4. WiringOK'  BY <1>2, WindowTypes DEF WindowInv, WiringOK
<1>5. hasFeed  BY <1>2 DEF WindowInv, StandIn
<1>6. StandIn'  BY <1>1, <1>2, <1>3, <1>5 DEF WindowInv, StandIn, Moved
<1>7. Once'
  <2> SUFFICES ASSUME ~raced  PROVE Once'
      BY <1>2 DEF Once
  <2>1. \A d \in Call \ {c} : call[d].pc # "feeding"
        BY <1>2 DEF WindowInv, CallsInv, Window!Wiring
  <2>2. \A d \in Call : call'[d].pc # "feeding"  BY <1>3, <2>1 DEF Moved
  <2> QED  BY <1>2, <1>5, <2>2 DEF WindowInv, Once
<1> QED  BY <1>3, <1>4, <1>6, <1>7, WindowTypes DEF WindowInv, Moved

(* The static handler: registered, and its flag set.                       *)
LEMMA HandlerIsRegistered ==
    ASSUME WindowInv, NEW c \in Call, Window!Register(c)
    PROVE  WindowInv'
<1>1. /\ call[c].pc = "on" /\ Window!To(c, "registered")
      /\ handlers' = handlers + 1
      /\ UNCHANGED <<hasFeed, mixed, bound, offered, page, datasets, wired, feeds, feed, feedFailed,
                     raced, controller, waiters>>
      BY DEF Window!Register
<1>2. Moved(c, "registered") /\ CallsInv' /\ BarsInv' /\ Window!WaitersAreWaiting' /\ PageOK'
  <2>1. call[c].pc \in Window!Wiring  BY <1>1 DEF Window!Wiring
  <2>2. call[c].tool = "tvchart"  BY <1>1 DEF WindowInv, CallsInv
  <2> QED  BY <1>1, <2>1, <2>2, CallWires
<1>3. WiringOK'  BY <1>1, WindowTypes DEF WindowInv, WiringOK
<1>4. StandIn'
  <2>1. hasFeed => feedFailed  BY <1>1 DEF WindowInv, StandIn
  <2> QED  BY <1>1, <1>2, <2>1 DEF WindowInv, StandIn, Moved
<1>5. Once'
  <2> SUFFICES ASSUME ~raced  PROVE Once'
      BY <1>1 DEF Once
  <2>1. hasFeed => Once'
        BY <1>1, <1>2 DEF WindowInv, Once, Moved
  <2>2. ASSUME ~hasFeed  PROVE Once'
    <3>1. ~wired /\ handlers <= 1 /\ (handlers = 1 => \E d \in Call : call[d].pc = "registered")
          BY <1>1, <2>2 DEF WindowInv, Once
    <3>2. \A d \in Call \ {c} : call[d].pc \notin {"on", "registered"}
          BY <1>1 DEF WindowInv, CallsInv, Window!Wiring
    <3>3. handlers = 0
          BY <1>1, <3>1, <3>2, WindowTypes DEF WindowInv, WiringOK
    <3>4. handlers' = 1 /\ call'[c].pc = "registered"  BY <1>1, <1>2, <3>3 DEF Moved
    <3>5. ~wired'  BY <1>1, <3>1
    <3> QED  BY <1>1, <2>2, <3>4, <3>5 DEF Once
  <2> QED  BY <2>1, <2>2
<1> QED  BY <1>2, <1>3, <1>4, <1>5, WindowTypes DEF WindowInv, Moved

LEMMA HandlerIsKept ==
    ASSUME WindowInv, NEW c \in Call, Window!KeepRegistered(c)
    PROVE  WindowInv'
<1>1. PICK pc \in {"bind", "frame"} : Window!To(c, pc)
      BY DEF Window!KeepRegistered, Window!Wired
<1>2. /\ call[c].pc = "registered" /\ wired' = TRUE
      /\ UNCHANGED <<hasFeed, mixed, bound, offered, page, datasets, handlers, feeds, feed,
                     feedFailed, raced, controller, waiters>>
      BY DEF Window!KeepRegistered
<1>3. Moved(c, pc) /\ CallsInv' /\ BarsInv' /\ Window!WaitersAreWaiting' /\ PageOK'
  <2>1. call[c].pc \in Window!Wiring  BY <1>2 DEF Window!Wiring
  <2> QED  BY <1>1, <1>2, <2>1, CallWires
<1>4. WiringOK'  BY <1>2, WindowTypes DEF WindowInv, WiringOK
<1>5. StandIn'  BY <1>1, <1>2, <1>3 DEF WindowInv, StandIn, Moved
<1>6. Once'
  <2> SUFFICES ASSUME ~raced  PROVE Once'
      BY <1>2 DEF Once
  <2>1. \A d \in Call \ {c} : call[d].pc \notin {"on", "wiring"}
        BY <1>2 DEF WindowInv, CallsInv, Window!Wiring
  <2>2. \A d \in Call : call'[d].pc \notin {"on", "wiring"}  BY <1>3, <2>1 DEF Moved
  <2>3. hasFeed => Once'
        BY <1>1, <1>2, <1>3 DEF WindowInv, Once, Moved
  <2>4. ~hasFeed => Once'
        BY <1>2, <2>2 DEF WindowInv, Once
  <2> QED  BY <2>3, <2>4
<1> QED  BY <1>3, <1>4, <1>5, <1>6, WindowTypes DEF WindowInv, Moved

(* The questions to the page, and the waiters.                             *)
LEMMA PageIsAsked ==
    ASSUME WindowInv, NEW c \in Call,
           Window!Ask(c) \/ Window!AskRaises(c) \/ Window!Answer(c) \/ Window!TimesOut(c)
    PROVE  WindowInv'
<1> USE DEF Window!Ask, Window!AskRaises, Window!Answer, Window!TimesOut
<1>1. PICK pc \in {"answered", "raised", "shown", "error"} :
         /\ Window!To(c, pc) /\ call[c].pc \in {"asked", "answered"}
         /\ waiters' = IF pc \in {"answered", "raised"} THEN waiters \cup {c} ELSE waiters \ {c}
      OBVIOUS
<1>2. UNCHANGED <<hasFeed, mixed, bound, offered, page, datasets, wired, handlers, feeds, feed,
                  feedFailed, raced, controller>>
      BY DEF Window!wiring
<1>3. call[c].tool # "tvchart"
      BY <1>1 DEF WindowInv, CallsInv, Drawn, Window!Wiring
<1> HIDE DEF Window!Ask, Window!AskRaises, Window!Answer, Window!TimesOut
<1>4. /\ call[c].pc \in Window!Stage \ (Window!Ended \cup {"new"}) /\ pc \in Window!Stage \ {"new"}
      /\ pc \notin Window!Wiring /\ call[c].pc \notin Window!Wiring \ {"on"}
      /\ pc \notin {"stash", "wire", "on", "registered", "bind", "frame", "create"}
      BY <1>1 DEF Window!Stage, Window!Ended, Window!Wiring
<1>5. Moved(c, pc) /\ CallsInv'  BY <1>1, <1>2, <1>3, <1>4, CallMoves
<1>6. StandIn' /\ Once'  BY <1>2, <1>4, <1>5, WiringStays
<1>7. BarsInv'
  <2>1. \A d \in Call : call'[d].tool = "tvchart" <=> call[d].tool = "tvchart"
        BY <1>3, <1>5 DEF Moved
  <2>2. \A d \in Call : call[d].tool = "tvchart" \/ call[d].pc = "broken" => call'[d] = call[d]
        BY <1>1, <1>3, <1>5 DEF Moved
  <2> QED  BY <1>2, <2>1, <2>2 DEF WindowInv, BarsInv
<1>8. Window!WaitersAreWaiting'
      BY <1>1, <1>5 DEF WindowInv, Window!WaitersAreWaiting, Moved
<1>9. PageOK' /\ WiringOK'
      BY <1>1, <1>2, WindowTypes DEF WindowInv, PageOK, WiringOK
<1> QED  BY <1>5, <1>6, <1>7, <1>8, <1>9, WindowTypes DEF WindowInv, Moved

(* Every step of the canvas.                                               *)
LEMMA WindowStays == WindowInv /\ (Window!Next \/ UNCHANGED drawing) => WindowInv'
<1> SUFFICES ASSUME WindowInv, Window!Next \/ UNCHANGED drawing  PROVE WindowInv'
    OBVIOUS
<1>1. CASE Window!Launch \/ Window!Teardown \/ Window!Offer \/ UNCHANGED drawing
      BY <1>1, WindowOpens
<1>2. ASSUME NEW c \in Call,
             \/ \E tool \in Window!Content : Window!BeginContent(c, tool)
             \/ \E tool \in Window!Media : Window!BeginMedia(c, tool)
             \/ Window!BeginChart(c) \/ Window!BeginSymbol(c)
             \/ Window!BeginBars(c) \/ Window!BeginStudy(c) \/ Window!BeginProfile(c)
             \/ Window!BeginMark(c) \/ Window!BeginView(c) \/ Window!BeginOptions(c)
             \/ Window!BeginList(c) \/ Window!BeginState(c)
      PROVE  WindowInv'
      BY <1>2, ToolsBegin
<1>3. ASSUME NEW c \in Call,
             \/ Window!Resolve(c) \/ Window!Render(c) \/ Window!Mount(c) \/ Window!Breaks(c)
             \/ Window!Stash(c) \/ Window!Bind(c) \/ Window!Frame(c) \/ Window!Create(c)
             \/ Window!Emit(c)
      PROVE  WindowInv'
      BY <1>3, CallGoesOn, PageChanges, BarsChange
<1>4. ASSUME NEW c \in Call,
             \/ Window!LookWired(c) \/ Window!BindSymbol(c) \/ Window!LookFeed(c)
             \/ Window!WireFeed(c) \/ Window!FeedFails(c) \/ Window!KeepFeed(c)
             \/ Window!Register(c) \/ Window!KeepRegistered(c)
      PROVE  WindowInv'
      BY <1>4, WiringBegins, FeedIsLooked, FeedIsWired, FeedFailsKeeps, FeedIsKept,
         HandlerIsRegistered, HandlerIsKept
<1>5. ASSUME NEW c \in Call,
             Window!Ask(c) \/ Window!AskRaises(c) \/ Window!Answer(c) \/ Window!TimesOut(c)
      PROVE  WindowInv'
      BY <1>5, PageIsAsked
<1> QED  BY <1>1, <1>2, <1>3, <1>4, <1>5 DEF Window!Next

(* What follows for the chart on the page.                                 *)
LEMMA ChartIsAnsweredHolds == WindowInv => Window!ChartIsAnswered
<1> SUFFICES ASSUME WindowInv  PROVE Window!ChartIsAnswered
    OBVIOUS
<1>1. WiringOK  BY WindowTypes DEF WindowInv
<1>2. handlers + feeds > 1 => feedFailed \/ raced
  <2>1. CASE hasFeed
        BY <1>1, <2>1 DEF WindowInv, StandIn, Once, WiringOK
  <2>2. CASE ~hasFeed
        BY <1>1, <2>2 DEF WindowInv, StandIn, Once, WiringOK
  <2> QED  BY <2>1, <2>2
<1>3. \A c \in Call : Window!Busy(c) <=> call[c].tool # "none"
      BY DEF WindowInv, Window!TypeOK
<1>4. page.kind = "tvchart" /\ ~mixed /\ (\A c \in Call : ~Window!Busy(c)) =>
          datasets = page.by \/ call[datasets].pc = "broken"
      BY <1>3 DEF WindowInv, BarsInv
<1> QED  BY <1>2, <1>4 DEF Window!ChartIsAnswered

-----------------------------------------------------------------------------
(* Turns.  One prompt at a time: when a turn has been asked, the ones      *)
(* before it have come back.                                               *)
Came == {"left", "returned", "raised"}

OneReads ==
    \A t, u \in Turns!Turn : u < t => reader[u] \in Came \/ reader[t] = "out"

(* The event of the session is that of the newest turn while it is at      *)
(* work, unless a turn that was given up has taken it away.                *)
OwnerInv ==
    \A t \in Turns!Turn : reader[t] \in {"announcing", "reading"} /\ pump[t] # "over" =>
        owner = t \/ \E u \in abandoned : u < t

(* What a turn does goes with what its reader does, unless that one left.  *)
Follows(t) ==
    /\ reader[t] \in {"out", "announcing"} => pump[t] = "out"
    /\ reader[t] \in {"reading", "closing"} => pump[t] # "out"
    /\ pump[t] \notin {"out", "over"} => reader[t] \in {"reading", "closing"} \/ t \in abandoned
    /\ pump[t] = "closing" => t \in abandoned
    /\ t \in abandoned => reader[t] \in Came /\ pump[t] # "out"
    /\ pump[t] \in {"out", "sent", "setup", "human", "agent", "answered"} => t \notin failed
    /\ pump[t] = "shown" => t \in failed
    /\ path = "direct" =>
          /\ pump[t] # "sent"
          /\ pump[t] = "over" => reader[t] \notin {"reading", "closing"}
          /\ reader[t] = "closing" => pump[t] \in {"ending", "ended", "shown"}
          /\ t \in abandoned => /\ reader[t] = "returned"
                                /\ pump[t] \in {"closing", "ending", "ended", "shown", "over"}

(* The question of a turn is in the session, and it is what the run is     *)
(* given, or what a turn that was left at work has said since.             *)
Given(t, x) ==
    \/ x = <<"human", t>>
    \/ t \in abandoned
    \/ \E u \in abandoned : u < t /\ x = <<"ai", u>>

Asks(t) ==
    /\ pump[t] # "out" => Turns!Contains(messages, <<"human", t>>)
    /\ Turns!Contains(messages, <<"human", t>>) => pump[t] # "out"
    /\ Turns!Contains(messages, <<"ai", t>>) => pump[t] = "over"
    /\ pump[t] = "sent" => Given(t, Turns!Last(messages))
    /\ (asked[t] = <<>>) <=> pump[t] \in {"out", "sent"}
    /\ asked[t] # <<>> => /\ Turns!Contains(messages, asked[t])
                          /\ Given(t, asked[t])
                          /\ path = "direct" => asked[t] = <<"human", t>>

(* The rows of a turn, and what is known of them while it ends.            *)
Whole(t) == ~(path = "direct" /\ reader[t] \in {"closing", "raised"})

Keeps(t) ==
    /\ Turns!Contains(rows, <<"human", t>>) =>
          /\ Turns!Contains(messages, <<"human", t>>)
          /\ abandoned = {} => pump[t] \notin {"out", "sent", "setup", "human"}
    /\ Turns!Contains(rows, <<"ai", t>>) =>
          /\ said[t] /\ t \notin failed /\ pump[t] \in {"ending", "ended", "over"}
          /\ path = "direct" => t \notin abandoned
          /\ pump[t] = "over" /\ Whole(t) => Turns!Contains(messages, <<"ai", t>>)
    /\ pump[t] = "ending" /\ t \notin failed /\ Whole(t) =>
          (Turns!Contains(rows, <<"ai", t>>) <=> status[t] = "completed" /\ said[t])
    /\ trace[t] \in {"completed", "cancelled", "dispatched"} =>
          /\ pump[t] \in {"ended", "shown", "over"} \/ (pump[t] = "closing" /\ t \in failed)
          /\ t \notin failed /\ Whole(t) =>
                (Turns!Contains(rows, <<"ai", t>>) <=> trace[t] = "completed" /\ said[t])

Said == {"human", "ai"} \X Turns!Turn

(* Questions and answers in the order of the turns.                        *)
Before(a, b) == a[2] < b[2] \/ (a[2] = b[2] /\ a[1] = "human" /\ b[1] = "ai")
InOrder(s) == \A i, j \in DOMAIN s : i < j => Before(s[i], s[j])
OrderInv == abandoned = {} => InOrder(messages) /\ InOrder(rows)

(* The types, without what the session holds of a turn.                    *)
TurnTypes ==
    /\ path \in {"direct", "bridged"}
    /\ reader \in [Turns!Turn ->
                     {"out", "announcing", "reading", "closing", "left", "returned", "raised"}]
    /\ messages \in Seq(Said) /\ rows \in Seq(Said)
    /\ owner \in Turns!Turn \cup {0}
    /\ set \in BOOLEAN /\ told \in SUBSET Turns!Turn
    /\ pump \in [Turns!Turn -> {"out", "sent", "setup", "human", "agent",
                                "closing", "answered", "ending", "ended", "shown", "over"}]
    /\ status \in [Turns!Turn -> {"completed", "cancelled", "dispatched"}]
    /\ said \in [Turns!Turn -> BOOLEAN]
    /\ unread \in [Turns!Turn -> BOOLEAN]
    /\ asked \in [Turns!Turn -> Said \cup {<<>>}]
    /\ trace \in [Turns!Turn -> {"none", "running", "completed", "cancelled", "dispatched",
                                 "unended"}]
    /\ abandoned \in SUBSET Turns!Turn /\ failed \in SUBSET Turns!Turn

TurnsInv ==
    /\ TurnTypes /\ OneReads /\ OwnerInv /\ OrderInv
    /\ \A t \in Turns!Turn : Follows(t) /\ Asks(t) /\ Keeps(t)
(* What a sequence holds when something is appended.                       *)
LEMMA Appended ==
    ASSUME NEW S, NEW s \in Seq(S), NEW e \in S
    PROVE  /\ Append(s, e) \in Seq(S) /\ Turns!Last(Append(s, e)) = e
           /\ \A x : Turns!Contains(Append(s, e), x) <=> Turns!Contains(s, x) \/ x = e
<1>1. /\ Append(s, e) \in Seq(S) /\ Len(s) \in Nat /\ Len(Append(s, e)) = Len(s) + 1
      /\ \A i \in 1..Len(s) : Append(s, e)[i] = s[i]
      /\ Append(s, e)[Len(s) + 1] = e
      OBVIOUS
<1>2. ASSUME NEW x  PROVE Turns!Contains(Append(s, e), x) <=> Turns!Contains(s, x) \/ x = e
  <2>1. ASSUME Turns!Contains(s, x) \/ x = e  PROVE Turns!Contains(Append(s, e), x)
    <3>1. CASE x = e
      <4>1. Len(s) + 1 \in 1..Len(Append(s, e))  BY <1>1
      <4> QED  BY <1>1, <3>1, <4>1 DEF Turns!Contains
    <3>2. CASE Turns!Contains(s, x)
      <4>1. PICK i \in 1..Len(s) : s[i] = x  BY <3>2 DEF Turns!Contains
      <4>2. i \in 1..Len(Append(s, e)) /\ Append(s, e)[i] = x  BY <1>1, <4>1
      <4> QED  BY <4>2 DEF Turns!Contains
    <3> QED  BY <2>1, <3>1, <3>2
  <2>2. ASSUME Turns!Contains(Append(s, e), x), x # e  PROVE Turns!Contains(s, x)
    <3>1. PICK i \in 1..Len(Append(s, e)) : Append(s, e)[i] = x  BY <2>2 DEF Turns!Contains
    <3>2. i \in 1..Len(s) /\ s[i] = x  BY <1>1, <2>2, <3>1
    <3> QED  BY <3>2 DEF Turns!Contains
  <2> QED  BY <2>1, <2>2
<1>3. Turns!Last(Append(s, e)) = e  BY <1>1 DEF Turns!Last
<1> QED  BY <1>1, <1>2, <1>3

(* ... and its order, when that comes after the rest.                      *)
LEMMA OrderGrows ==
    ASSUME NEW s \in Seq(Said), NEW e \in Said, InOrder(s),
           \A x \in Said : Turns!Contains(s, x) => Before(x, e)
    PROVE  InOrder(Append(s, e))
<1>1. /\ Append(s, e) \in Seq(Said) /\ Len(s) \in Nat /\ DOMAIN Append(s, e) = 1..(Len(s) + 1)
      /\ DOMAIN s = 1..Len(s)
      /\ \A i \in 1..Len(s) : Append(s, e)[i] = s[i] /\ s[i] \in Said
      /\ Append(s, e)[Len(s) + 1] = e
      OBVIOUS
<1>2. \A i \in 1..Len(s) : Before(s[i], e)  BY <1>1 DEF Turns!Contains
<1>3. ASSUME NEW i \in 1..(Len(s) + 1), NEW j \in 1..(Len(s) + 1), i < j
      PROVE  Before(Append(s, e)[i], Append(s, e)[j])
  <2>1. i \in 1..Len(s)  BY <1>1, <1>3
  <2>2. CASE j = Len(s) + 1  BY <1>1, <1>2, <2>1, <2>2
  <2>3. CASE j \in 1..Len(s)  BY <1>1, <1>3, <2>1, <2>3 DEF InOrder
  <2> QED  BY <1>1, <2>2, <2>3
<1> QED  BY <1>1, <1>3 DEF InOrder


(* Turns are counted from one; what is said differs by role and turn.      *)
LEMMA TurnsAreNumbers == Turns!Turn \subseteq Nat \ {0}
  BY DEF Turns!Turn

LEMMA SaidApart ==
    \A t, u : /\ <<"human", t>> # <<"ai", u>> /\ <<"human", t>> # <<>>
              /\ <<"human", t>> = <<"human", u>> => t = u
              /\ <<"ai", t>> = <<"ai", u>> => t = u
  OBVIOUS

(* Of two turns at work, the earlier one was given up.                     *)
LEMMA OneWorks ==
    ASSUME TurnsInv, NEW t \in Turns!Turn, NEW u \in Turns!Turn, t # u,
           pump[u] \notin {"out", "over"},
           reader[t] = "announcing" \/ pump[t] \notin {"out", "over"}
    PROVE  u \in abandoned \/ (t \in abandoned /\ t <= u)
<1>1. CASE t < u  BY <1>1, TurnsAreNumbers DEF TurnsInv, OneReads, Follows, Came
<1>2. CASE u < t  BY <1>2, TurnsAreNumbers DEF TurnsInv, OneReads, Follows, Came
<1> QED  BY <1>1, <1>2, TurnsAreNumbers

(* A step of one turn, seen from the others: all it may do to one of them  *)
(* is that its reader misses the event.                                    *)
Stays(u) ==
    \/ reader'[u] = reader[u]
    \/ path = "bridged" /\ reader[u] = "reading" /\ reader'[u] = "closing"

Local(t) ==
    /\ TurnTypes' /\ path' = path
    /\ \A u \in Turns!Turn \ {t} :
          /\ Stays(u) /\ pump'[u] = pump[u] /\ status'[u] = status[u]
          /\ said'[u] = said[u] /\ asked'[u] = asked[u] /\ trace'[u] = trace[u]
          /\ u \in abandoned' <=> u \in abandoned
          /\ u \in failed' <=> u \in failed
    /\ abandoned \subseteq abandoned' /\ failed \subseteq failed'
    /\ \/ messages' = messages
       \/ messages' = Append(messages, <<"human", t>>) /\ reader[t] = "announcing"
       \/ messages' = Append(messages, <<"ai", t>>) /\ pump[t] \in {"ended", "shown"}
    /\ \/ rows' = rows
       \/ rows' = Append(rows, <<"ai", t>>)
       \/ rows' = Append(rows, asked[t]) /\ pump[t] = "human" /\ asked[t][1] = "human"

(* What was said stays, and of another turn nothing is added, but a row of *)
(* its question after a turn was given up.                                 *)
LEMMA SaidGrows ==
    ASSUME TurnsInv, NEW t \in Turns!Turn, Local(t)
    PROVE  /\ \A x : Turns!Contains(messages, x) => Turns!Contains(messages', x)
           /\ \A u \in Turns!Turn \ {t} :
                 /\ Turns!Contains(messages', <<"human", u>>) =>
                       Turns!Contains(messages, <<"human", u>>)
                 /\ Turns!Contains(messages', <<"ai", u>>) => Turns!Contains(messages, <<"ai", u>>)
                 /\ Turns!Contains(rows', <<"ai", u>>) <=> Turns!Contains(rows, <<"ai", u>>)
                 /\ Turns!Contains(rows', <<"human", u>>) =>
                       \/ Turns!Contains(rows, <<"human", u>>)
                       \/ /\ Turns!Contains(messages, <<"human", u>>)
                          /\ abandoned # {}
<1>1. /\ messages \in Seq(Said) /\ rows \in Seq(Said)
      /\ <<"human", t>> \in Said /\ <<"ai", t>> \in Said
      BY DEF TurnsInv, TurnTypes, Said
<1>2. pump[t] = "human" => asked[t] \in Said /\ Turns!Contains(messages, asked[t])
                           /\ (asked[t] = <<"human", t>> \/ abandoned # {})
      BY DEF TurnsInv, TurnTypes, Asks, Given
<1>3. \/ \A x : Turns!Contains(messages', x) <=> Turns!Contains(messages, x)
      \/ \A x : Turns!Contains(messages', x) <=> Turns!Contains(messages, x) \/ x = <<"human", t>>
      \/ \A x : Turns!Contains(messages', x) <=> Turns!Contains(messages, x) \/ x = <<"ai", t>>
  <2>1. CASE messages' = messages  BY <2>1
  <2>2. CASE messages' = Append(messages, <<"human", t>>)
    <3>1. \A x : Turns!Contains(Append(messages, <<"human", t>>), x)
                  <=> Turns!Contains(messages, x) \/ x = <<"human", t>>
          BY <1>1, Appended
    <3>2. \A x : Turns!Contains(messages', x) <=> Turns!Contains(messages, x) \/ x = <<"human", t>>
          BY <2>2, <3>1
    <3> QED  BY <3>2
  <2>3. CASE messages' = Append(messages, <<"ai", t>>)
    <3>1. \A x : Turns!Contains(Append(messages, <<"ai", t>>), x)
                  <=> Turns!Contains(messages, x) \/ x = <<"ai", t>>
          BY <1>1, Appended
    <3>2. \A x : Turns!Contains(messages', x) <=> Turns!Contains(messages, x) \/ x = <<"ai", t>>
          BY <2>3, <3>1
    <3> QED  BY <3>2
  <2> QED  BY <2>1, <2>2, <2>3 DEF Local
<1>4. ASSUME NEW u \in Turns!Turn \ {t}
      PROVE  /\ Turns!Contains(messages', <<"human", u>>) =>
                   Turns!Contains(messages, <<"human", u>>)
             /\ Turns!Contains(messages', <<"ai", u>>) => Turns!Contains(messages, <<"ai", u>>)
      BY <1>3, SaidApart
<1>5. ASSUME NEW u \in Turns!Turn \ {t}
      PROVE  /\ Turns!Contains(rows', <<"ai", u>>) <=> Turns!Contains(rows, <<"ai", u>>)
             /\ Turns!Contains(rows', <<"human", u>>) =>
                   \/ Turns!Contains(rows, <<"human", u>>)
                   \/ /\ Turns!Contains(messages, <<"human", u>>)
                      /\ abandoned # {}
  <2>1. CASE rows' = rows  BY <2>1
  <2>2. CASE rows' = Append(rows, <<"ai", t>>)  BY <1>1, <2>2, Appended, SaidApart
  <2>3. CASE rows' = Append(rows, asked[t]) /\ pump[t] = "human" /\ asked[t][1] = "human"
    <3>1. \A x : Turns!Contains(rows', x) <=> Turns!Contains(rows, x) \/ x = asked[t]
          BY <1>1, <1>2, <2>3, Appended
    <3>2. asked[t] # <<"ai", u>>  BY <2>3
    <3> QED  BY <1>2, <2>3, <3>1, <3>2, SaidApart
  <2> QED  BY <2>1, <2>2, <2>3 DEF Local
<1> QED  BY <1>3, <1>4, <1>5

(* So a step of one turn keeps what is known of another.                   *)
LEMMA OthersStay ==
    ASSUME TurnsInv, NEW t \in Turns!Turn, Local(t), NEW u \in Turns!Turn, u # t
    PROVE  Follows(u)' /\ Asks(u)' /\ Keeps(u)'
<1>1. /\ path' = path /\ Stays(u) /\ pump'[u] = pump[u] /\ status'[u] = status[u]
      /\ said'[u] = said[u] /\ asked'[u] = asked[u] /\ trace'[u] = trace[u]
      /\ u \in abandoned' <=> u \in abandoned
      /\ u \in failed' <=> u \in failed
      /\ abandoned \subseteq abandoned'
      BY DEF Local
<1>2. Follows(u) /\ Asks(u) /\ Keeps(u)  BY DEF TurnsInv
<1>3. Follows(u)'  BY <1>1, <1>2 DEF Follows, Stays, Came
<1>4. Asks(u)'
  <2>1. pump'[u] = "sent" => Given(u, Turns!Last(messages))'
    <3>1. CASE messages' = messages  BY <1>1, <1>2, <3>1 DEF Asks, Given
    <3>2. CASE messages' = Append(messages, <<"human", t>>) /\ reader[t] = "announcing"
      <4> SUFFICES ASSUME pump[u] = "sent"  PROVE u \in abandoned
          BY <1>1 DEF Given
      <4>1. t \notin abandoned  BY <3>2 DEF TurnsInv, Follows, Came
      <4> QED  BY <3>2, <4>1, OneWorks
    <3>3. CASE messages' = Append(messages, <<"ai", t>>) /\ pump[t] \in {"ended", "shown"}
      <4> SUFFICES ASSUME pump[u] = "sent"  PROVE Given(u, Turns!Last(messages))'
          BY <1>1
      <4>1. u \in abandoned \/ (t \in abandoned /\ t < u)  BY <3>3, OneWorks, TurnsAreNumbers
      <4>2. Turns!Last(messages') = <<"ai", t>>
        <5>1. messages \in Seq(Said) /\ <<"ai", t>> \in Said  BY DEF TurnsInv, TurnTypes, Said
        <5> QED  BY <3>3, <5>1, Appended
      <4> QED  BY <1>1, <4>1, <4>2 DEF Given
    <3> QED  BY <3>1, <3>2, <3>3 DEF Local
  <2>2. Given(u, asked[u]) => Given(u, asked[u])'  BY <1>1 DEF Given
  <2> QED  BY <1>1, <1>2, <2>1, <2>2, SaidGrows DEF Asks
<1>5. Keeps(u)'
  <2>1. Whole(u)' <=> Whole(u)  BY <1>1 DEF Whole, Stays
  <2> QED  BY <1>1, <1>2, <2>1, SaidGrows DEF Keeps
<1> QED  BY <1>3, <1>4, <1>5

(* The last item of what holds any is one of it.                           *)
LEMMA LastIsSaid ==
    \A s \in Seq(Said) : (\E x : Turns!Contains(s, x)) =>
        Turns!Last(s) \in Said /\ Turns!Contains(s, Turns!Last(s))
<1> SUFFICES ASSUME NEW s \in Seq(Said), NEW x, Turns!Contains(s, x)
             PROVE  Turns!Last(s) \in Said /\ Turns!Contains(s, Turns!Last(s))
    OBVIOUS
<1>1. PICK i \in 1..Len(s) : s[i] = x  BY DEF Turns!Contains
<1>2. Len(s) \in Nat /\ Len(s) \in 1..Len(s)  BY <1>1
<1> QED  BY <1>2 DEF Turns!Last, Turns!Contains

(* Every step of a turn is one.                                            *)
LEMMA StepsAreLocal ==
    ASSUME TurnsInv, NEW t \in Turns!Turn,
           \/ Turns!Prompt(t)
           \/ Turns!LeaveAnnouncing(t)
           \/ Turns!Send(t)
           \/ Turns!PumpStarts(t)
           \/ Turns!BeginTrace(t)
           \/ Turns!AppendHuman(t)
           \/ Turns!SetupFails(t)
           \/ \E event : Turns!AgentEmits(t, event)
           \/ Turns!AgentEnds(t)
           \/ Turns!AgentRaises(t)
           \/ Turns!AppendAnswer(t)
           \/ Turns!AppendFails(t)
           \/ Turns!EndTrace(t)
           \/ Turns!ShowError(t)
           \/ Turns!TurnOver(t)
           \/ Turns!Read(t)
           \/ Turns!Poll(t)
           \/ Turns!ReaderCancelled(t)
           \/ Turns!Left(t)
           \/ Turns!LeaveTimesOut(t)
           \/ Turns!Leave(t)
           \/ Turns!CloseBridge(t)
           \/ \E event : Turns!LeaveDirect(t, event)
           \/ Turns!LeaveAtError(t)
           \/ Turns!CloseDirect(t)
           \/ Turns!TaskCancelled(t)
    PROVE  Local(t)
<1>1. /\ TurnTypes /\ <<"human", t>> \in Said /\ <<"ai", t>> \in Said
      /\ t \in Turns!Turn \cup {0} /\ t # 0
      BY TurnsAreNumbers DEF TurnsInv, Said
<1>2. Follows(t) /\ Asks(t)  BY DEF TurnsInv
<1>3. \A e \in Said : Append(messages, e) \in Seq(Said) /\ Append(rows, e) \in Seq(Said)
      BY <1>1 DEF TurnTypes
<1> USE DEF Turns!run, Turns!store, Turns!consumer, TurnTypes, Local, Stays
<1>4. CASE Turns!Prompt(t)
      BY <1>1, <1>2, <1>3, <1>4 DEF Turns!Prompt
<1>5. CASE Turns!LeaveAnnouncing(t)
      BY <1>1, <1>2, <1>3, <1>5 DEF Turns!LeaveAnnouncing
<1>6. CASE Turns!Send(t)
  <2>1. CASE path = "direct"
    <3>1. told' \in SUBSET Turns!Turn  BY <1>1, <1>6, <2>1 DEF Turns!Send
    <3>2. asked' \in [Turns!Turn -> Said \cup {<<>>}]
          BY <1>1, <1>6, <2>1 DEF Turns!Send
    <3> QED  BY <1>1, <1>3, <1>6, <2>1, <3>1, <3>2 DEF Turns!Send
  <2>2. CASE path # "direct"  BY <1>1, <1>3, <1>6, <2>2 DEF Turns!Send
  <2> QED  BY <2>1, <2>2
<1>7. CASE Turns!PumpStarts(t)
      BY <1>1, <1>2, <1>3, <1>7, LastIsSaid DEF Turns!PumpStarts, Asks, Follows
<1>8. CASE Turns!BeginTrace(t)
      BY <1>1, <1>2, <1>3, <1>8 DEF Turns!BeginTrace
<1>9. CASE Turns!AppendHuman(t)
      BY <1>1, <1>2, <1>3, <1>9 DEF Turns!AppendHuman, Asks, Follows
<1>10. CASE Turns!SetupFails(t)
      BY <1>1, <1>2, <1>3, <1>10 DEF Turns!SetupFails
<1>11. ASSUME NEW event, Turns!AgentEmits(t, event)  PROVE Local(t)
  <2>1. CASE t \in told  BY <1>1, <1>11, <2>1 DEF Turns!AgentEmits
  <2>2. CASE t \notin told
    <3>1. said' \in [Turns!Turn -> BOOLEAN] /\ \A u \in Turns!Turn \ {t} : said'[u] = said[u]
          BY <1>1, <1>11, <2>2 DEF Turns!AgentEmits
    <3>2. unread' \in [Turns!Turn -> BOOLEAN]
          BY <1>1, <1>11, <2>2 DEF Turns!AgentEmits, Turns!Show
    <3>3. /\ status' \in [Turns!Turn -> {"completed", "cancelled", "dispatched"}]
          /\ pump' \in [Turns!Turn -> {"out", "sent", "setup", "human", "agent",
                                       "closing", "answered", "ending", "ended", "shown", "over"}]
          /\ \A u \in Turns!Turn \ {t} : status'[u] = status[u] /\ pump'[u] = pump[u]
      <4>1. CASE event = "call"  BY <1>1, <1>11, <2>2, <4>1 DEF Turns!AgentEmits
      <4>2. CASE event # "call"  BY <1>1, <1>11, <2>2, <4>2 DEF Turns!AgentEmits
      <4> QED  BY <4>1, <4>2
    <3> QED  BY <1>1, <1>11, <3>1, <3>2, <3>3 DEF Turns!AgentEmits
  <2> QED  BY <2>1, <2>2
<1>12. CASE Turns!AgentEnds(t)
      BY <1>1, <1>2, <1>3, <1>12 DEF Turns!AgentEnds
<1>13. CASE Turns!AgentRaises(t)
      BY <1>1, <1>2, <1>3, <1>13 DEF Turns!AgentRaises
<1>14. CASE Turns!AppendAnswer(t)
      BY <1>1, <1>2, <1>3, <1>14 DEF Turns!AppendAnswer
<1>15. CASE Turns!AppendFails(t)
      BY <1>1, <1>2, <1>3, <1>15 DEF Turns!AppendFails
<1>16. CASE Turns!TurnOver(t)
  <2>1. /\ reader' \in [Turns!Turn -> {"out", "announcing", "reading", "closing", "left",
                                       "returned", "raised"}]
        /\ \A u \in Turns!Turn \ {t} : Stays(u)
        /\ told' \in SUBSET Turns!Turn
    <3>1. CASE \E r \in Turns!Turn : Turns!Misses(r) /\ told' = Turns!Told(r) \ {t}
          BY <1>1, <3>1 DEF Turns!Misses, Turns!Told
    <3>2. CASE /\ told' = told \ {t}
               /\ reader' = IF path = "direct" /\ reader[t] \in {"reading", "closing"}
                            THEN [reader EXCEPT ![t] = IF @ = "reading" THEN "returned"
                                                       ELSE "raised"]
                            ELSE reader
          BY <1>1, <3>2
    <3> QED  BY <1>16, <3>1, <3>2 DEF Turns!TurnOver
  <2>2. /\ pump' \in [Turns!Turn -> {"out", "sent", "setup", "human", "agent", "closing",
                                     "answered", "ending", "ended", "shown", "over"}]
        /\ \A u \in Turns!Turn \ {t} : pump'[u] = pump[u]
        /\ pump[t] \in {"ended", "shown"}
        BY <1>1, <1>16 DEF Turns!TurnOver
  <2>3. owner' \in Turns!Turn \cup {0} /\ set' \in BOOLEAN
        BY <1>1, <1>16 DEF Turns!TurnOver, Turns!Nobody
  <2>4. /\ messages' \in Seq(Said)
        /\ messages' = messages \/ messages' = Append(messages, <<"ai", t>>)
        BY <1>1, <1>3, <1>16 DEF Turns!TurnOver
  <2>5. UNCHANGED <<path, status, said, unread, asked, trace, rows, failed, abandoned>>
        BY <1>16 DEF Turns!TurnOver
  <2> HIDE DEF Stays
  <2> QED  BY <1>1, <2>1, <2>2, <2>3, <2>4, <2>5
<1>17. CASE Turns!Read(t)
      BY <1>1, <1>2, <1>3, <1>17 DEF Turns!Read
<1>18. CASE Turns!Poll(t)
      BY <1>1, <1>2, <1>3, <1>18 DEF Turns!Poll, Turns!Told
<1>19. CASE Turns!ReaderCancelled(t)
      BY <1>1, <1>2, <1>3, <1>19 DEF Turns!ReaderCancelled, Turns!Told
<1>20. CASE Turns!Left(t)
      BY <1>1, <1>2, <1>3, <1>20 DEF Turns!Left
<1>21. CASE Turns!LeaveTimesOut(t)
      BY <1>1, <1>2, <1>3, <1>21 DEF Turns!LeaveTimesOut
<1>22. CASE Turns!Leave(t)
      BY <1>1, <1>2, <1>3, <1>22 DEF Turns!Leave
<1>23. CASE Turns!CloseBridge(t)
      BY <1>1, <1>2, <1>3, <1>23 DEF Turns!CloseBridge, Turns!Told
<1>24. ASSUME NEW event, Turns!LeaveDirect(t, event)  PROVE Local(t)
      BY <1>1, <1>2, <1>3, <1>24 DEF Turns!LeaveDirect
<1>25. CASE Turns!LeaveAtError(t)
      BY <1>1, <1>2, <1>3, <1>25 DEF Turns!LeaveAtError
<1>26. CASE Turns!EndTrace(t)
  <2>1. PICK s \in {status[t], "unended"} : trace' = [trace EXCEPT ![t] = s]
        BY <1>26 DEF Turns!EndTrace
  <2>2. s \in {"none", "running", "completed", "cancelled", "dispatched", "unended"}
        BY <1>1
  <2> QED  BY <1>1, <1>26, <2>1, <2>2 DEF Turns!EndTrace
<1>27. CASE Turns!ShowError(t)
      BY <1>1, <1>2, <1>3, <1>27 DEF Turns!ShowError, Turns!Show
<1>28. CASE Turns!CloseDirect(t)
  <2>1. CASE t \in failed  BY <1>1, <1>28, <2>1 DEF Turns!CloseDirect, Turns!Nobody
  <2>2. CASE t \notin failed  BY <1>1, <1>28, <2>2 DEF Turns!CloseDirect, Turns!Nobody
  <2> QED  BY <2>1, <2>2
<1>29. CASE Turns!TaskCancelled(t)
  <2>1. /\ rows' \in Seq(Said)
        /\ \/ rows' = rows
           \/ rows' = Append(rows, <<"ai", t>>)
           \/ rows' = Append(rows, asked[t]) /\ pump[t] = "human" /\ asked[t][1] = "human"
    <3>1. pump[t] = "human" => asked[t] = <<"human", t>>
          BY <1>1, <1>2, <1>29 DEF Turns!TaskCancelled, Asks
    <3>2. \/ rows' = rows
          \/ rows' = Append(rows, <<"ai", t>>)
          \/ rows' = Append(rows, asked[t]) /\ pump[t] = "human"
          BY <1>29 DEF Turns!TaskCancelled
    <3>3. pump[t] = "human" => asked[t] \in Said /\ asked[t][1] = "human"
          BY <1>1, <3>1
    <3> QED  BY <1>1, <1>3, <3>2, <3>3
  <2>2. CASE pump[t] \in {"agent", "answered"}
        BY <1>1, <1>29, <2>1, <2>2 DEF Turns!TaskCancelled
  <2>3. CASE pump[t] \notin {"agent", "answered"}
        BY <1>1, <1>29, <2>1, <2>3 DEF Turns!TaskCancelled
  <2> QED  BY <2>2, <2>3
<1> QED
      BY <1>4, <1>5, <1>6, <1>7, <1>8, <1>9, <1>10, <1>11, <1>12, <1>13, <1>14, <1>15, <1>16,
         <1>17, <1>18, <1>19, <1>20, <1>21, <1>22, <1>23, <1>24, <1>25, <1>26, <1>27, <1>28, <1>29

(* The turns stay one at a time when a reader goes on.                     *)
GoesOn(t) ==
    \/ reader'[t] = reader[t]
    \/ reader[t] # "out" /\ reader'[t] # "out" /\ (reader[t] \in Came => reader'[t] \in Came)

LEMMA ReadersStay ==
    ASSUME TurnsInv, NEW t \in Turns!Turn, Local(t),
           GoesOn(t)
    PROVE  OneReads'
<1>1. ASSUME NEW u \in Turns!Turn, NEW v \in Turns!Turn, v < u
      PROVE  reader'[v] \in Came \/ reader'[u] = "out"
  <2>1. reader[v] \in Came \/ reader[u] = "out"  BY <1>1 DEF TurnsInv, OneReads
  <2>2. u # v  BY <1>1, TurnsAreNumbers
  <2> QED  BY <2>1, <2>2 DEF Local, Stays, GoesOn, Came
<1> QED  BY <1>1 DEF OneReads

(* The event stays that of the turn that is read.                          *)
LEMMA OwnerStays ==
    ASSUME TurnsInv, NEW t \in Turns!Turn, Local(t), owner' = owner,
           reader'[t] \in {"announcing", "reading"} /\ pump'[t] # "over" =>
              reader[t] \in {"announcing", "reading"} /\ pump[t] # "over"
    PROVE  OwnerInv'
<1>1. ASSUME NEW u \in Turns!Turn, reader'[u] \in {"announcing", "reading"}, pump'[u] # "over"
      PROVE  owner' = u \/ \E v \in abandoned' : v < u
  <2>1. reader[u] \in {"announcing", "reading"} /\ pump[u] # "over"
        BY <1>1 DEF Local, Stays
  <2>2. owner = u \/ \E v \in abandoned : v < u  BY <2>1 DEF TurnsInv, OwnerInv
  <2>3. abandoned \subseteq abandoned'  BY DEF Local
  <2> QED  BY <2>2, <2>3
<1> QED  BY <1>1 DEF OwnerInv

(* What is left to show of a step, besides.                                *)
LEMMA StepStays ==
    ASSUME TurnsInv, NEW t \in Turns!Turn, Local(t), Follows(t)', Asks(t)', Keeps(t)',
           OneReads', OwnerInv', OrderInv'
    PROVE  TurnsInv'
<1>1. TurnTypes' /\ Turns!Turn' = Turns!Turn  BY DEF Local, Turns!Turn
<1> QED  BY <1>1, OthersStay DEF TurnsInv

(* A step that says nothing.                                               *)
LEMMA QuietStays ==
    ASSUME TurnsInv, NEW t \in Turns!Turn, Local(t), Follows(t)', Asks(t)', Keeps(t)',
           UNCHANGED <<messages, rows, owner>>,
           GoesOn(t),
           reader'[t] \in {"announcing", "reading"} /\ pump'[t] # "over" =>
              reader[t] \in {"announcing", "reading"} /\ pump[t] # "over"
    PROVE  TurnsInv'
<1>1. OneReads' /\ OwnerInv'  BY ReadersStay, OwnerStays
<1>2. OrderInv'  BY DEF TurnsInv, OrderInv, InOrder, Local
<1> QED  BY <1>1, <1>2, StepStays

(* The steps that say nothing, one by one: what they change is known of    *)
(* the turn itself.                                                        *)
LEMMA LeaveAnnouncingKeeps ==
    ASSUME TurnsInv, NEW t \in Turns!Turn, Turns!LeaveAnnouncing(t), Local(t)
    PROVE  TurnsInv'
<1> USE DEF Turns!LeaveAnnouncing, Turns!run, Turns!store, Turns!consumer
<1>1. TurnTypes /\ Follows(t) /\ Asks(t) /\ Keeps(t)
      BY DEF TurnsInv
<1>2. UNCHANGED <<path, messages, rows, owner>>
      OBVIOUS
<1>3. Follows(t)'
      BY <1>1, <1>2 DEF Follows, Came, TurnTypes
<1>4. Asks(t)'
      BY <1>1, <1>2 DEF Asks, Given, TurnTypes
<1>5. Keeps(t)'
      BY <1>1, <1>2 DEF Keeps, Whole, Follows, TurnTypes
<1>6. /\ GoesOn(t)
      /\ reader'[t] \in {"announcing", "reading"} /\ pump'[t] # "over" =>
            reader[t] \in {"announcing", "reading"} /\ pump[t] # "over"
      BY <1>1 DEF TurnTypes, GoesOn, Came
<1> QED  BY <1>2, <1>3, <1>4, <1>5, <1>6, QuietStays

LEMMA PumpStartsKeeps ==
    ASSUME TurnsInv, NEW t \in Turns!Turn, Turns!PumpStarts(t), Local(t)
    PROVE  TurnsInv'
<1> USE DEF Turns!PumpStarts, Turns!run, Turns!store, Turns!consumer
<1>1. TurnTypes /\ Follows(t) /\ Asks(t) /\ Keeps(t)
      BY DEF TurnsInv
<1>2. UNCHANGED <<path, messages, rows, owner>>
      OBVIOUS
<1>3. Follows(t)'
      BY <1>1, <1>2 DEF Follows, Came, TurnTypes
<1>4. Asks(t)'
  <2>1. Turns!Last(messages) \in Said /\ Turns!Contains(messages, Turns!Last(messages))
        BY <1>1, LastIsSaid DEF Asks, Given, TurnTypes
  <2>2. /\ asked'[t] = Turns!Last(messages) /\ pump'[t] = "setup" /\ pump[t] = "sent"
        /\ abandoned' = abandoned /\ path = "bridged"
        BY <1>1 DEF TurnTypes, Follows
  <2>3. Turns!Last(messages) # <<>>  BY <2>1 DEF Said
  <2> QED  BY <1>1, <1>2, <2>1, <2>2, <2>3 DEF Asks, Given
<1>5. Keeps(t)'
      BY <1>1, <1>2 DEF Keeps, Whole, Follows, TurnTypes
<1>6. /\ GoesOn(t)
      /\ reader'[t] \in {"announcing", "reading"} /\ pump'[t] # "over" =>
            reader[t] \in {"announcing", "reading"} /\ pump[t] # "over"
      BY <1>1 DEF TurnTypes, GoesOn, Came
<1> QED  BY <1>2, <1>3, <1>4, <1>5, <1>6, QuietStays

LEMMA BeginTraceKeeps ==
    ASSUME TurnsInv, NEW t \in Turns!Turn, Turns!BeginTrace(t), Local(t)
    PROVE  TurnsInv'
<1> USE DEF Turns!BeginTrace, Turns!run, Turns!store, Turns!consumer
<1>1. TurnTypes /\ Follows(t) /\ Asks(t) /\ Keeps(t)
      BY DEF TurnsInv
<1>2. UNCHANGED <<path, messages, rows, owner>>
      OBVIOUS
<1>3. Follows(t)'
      BY <1>1, <1>2 DEF Follows, Came, TurnTypes
<1>4. Asks(t)'
      BY <1>1, <1>2 DEF Asks, Given, TurnTypes
<1>5. Keeps(t)'
      BY <1>1, <1>2 DEF Keeps, Whole, Follows, TurnTypes
<1>6. /\ GoesOn(t)
      /\ reader'[t] \in {"announcing", "reading"} /\ pump'[t] # "over" =>
            reader[t] \in {"announcing", "reading"} /\ pump[t] # "over"
      BY <1>1 DEF TurnTypes, GoesOn, Came
<1> QED  BY <1>2, <1>3, <1>4, <1>5, <1>6, QuietStays

LEMMA SetupFailsKeeps ==
    ASSUME TurnsInv, NEW t \in Turns!Turn, Turns!SetupFails(t), Local(t)
    PROVE  TurnsInv'
<1> USE DEF Turns!SetupFails, Turns!run, Turns!store, Turns!consumer
<1>1. TurnTypes /\ Follows(t) /\ Asks(t) /\ Keeps(t)
      BY DEF TurnsInv
<1>2. UNCHANGED <<path, messages, rows, owner>>
      OBVIOUS
<1>3. Follows(t)'
      BY <1>1, <1>2 DEF Follows, Came, TurnTypes
<1>4. Asks(t)'
      BY <1>1, <1>2 DEF Asks, Given, TurnTypes
<1>5. Keeps(t)'
      BY <1>1, <1>2 DEF Keeps, Whole, Follows, TurnTypes
<1>6. /\ GoesOn(t)
      /\ reader'[t] \in {"announcing", "reading"} /\ pump'[t] # "over" =>
            reader[t] \in {"announcing", "reading"} /\ pump[t] # "over"
      BY <1>1 DEF TurnTypes, GoesOn, Came
<1> QED  BY <1>2, <1>3, <1>4, <1>5, <1>6, QuietStays

LEMMA AgentEndsKeeps ==
    ASSUME TurnsInv, NEW t \in Turns!Turn, Turns!AgentEnds(t), Local(t)
    PROVE  TurnsInv'
<1> USE DEF Turns!AgentEnds, Turns!run, Turns!store, Turns!consumer
<1>1. TurnTypes /\ Follows(t) /\ Asks(t) /\ Keeps(t)
      BY DEF TurnsInv
<1>2. UNCHANGED <<path, messages, rows, owner>>
      OBVIOUS
<1>3. Follows(t)'
      BY <1>1, <1>2 DEF Follows, Came, TurnTypes
<1>4. Asks(t)'
      BY <1>1, <1>2 DEF Asks, Given, TurnTypes
<1>5. Keeps(t)'
      BY <1>1, <1>2 DEF Keeps, Whole, Follows, TurnTypes
<1>6. /\ GoesOn(t)
      /\ reader'[t] \in {"announcing", "reading"} /\ pump'[t] # "over" =>
            reader[t] \in {"announcing", "reading"} /\ pump[t] # "over"
      BY <1>1 DEF TurnTypes, GoesOn, Came
<1> QED  BY <1>2, <1>3, <1>4, <1>5, <1>6, QuietStays

LEMMA AgentRaisesKeeps ==
    ASSUME TurnsInv, NEW t \in Turns!Turn, Turns!AgentRaises(t), Local(t)
    PROVE  TurnsInv'
<1> USE DEF Turns!AgentRaises, Turns!run, Turns!store, Turns!consumer
<1>1. TurnTypes /\ Follows(t) /\ Asks(t) /\ Keeps(t)
      BY DEF TurnsInv
<1>2. UNCHANGED <<path, messages, rows, owner>>
      OBVIOUS
<1>3. Follows(t)'
      BY <1>1, <1>2 DEF Follows, Came, TurnTypes
<1>4. Asks(t)'
      BY <1>1, <1>2 DEF Asks, Given, TurnTypes
<1>5. Keeps(t)'
      BY <1>1, <1>2 DEF Keeps, Whole, Follows, TurnTypes
<1>6. /\ GoesOn(t)
      /\ reader'[t] \in {"announcing", "reading"} /\ pump'[t] # "over" =>
            reader[t] \in {"announcing", "reading"} /\ pump[t] # "over"
      BY <1>1 DEF TurnTypes, GoesOn, Came
<1> QED  BY <1>2, <1>3, <1>4, <1>5, <1>6, QuietStays

LEMMA AppendFailsKeeps ==
    ASSUME TurnsInv, NEW t \in Turns!Turn, Turns!AppendFails(t), Local(t)
    PROVE  TurnsInv'
<1> USE DEF Turns!AppendFails, Turns!run, Turns!store, Turns!consumer
<1>1. TurnTypes /\ Follows(t) /\ Asks(t) /\ Keeps(t)
      BY DEF TurnsInv
<1>2. UNCHANGED <<path, messages, rows, owner>>
      OBVIOUS
<1>3. Follows(t)'
      BY <1>1, <1>2 DEF Follows, Came, TurnTypes
<1>4. Asks(t)'
      BY <1>1, <1>2 DEF Asks, Given, TurnTypes
<1>5. Keeps(t)'
      BY <1>1, <1>2 DEF Keeps, Whole, Follows, TurnTypes
<1>6. /\ GoesOn(t)
      /\ reader'[t] \in {"announcing", "reading"} /\ pump'[t] # "over" =>
            reader[t] \in {"announcing", "reading"} /\ pump[t] # "over"
      BY <1>1 DEF TurnTypes, GoesOn, Came
<1> QED  BY <1>2, <1>3, <1>4, <1>5, <1>6, QuietStays

LEMMA EndTraceKeeps ==
    ASSUME TurnsInv, NEW t \in Turns!Turn, Turns!EndTrace(t), Local(t)
    PROVE  TurnsInv'
<1> USE DEF Turns!EndTrace, Turns!run, Turns!store, Turns!consumer
<1>1. TurnTypes /\ Follows(t) /\ Asks(t) /\ Keeps(t)
      BY DEF TurnsInv
<1>2. UNCHANGED <<path, messages, rows, owner>>
      OBVIOUS
<1>3. Follows(t)'
      BY <1>1, <1>2 DEF Follows, Came, TurnTypes
<1>4. Asks(t)'
      BY <1>1, <1>2 DEF Asks, Given, TurnTypes
<1>5. Keeps(t)'
  <2>1. /\ trace'[t] = status[t] \/ trace'[t] = "unended"
        /\ pump[t] = "ending" /\ pump'[t] = "ended"
        /\ UNCHANGED <<reader, abandoned, failed, status, said>>
        BY <1>1 DEF TurnTypes
  <2> QED  BY <1>1, <1>2, <2>1 DEF Keeps, Whole
<1>6. /\ GoesOn(t)
      /\ reader'[t] \in {"announcing", "reading"} /\ pump'[t] # "over" =>
            reader[t] \in {"announcing", "reading"} /\ pump[t] # "over"
      BY <1>1 DEF TurnTypes, GoesOn, Came
<1> QED  BY <1>2, <1>3, <1>4, <1>5, <1>6, QuietStays

LEMMA ShowErrorKeeps ==
    ASSUME TurnsInv, NEW t \in Turns!Turn, Turns!ShowError(t), Local(t)
    PROVE  TurnsInv'
<1> USE DEF Turns!ShowError, Turns!run, Turns!store, Turns!consumer
<1>1. TurnTypes /\ Follows(t) /\ Asks(t) /\ Keeps(t)
      BY DEF TurnsInv
<1>2. UNCHANGED <<path, messages, rows, owner>>
      OBVIOUS
<1>3. Follows(t)'
      BY <1>1, <1>2 DEF Follows, Came, TurnTypes
<1>4. Asks(t)'
      BY <1>1, <1>2 DEF Asks, Given, TurnTypes
<1>5. Keeps(t)'
      BY <1>1, <1>2 DEF Keeps, Whole, Follows, TurnTypes
<1>6. /\ GoesOn(t)
      /\ reader'[t] \in {"announcing", "reading"} /\ pump'[t] # "over" =>
            reader[t] \in {"announcing", "reading"} /\ pump[t] # "over"
      BY <1>1 DEF TurnTypes, GoesOn, Came
<1> QED  BY <1>2, <1>3, <1>4, <1>5, <1>6, QuietStays

LEMMA ReadKeeps ==
    ASSUME TurnsInv, NEW t \in Turns!Turn, Turns!Read(t), Local(t)
    PROVE  TurnsInv'
<1> USE DEF Turns!Read, Turns!run, Turns!store, Turns!consumer
<1>1. TurnTypes /\ Follows(t) /\ Asks(t) /\ Keeps(t)
      BY DEF TurnsInv
<1>2. UNCHANGED <<path, messages, rows, owner>>
      OBVIOUS
<1>3. Follows(t)'
      BY <1>1, <1>2 DEF Follows, Came, TurnTypes
<1>4. Asks(t)'
      BY <1>1, <1>2 DEF Asks, Given, TurnTypes
<1>5. Keeps(t)'
      BY <1>1, <1>2 DEF Keeps, Whole, Follows, TurnTypes
<1>6. /\ GoesOn(t)
      /\ reader'[t] \in {"announcing", "reading"} /\ pump'[t] # "over" =>
            reader[t] \in {"announcing", "reading"} /\ pump[t] # "over"
      BY <1>1 DEF TurnTypes, GoesOn, Came
<1> QED  BY <1>2, <1>3, <1>4, <1>5, <1>6, QuietStays

LEMMA PollKeeps ==
    ASSUME TurnsInv, NEW t \in Turns!Turn, Turns!Poll(t), Local(t)
    PROVE  TurnsInv'
<1> USE DEF Turns!Poll, Turns!run, Turns!store, Turns!consumer
<1>1. TurnTypes /\ Follows(t) /\ Asks(t) /\ Keeps(t)
      BY DEF TurnsInv
<1>2. UNCHANGED <<path, messages, rows, owner>>
      OBVIOUS
<1>3. Follows(t)'
      BY <1>1, <1>2 DEF Follows, Came, TurnTypes
<1>4. Asks(t)'
      BY <1>1, <1>2 DEF Asks, Given, TurnTypes
<1>5. Keeps(t)'
      BY <1>1, <1>2 DEF Keeps, Whole, Follows, TurnTypes
<1>6. /\ GoesOn(t)
      /\ reader'[t] \in {"announcing", "reading"} /\ pump'[t] # "over" =>
            reader[t] \in {"announcing", "reading"} /\ pump[t] # "over"
      BY <1>1 DEF TurnTypes, GoesOn, Came
<1> QED  BY <1>2, <1>3, <1>4, <1>5, <1>6, QuietStays

LEMMA ReaderCancelledKeeps ==
    ASSUME TurnsInv, NEW t \in Turns!Turn, Turns!ReaderCancelled(t), Local(t)
    PROVE  TurnsInv'
<1> USE DEF Turns!ReaderCancelled, Turns!run, Turns!store, Turns!consumer
<1>1. TurnTypes /\ Follows(t) /\ Asks(t) /\ Keeps(t)
      BY DEF TurnsInv
<1>2. UNCHANGED <<path, messages, rows, owner>>
      OBVIOUS
<1>3. Follows(t)'
      BY <1>1, <1>2 DEF Follows, Came, TurnTypes
<1>4. Asks(t)'
      BY <1>1, <1>2 DEF Asks, Given, TurnTypes
<1>5. Keeps(t)'
      BY <1>1, <1>2 DEF Keeps, Whole, Follows, TurnTypes
<1>6. /\ GoesOn(t)
      /\ reader'[t] \in {"announcing", "reading"} /\ pump'[t] # "over" =>
            reader[t] \in {"announcing", "reading"} /\ pump[t] # "over"
      BY <1>1 DEF TurnTypes, GoesOn, Came
<1> QED  BY <1>2, <1>3, <1>4, <1>5, <1>6, QuietStays

LEMMA LeftKeeps ==
    ASSUME TurnsInv, NEW t \in Turns!Turn, Turns!Left(t), Local(t)
    PROVE  TurnsInv'
<1> USE DEF Turns!Left, Turns!run, Turns!store, Turns!consumer
<1>1. TurnTypes /\ Follows(t) /\ Asks(t) /\ Keeps(t)
      BY DEF TurnsInv
<1>2. UNCHANGED <<path, messages, rows, owner>>
      OBVIOUS
<1>3. Follows(t)'
      BY <1>1, <1>2 DEF Follows, Came, TurnTypes
<1>4. Asks(t)'
      BY <1>1, <1>2 DEF Asks, Given, TurnTypes
<1>5. Keeps(t)'
      BY <1>1, <1>2 DEF Keeps, Whole, Follows, TurnTypes
<1>6. /\ GoesOn(t)
      /\ reader'[t] \in {"announcing", "reading"} /\ pump'[t] # "over" =>
            reader[t] \in {"announcing", "reading"} /\ pump[t] # "over"
      BY <1>1 DEF TurnTypes, GoesOn, Came
<1> QED  BY <1>2, <1>3, <1>4, <1>5, <1>6, QuietStays

LEMMA LeaveTimesOutKeeps ==
    ASSUME TurnsInv, NEW t \in Turns!Turn, Turns!LeaveTimesOut(t), Local(t)
    PROVE  TurnsInv'
<1> USE DEF Turns!LeaveTimesOut, Turns!run, Turns!store, Turns!consumer
<1>1. TurnTypes /\ Follows(t) /\ Asks(t) /\ Keeps(t)
      BY DEF TurnsInv
<1>2. UNCHANGED <<path, messages, rows, owner>>
      OBVIOUS
<1>3. Follows(t)'
      BY <1>1, <1>2 DEF Follows, Came, TurnTypes
<1>4. Asks(t)'
      BY <1>1, <1>2 DEF Asks, Given, TurnTypes
<1>5. Keeps(t)'
      BY <1>1, <1>2 DEF Keeps, Whole, Follows, TurnTypes
<1>6. /\ GoesOn(t)
      /\ reader'[t] \in {"announcing", "reading"} /\ pump'[t] # "over" =>
            reader[t] \in {"announcing", "reading"} /\ pump[t] # "over"
      BY <1>1 DEF TurnTypes, GoesOn, Came
<1> QED  BY <1>2, <1>3, <1>4, <1>5, <1>6, QuietStays

LEMMA LeaveKeeps ==
    ASSUME TurnsInv, NEW t \in Turns!Turn, Turns!Leave(t), Local(t)
    PROVE  TurnsInv'
<1> USE DEF Turns!Leave, Turns!run, Turns!store, Turns!consumer
<1>1. TurnTypes /\ Follows(t) /\ Asks(t) /\ Keeps(t)
      BY DEF TurnsInv
<1>2. UNCHANGED <<path, messages, rows, owner>>
      OBVIOUS
<1>3. Follows(t)'
      BY <1>1, <1>2 DEF Follows, Came, TurnTypes
<1>4. Asks(t)'
      BY <1>1, <1>2 DEF Asks, Given, TurnTypes
<1>5. Keeps(t)'
      BY <1>1, <1>2 DEF Keeps, Whole, Follows, TurnTypes
<1>6. /\ GoesOn(t)
      /\ reader'[t] \in {"announcing", "reading"} /\ pump'[t] # "over" =>
            reader[t] \in {"announcing", "reading"} /\ pump[t] # "over"
      BY <1>1 DEF TurnTypes, GoesOn, Came
<1> QED  BY <1>2, <1>3, <1>4, <1>5, <1>6, QuietStays

LEMMA CloseBridgeKeeps ==
    ASSUME TurnsInv, NEW t \in Turns!Turn, Turns!CloseBridge(t), Local(t)
    PROVE  TurnsInv'
<1> USE DEF Turns!CloseBridge, Turns!run, Turns!store, Turns!consumer
<1>1. TurnTypes /\ Follows(t) /\ Asks(t) /\ Keeps(t)
      BY DEF TurnsInv
<1>2. UNCHANGED <<path, messages, rows, owner>>
      OBVIOUS
<1>3. Follows(t)'
      BY <1>1, <1>2 DEF Follows, Came, TurnTypes
<1>4. Asks(t)'
      BY <1>1, <1>2 DEF Asks, Given, TurnTypes
<1>5. Keeps(t)'
      BY <1>1, <1>2 DEF Keeps, Whole, Follows, TurnTypes
<1>6. /\ GoesOn(t)
      /\ reader'[t] \in {"announcing", "reading"} /\ pump'[t] # "over" =>
            reader[t] \in {"announcing", "reading"} /\ pump[t] # "over"
      BY <1>1 DEF TurnTypes, GoesOn, Came
<1> QED  BY <1>2, <1>3, <1>4, <1>5, <1>6, QuietStays

LEMMA LeaveDirectKeeps ==
    ASSUME TurnsInv, NEW t \in Turns!Turn, NEW event, Turns!LeaveDirect(t, event), Local(t)
    PROVE  TurnsInv'
<1> USE DEF Turns!LeaveDirect, Turns!run, Turns!store, Turns!consumer
<1>1. TurnTypes /\ Follows(t) /\ Asks(t) /\ Keeps(t)
      BY DEF TurnsInv
<1>2. UNCHANGED <<path, messages, rows, owner>>
      OBVIOUS
<1>3. Follows(t)'
      BY <1>1, <1>2 DEF Follows, Came, TurnTypes
<1>4. Asks(t)'
      BY <1>1, <1>2 DEF Asks, Given, TurnTypes
<1>5. Keeps(t)'
      BY <1>1, <1>2 DEF Keeps, Whole, Follows, TurnTypes
<1>6. /\ GoesOn(t)
      /\ reader'[t] \in {"announcing", "reading"} /\ pump'[t] # "over" =>
            reader[t] \in {"announcing", "reading"} /\ pump[t] # "over"
      BY <1>1 DEF TurnTypes, GoesOn, Came
<1> QED  BY <1>2, <1>3, <1>4, <1>5, <1>6, QuietStays

LEMMA LeaveAtErrorKeeps ==
    ASSUME TurnsInv, NEW t \in Turns!Turn, Turns!LeaveAtError(t), Local(t)
    PROVE  TurnsInv'
<1> USE DEF Turns!LeaveAtError, Turns!run, Turns!store, Turns!consumer
<1>1. TurnTypes /\ Follows(t) /\ Asks(t) /\ Keeps(t)
      BY DEF TurnsInv
<1>2. UNCHANGED <<path, messages, rows, owner>>
      OBVIOUS
<1>3. Follows(t)'
      BY <1>1, <1>2 DEF Follows, Came, TurnTypes
<1>4. Asks(t)'
      BY <1>1, <1>2 DEF Asks, Given, TurnTypes
<1>5. Keeps(t)'
      BY <1>1, <1>2 DEF Keeps, Whole, Follows, TurnTypes
<1>6. /\ GoesOn(t)
      /\ reader'[t] \in {"announcing", "reading"} /\ pump'[t] # "over" =>
            reader[t] \in {"announcing", "reading"} /\ pump[t] # "over"
      BY <1>1 DEF TurnTypes, GoesOn, Came
<1> QED  BY <1>2, <1>3, <1>4, <1>5, <1>6, QuietStays

LEMMA AgentEmitsKeeps ==
    ASSUME TurnsInv, NEW t \in Turns!Turn, NEW event, Turns!AgentEmits(t, event), Local(t)
    PROVE  TurnsInv'
<1> USE DEF Turns!AgentEmits, Turns!run, Turns!store, Turns!consumer
<1>1. TurnTypes /\ Follows(t) /\ Asks(t) /\ Keeps(t)
      BY DEF TurnsInv
<1>2. UNCHANGED <<path, messages, rows, owner>>
      OBVIOUS
<1>3. Follows(t)'
      BY <1>1, <1>2 DEF Follows, Came, TurnTypes
<1>4. Asks(t)'
      BY <1>1, <1>2 DEF Asks, Given, TurnTypes
<1>5. Keeps(t)'
      BY <1>1, <1>2 DEF Keeps, Whole, Follows, TurnTypes
<1>6. /\ GoesOn(t)
      /\ reader'[t] \in {"announcing", "reading"} /\ pump'[t] # "over" =>
            reader[t] \in {"announcing", "reading"} /\ pump[t] # "over"
      BY <1>1 DEF TurnTypes, GoesOn, Came
<1> QED  BY <1>2, <1>3, <1>4, <1>5, <1>6, QuietStays

(* prompt: all turns have come back, and this one takes the event.         *)
LEMMA PromptKeeps ==
    ASSUME TurnsInv, NEW t \in Turns!Turn, Turns!Prompt(t), Local(t)
    PROVE  TurnsInv'
<1> USE DEF Turns!Prompt, Turns!run, Turns!store
<1>1. TurnTypes /\ Follows(t) /\ Asks(t) /\ Keeps(t)
      BY DEF TurnsInv
<1>2. UNCHANGED <<path, messages, rows, pump, status, said, asked, trace, failed, abandoned>>
      /\ reader'[t] = "announcing" /\ reader[t] = "out" /\ owner' = t
      BY <1>1 DEF TurnTypes
<1>3. Follows(t)'
      BY <1>1, <1>2 DEF Follows
<1>4. Asks(t)'
      BY <1>1, <1>2 DEF Asks, Given
<1>5. Keeps(t)'
      BY <1>1, <1>2 DEF Keeps, Whole, Follows
<1>6. ASSUME NEW u \in Turns!Turn, u # t
      PROVE  /\ reader'[u] = reader[u] /\ reader[u] \in Turns!Back
             /\ u < t => reader[u] # "out"
             /\ u > t => reader[u] = "out"
  <2>1. reader'[u] = reader[u]  BY <1>1, <1>6 DEF TurnTypes
  <2>2. reader[u] \in Turns!Back  OBVIOUS
  <2>3. u < t => u \in 1..(t - 1)  BY TurnsAreNumbers
  <2>4. u > t => reader[u] = "out"
        BY <1>2, TurnsAreNumbers DEF TurnsInv, OneReads, Came
  <2> QED  BY <2>1, <2>2, <2>3, <2>4
<1>7. OneReads'
  <2>1. ASSUME NEW u \in Turns!Turn, NEW v \in Turns!Turn, v < u
        PROVE  reader'[v] \in Came \/ reader'[u] = "out"
    <3>1. CASE v < t
      <4>1. v # t  BY <3>1, TurnsAreNumbers
      <4> QED  BY <3>1, <4>1, <1>6 DEF Turns!Back, Came
    <3>2. CASE v >= t
      <4>1. u > t /\ u # t  BY <2>1, <3>2, TurnsAreNumbers
      <4> QED  BY <4>1, <1>6
    <3> QED  BY <3>1, <3>2, TurnsAreNumbers
  <2> QED  BY <2>1 DEF OneReads
<1>8. OwnerInv'
      BY <1>2, <1>6 DEF OwnerInv, Turns!Back
<1>9. OrderInv'
      BY <1>2 DEF TurnsInv, OrderInv, InOrder
<1> QED  BY <1>3, <1>4, <1>5, <1>7, <1>8, <1>9, StepStays

(* What the session says of a turn comes after all it has said, unless a   *)
(* turn was given up.                                                      *)
LEMMA SaidBefore ==
    ASSUME TurnsInv, NEW t \in Turns!Turn, abandoned = {},
           reader[t] = "announcing" \/ pump[t] \notin {"out", "over"},
           NEW x \in Said, Turns!Contains(messages, x) \/ Turns!Contains(rows, x)
    PROVE  x[2] < t \/ x[2] = t
<1>1. PICK u \in Turns!Turn : x = <<"human", u>> \/ x = <<"ai", u>>  BY DEF Said
<1>2. pump[u] # "out"  BY <1>1 DEF TurnsInv, Asks, Keeps
<1>3. ~(t < u)  BY <1>2, TurnsAreNumbers DEF TurnsInv, OneReads, Follows, Came
<1> QED  BY <1>1, <1>3, TurnsAreNumbers

(* The question goes after all that was said.                              *)
LEMMA SendKeeps ==
    ASSUME TurnsInv, NEW t \in Turns!Turn, Turns!Send(t), Local(t)
    PROVE  TurnsInv'
<1> USE DEF Turns!Send, Turns!store
<1>1. TurnTypes /\ Follows(t) /\ Asks(t) /\ Keeps(t) /\ <<"human", t>> \in Said
      BY DEF TurnsInv, Said
<1>2. /\ UNCHANGED <<path, rows, owner, status, said, trace, failed, abandoned>>
      /\ messages' = Append(messages, <<"human", t>>)
      /\ reader'[t] = "reading" /\ reader[t] = "announcing" /\ pump[t] = "out"
      /\ IF path = "direct" THEN pump'[t] = "setup" /\ asked'[t] = <<"human", t>>
         ELSE pump'[t] = "sent" /\ asked'[t] = asked[t]
      BY <1>1 DEF TurnTypes, Follows
<1>3. /\ \A x : Turns!Contains(messages', x) <=> Turns!Contains(messages, x) \/ x = <<"human", t>>
      /\ Turns!Last(messages') = <<"human", t>>
  <2>1. messages \in Seq(Said)  BY <1>1 DEF TurnTypes
  <2>2. /\ \A x : Turns!Contains(Append(messages, <<"human", t>>), x)
                   <=> Turns!Contains(messages, x) \/ x = <<"human", t>>
        /\ Turns!Last(Append(messages, <<"human", t>>)) = <<"human", t>>
        BY <1>1, <2>1, Appended
  <2> QED  BY <1>2, <2>2
<1>4. Follows(t)'
      BY <1>1, <1>2 DEF Follows, TurnTypes
<1>5. Asks(t)'
      BY <1>1, <1>2, <1>3, SaidApart DEF Asks, Given, TurnTypes
<1>6. Keeps(t)'
      BY <1>1, <1>2, <1>3 DEF Keeps, Whole, Asks
<1>7. OneReads' /\ OwnerInv'
      BY <1>2, ReadersStay, OwnerStays DEF GoesOn, Came
<1>8. OrderInv'
  <2> SUFFICES ASSUME abandoned' = {}  PROVE OrderInv'
      BY DEF OrderInv
  <2>1. InOrder(messages) /\ InOrder(rows) /\ abandoned = {}  BY <1>2 DEF TurnsInv, OrderInv
  <2>2. ASSUME NEW x \in Said, Turns!Contains(messages, x)  PROVE Before(x, <<"human", t>>)
    <3>1. x[2] < t \/ x[2] = t  BY <1>2, <2>1, <2>2, SaidBefore
    <3>2. x # <<"human", t>> /\ x # <<"ai", t>>  BY <1>1, <1>2, <2>2 DEF Asks
    <3>3. x[2] # t  BY <3>2 DEF Said
    <3> QED  BY <3>1, <3>3 DEF Before
  <2>3. messages \in Seq(Said)  BY <1>1 DEF TurnTypes
  <2>4. InOrder(Append(messages, <<"human", t>>))  BY <1>1, <2>1, <2>2, <2>3, OrderGrows
  <2> QED  BY <1>2, <2>1, <2>4 DEF OrderInv
<1> QED  BY <1>4, <1>5, <1>6, <1>7, <1>8, StepStays

(* Its row goes after all rows, if nothing came between.                   *)
LEMMA AppendHumanKeeps ==
    ASSUME TurnsInv, NEW t \in Turns!Turn, Turns!AppendHuman(t), Local(t)
    PROVE  TurnsInv'
<1> USE DEF Turns!AppendHuman, Turns!consumer
<1>1. TurnTypes /\ Follows(t) /\ Asks(t) /\ Keeps(t) /\ <<"human", t>> \in Said
      BY DEF TurnsInv, Said
<1>2. /\ UNCHANGED <<path, reader, messages, owner, status, said, asked, trace, failed, abandoned>>
      /\ pump'[t] = "agent" /\ pump[t] = "human"
      /\ rows' = IF asked[t][1] = "human" THEN Append(rows, asked[t]) ELSE rows
      BY <1>1 DEF TurnTypes
<1>3. asked[t] \in Said /\ Turns!Contains(messages, asked[t])
      BY <1>1, <1>2 DEF Asks, Given, TurnTypes
<1>4. /\ Turns!Contains(rows', <<"ai", t>>) <=> Turns!Contains(rows, <<"ai", t>>)
      /\ Turns!Contains(rows', <<"human", t>>) =>
            Turns!Contains(rows, <<"human", t>>) \/ Turns!Contains(messages, <<"human", t>>)
  <2>1. CASE asked[t][1] = "human"
    <3>1. \A x : Turns!Contains(rows', x) <=> Turns!Contains(rows, x) \/ x = asked[t]
          BY <1>1, <1>2, <1>3, <2>1, Appended DEF TurnTypes
    <3>2. asked[t] # <<"ai", t>>  BY <2>1
    <3> QED  BY <1>3, <3>1, <3>2
  <2>2. CASE asked[t][1] # "human"  BY <1>2, <2>2
  <2> QED  BY <2>1, <2>2
<1>5. Follows(t)'
      BY <1>1, <1>2 DEF Follows
<1>6. Asks(t)'
      BY <1>1, <1>2 DEF Asks, Given
<1>7. Keeps(t)'
      BY <1>1, <1>2, <1>4 DEF Keeps, Whole
<1>8. OneReads' /\ OwnerInv'
      BY <1>2, ReadersStay, OwnerStays DEF GoesOn, Came
<1>9. OrderInv'
  <2> SUFFICES ASSUME abandoned' = {}  PROVE OrderInv'
      BY DEF OrderInv
  <2>1. InOrder(messages) /\ InOrder(rows) /\ abandoned = {}  BY <1>2 DEF TurnsInv, OrderInv
  <2>2. asked[t] = <<"human", t>>  BY <1>1, <1>2, <2>1 DEF Asks, Given
  <2>3. ASSUME NEW x \in Said, Turns!Contains(rows, x)  PROVE Before(x, <<"human", t>>)
    <3>1. x[2] < t \/ x[2] = t  BY <1>2, <2>1, <2>3, SaidBefore
    <3>2. x # <<"human", t>> /\ x # <<"ai", t>>  BY <1>1, <1>2, <2>1, <2>3 DEF Keeps
    <3>3. x[2] # t  BY <3>2 DEF Said
    <3> QED  BY <3>1, <3>3 DEF Before
  <2>4. rows' = Append(rows, <<"human", t>>)  BY <1>2, <2>2
  <2>5. InOrder(Append(rows, <<"human", t>>))  BY <1>1, <2>1, <2>3, OrderGrows DEF TurnTypes
  <2> QED  BY <1>2, <2>1, <2>4, <2>5 DEF OrderInv
<1> QED  BY <1>5, <1>6, <1>7, <1>8, <1>9, StepStays

(* An answer goes after the rows of a turn that has none.                  *)
LEMMA AnswerOrder ==
    ASSUME TurnsInv, NEW t \in Turns!Turn, abandoned = {}, pump[t] \notin {"out", "over"},
           NEW s \in Seq(Said), s = messages \/ s = rows, ~Turns!Contains(s, <<"ai", t>>)
    PROVE  InOrder(Append(s, <<"ai", t>>))
<1>1. InOrder(s)  BY DEF TurnsInv, OrderInv
<1>2. ASSUME NEW x \in Said, Turns!Contains(s, x)  PROVE Before(x, <<"ai", t>>)
  <2>1. x[2] < t \/ x[2] = t  BY <1>2, SaidBefore
  <2>2. x # <<"ai", t>>  BY <1>2
  <2> QED  BY <2>1, <2>2 DEF Said, Before
<1>3. <<"ai", t>> \in Said  BY DEF Said
<1> QED  BY <1>1, <1>2, <1>3, OrderGrows

(* The row of the answer.                                                  *)
LEMMA AppendAnswerKeeps ==
    ASSUME TurnsInv, NEW t \in Turns!Turn, Turns!AppendAnswer(t), Local(t)
    PROVE  TurnsInv'
<1> USE DEF Turns!AppendAnswer, Turns!consumer
<1>1. TurnTypes /\ Follows(t) /\ Asks(t) /\ Keeps(t) /\ <<"ai", t>> \in Said
      BY DEF TurnsInv, Said
<1>2. /\ UNCHANGED <<path, reader, messages, owner, status, said, asked, trace, failed, abandoned>>
      /\ pump'[t] = "ending" /\ pump[t] = "answered"
      /\ rows' = IF said[t] /\ status[t] = "completed" THEN Append(rows, <<"ai", t>>) ELSE rows
      BY <1>1 DEF TurnTypes
<1>3. ~Turns!Contains(rows, <<"ai", t>>) /\ t \notin failed
      BY <1>1, <1>2 DEF Keeps, Follows
<1>4. /\ Turns!Contains(rows', <<"ai", t>>) <=> said[t] /\ status[t] = "completed"
      /\ Turns!Contains(rows', <<"human", t>>) <=> Turns!Contains(rows, <<"human", t>>)
  <2>1. CASE said[t] /\ status[t] = "completed"
    <3>1. rows' = Append(rows, <<"ai", t>>)  BY <1>2, <2>1
    <3>2. \A x : Turns!Contains(Append(rows, <<"ai", t>>), x)
                  <=> Turns!Contains(rows, x) \/ x = <<"ai", t>>
          BY <1>1, Appended DEF TurnTypes
    <3>3. \A x : Turns!Contains(rows', x) <=> Turns!Contains(rows, x) \/ x = <<"ai", t>>
          BY <3>1, <3>2
    <3> QED  BY <2>1, <3>3, SaidApart
  <2>2. CASE ~(said[t] /\ status[t] = "completed")  BY <1>2, <1>3, <2>2
  <2> QED  BY <2>1, <2>2
<1>5. Follows(t)'
      BY <1>1, <1>2 DEF Follows
<1>6. Asks(t)'
      BY <1>1, <1>2 DEF Asks, Given
<1>7. Keeps(t)'
      BY <1>1, <1>2, <1>3, <1>4 DEF Keeps, Whole, Follows
<1>8. OneReads' /\ OwnerInv'
      BY <1>2, ReadersStay, OwnerStays DEF GoesOn, Came
<1>9. OrderInv'
  <2> SUFFICES ASSUME abandoned = {}  PROVE InOrder(messages') /\ InOrder(rows')
      BY <1>2 DEF OrderInv
  <2>1. InOrder(messages') /\ InOrder(rows)  BY <1>2 DEF TurnsInv, OrderInv
  <2>2. InOrder(Append(rows, <<"ai", t>>))
        BY <1>1, <1>2, <1>3, AnswerOrder DEF TurnTypes
  <2> QED  BY <1>2, <2>1, <2>2
<1> QED  BY <1>5, <1>6, <1>7, <1>8, <1>9, StepStays

(* The generators are closed: the turn was given up, and may take away the *)
(* event of a later one.                                                   *)
LEMMA CloseDirectKeeps ==
    ASSUME TurnsInv, NEW t \in Turns!Turn, Turns!CloseDirect(t), Local(t)
    PROVE  TurnsInv'
<1> USE DEF Turns!CloseDirect, Turns!consumer, Turns!store
<1>1. TurnTypes /\ Follows(t) /\ Asks(t) /\ Keeps(t)
      BY DEF TurnsInv
<1>2. /\ UNCHANGED <<path, reader, messages, rows, said, asked, trace, failed, abandoned>>
      /\ pump[t] = "closing" /\ t \in abandoned
      /\ IF t \in failed THEN pump'[t] = "over" /\ status'[t] = status[t]
         ELSE pump'[t] = "ending" /\ status'[t] = "cancelled"
      BY <1>1 DEF TurnTypes, Follows
<1>3. Follows(t)'
      BY <1>1, <1>2 DEF Follows
<1>4. Asks(t)'
      BY <1>1, <1>2 DEF Asks, Given
<1>5. Keeps(t)'
      BY <1>1, <1>2 DEF Keeps, Whole
<1>6. OneReads'
      BY <1>2, ReadersStay DEF GoesOn
<1>7. OwnerInv'
  <2>1. ASSUME NEW u \in Turns!Turn, reader'[u] \in {"announcing", "reading"}
        PROVE  t < u
    <3>1. reader[u] \in {"announcing", "reading"} /\ reader[t] \in Came
          BY <1>1, <1>2, <2>1 DEF Follows
    <3> QED  BY <3>1, TurnsAreNumbers DEF TurnsInv, OneReads, Came
  <2> QED  BY <1>2, <2>1 DEF OwnerInv
<1>8. OrderInv'
      BY <1>2 DEF TurnsInv, OrderInv, InOrder
<1> QED  BY <1>3, <1>4, <1>5, <1>6, <1>7, <1>8, StepStays

(* A task that is cancelled may leave a row, and is not whole any more.    *)
LEMMA TaskCancelledKeeps ==
    ASSUME TurnsInv, NEW t \in Turns!Turn, Turns!TaskCancelled(t), Local(t)
    PROVE  TurnsInv'
<1> USE DEF Turns!TaskCancelled
<1>1. /\ TurnTypes /\ Follows(t) /\ Asks(t) /\ Keeps(t)
      /\ <<"ai", t>> \in Said /\ <<"human", t>> \in Said
      BY DEF TurnsInv, Said
<1>2. /\ UNCHANGED <<path, messages, owner, said, asked, trace, failed, abandoned>>
      /\ path = "direct" /\ reader[t] = "reading" /\ reader'[t] = "closing"
      /\ pump[t] \in {"setup", "human", "agent", "answered", "ending"}
      /\ pump'[t] = IF pump[t] \in {"setup", "human"} THEN "ended" ELSE "ending"
      BY <1>1 DEF TurnTypes
<1>3. \/ rows' = rows
      \/ rows' = Append(rows, <<"ai", t>>) /\ said[t] /\ pump[t] = "answered"
      \/ rows' = Append(rows, <<"human", t>>) /\ pump[t] = "human"
      BY <1>1, <1>2 DEF Asks, Given
<1>4. /\ pump[t] # "ending" => ~Turns!Contains(rows, <<"ai", t>>) /\ t \notin failed
      /\ t \notin abandoned
      BY <1>1, <1>2 DEF Keeps, Follows, Came
<1>5. /\ Turns!Contains(rows', <<"ai", t>>) =>
            said[t] /\ pump[t] \in {"answered", "ending"} /\ t \notin failed
      /\ Turns!Contains(messages, <<"human", t>>)
  <2>1. CASE rows' = rows  BY <1>1, <1>2, <1>4, <2>1 DEF Asks, Keeps
  <2>2. CASE rows' = Append(rows, <<"ai", t>>) /\ said[t] /\ pump[t] = "answered"
        BY <1>1, <1>2, <1>4, <2>2 DEF Asks
  <2>3. CASE rows' = Append(rows, <<"human", t>>) /\ pump[t] = "human"
    <3>1. \A x : Turns!Contains(rows', x) <=> Turns!Contains(rows, x) \/ x = <<"human", t>>
          BY <1>1, <2>3, Appended DEF TurnTypes
    <3> QED  BY <1>1, <1>2, <1>4, <2>3, <3>1, SaidApart DEF Asks
  <2> QED  BY <1>3, <2>1, <2>2, <2>3
<1>6. Follows(t)'
      BY <1>1, <1>2, <1>4 DEF Follows
<1>7. Asks(t)'
      BY <1>1, <1>2 DEF Asks, Given
<1>8. Keeps(t)'
      BY <1>1, <1>2, <1>4, <1>5 DEF Keeps, Whole
<1>9. OneReads' /\ OwnerInv'
      BY <1>2, ReadersStay, OwnerStays DEF GoesOn, Came
<1>10. OrderInv'
  <2> SUFFICES ASSUME abandoned = {}  PROVE InOrder(messages') /\ InOrder(rows')
      BY <1>2 DEF OrderInv
  <2>1. InOrder(messages') /\ InOrder(rows)  BY <1>2 DEF TurnsInv, OrderInv
  <2>2. CASE rows' = rows  BY <2>1, <2>2
  <2>3. CASE rows' = Append(rows, <<"ai", t>>) /\ pump[t] = "answered"
        BY <1>1, <1>2, <1>4, <2>1, <2>3, AnswerOrder DEF TurnTypes
  <2>4. CASE rows' = Append(rows, <<"human", t>>) /\ pump[t] = "human"
    <3>1. ASSUME NEW x \in Said, Turns!Contains(rows, x)  PROVE Before(x, <<"human", t>>)
      <4>1. x[2] < t \/ x[2] = t  BY <1>2, <3>1, SaidBefore
      <4>2. x # <<"human", t>> /\ x # <<"ai", t>>  BY <1>1, <1>4, <2>4, <3>1 DEF Keeps
      <4>3. x[2] # t  BY <4>2 DEF Said
      <4> QED  BY <4>1, <4>3 DEF Before
    <3> QED  BY <1>1, <2>1, <2>4, <3>1, OrderGrows DEF TurnTypes
  <2> QED  BY <1>3, <2>1, <2>2, <2>3, <2>4
<1> QED  BY <1>6, <1>7, <1>8, <1>9, <1>10, StepStays

(* The end of a turn: its trace, its event and its answer.                 *)
LEMMA TurnOverKeeps ==
    ASSUME TurnsInv, NEW t \in Turns!Turn, Turns!TurnOver(t), Local(t)
    PROVE  TurnsInv'
<1>1. TurnTypes /\ Follows(t) /\ Asks(t) /\ Keeps(t) /\ <<"ai", t>> \in Said
      BY DEF TurnsInv, Said
<1>2. /\ UNCHANGED <<path, rows, status, said, asked, trace, failed, abandoned>>
      /\ pump[t] \in {"ended", "shown"} /\ pump'[t] = "over"
      /\ owner' = IF path = "direct" /\ t \in abandoned THEN owner ELSE 0
      /\ messages' = IF said[t] /\ ~(path = "direct" /\ (t \in failed \/ reader[t] # "reading"))
                     THEN Append(messages, <<"ai", t>>) ELSE messages
  <2>1. /\ UNCHANGED <<path, status, said, asked, Turns!store, abandoned>>
        /\ pump[t] = (IF t \in failed THEN "shown" ELSE "ended")
        /\ pump' = [pump EXCEPT ![t] = "over"]
        /\ IF path = "direct" /\ t \in abandoned THEN UNCHANGED <<owner, set>>
           ELSE owner' = 0 /\ set' = FALSE
        /\ messages' = IF said[t] /\ ~(path = "direct" /\ (t \in failed \/ reader[t] # "reading"))
                       THEN Append(messages, <<"ai", t>>) ELSE messages
        BY DEF Turns!TurnOver, Turns!Nobody, Turns!Interrupted
  <2> QED  BY <1>1, <2>1 DEF TurnTypes, Turns!store
<1>3. /\ path = "direct" => reader'[t] = IF reader[t] = "reading" THEN "returned"
                                         ELSE IF reader[t] = "closing" THEN "raised" ELSE reader[t]
      /\ path = "bridged" => \/ reader'[t] = reader[t]
                             \/ reader[t] = "reading" /\ reader'[t] = "closing"
  <2>1. CASE \E r \in Turns!Turn : Turns!Misses(r)
        BY <1>1, <2>1 DEF Turns!Misses, TurnTypes
  <2>2. CASE reader' = IF path = "direct" /\ reader[t] \in {"reading", "closing"}
                       THEN [reader EXCEPT ![t] = IF @ = "reading" THEN "returned" ELSE "raised"]
                       ELSE reader
        BY <1>1, <2>2 DEF TurnTypes
  <2> QED  BY <2>1, <2>2 DEF Turns!TurnOver
<1>4. /\ Turns!Contains(messages, <<"human", t>>) => Turns!Contains(messages', <<"human", t>>)
      /\ \A x : Turns!Contains(messages, x) => Turns!Contains(messages', x)
      /\ said[t] /\ ~(path = "direct" /\ (t \in failed \/ reader[t] # "reading")) =>
            Turns!Contains(messages', <<"ai", t>>)
  <2>1. CASE /\ messages' = messages
             /\ ~(said[t] /\ ~(path = "direct" /\ (t \in failed \/ reader[t] # "reading")))
        BY <2>1
  <2>2. CASE messages' = Append(messages, <<"ai", t>>)
    <3>1. \A x : Turns!Contains(Append(messages, <<"ai", t>>), x)
                  <=> Turns!Contains(messages, x) \/ x = <<"ai", t>>
          BY <1>1, Appended DEF TurnTypes
    <3>2. \A x : Turns!Contains(messages', x) <=> Turns!Contains(messages, x) \/ x = <<"ai", t>>
          BY <2>2, <3>1
    <3> QED  BY <3>2
  <2> QED  BY <1>2, <2>1, <2>2
<1>5. Follows(t)'
  <2>1. reader[t] \notin {"out", "announcing"}  BY <1>1, <1>2 DEF Follows
  <2>2. CASE path = "direct"
        BY <1>1, <1>2, <1>3, <2>1, <2>2 DEF Follows, Came, TurnTypes
  <2>3. CASE path = "bridged"
        BY <1>1, <1>2, <1>3, <2>1, <2>3 DEF Follows, Came, TurnTypes
  <2> QED  BY <1>1, <2>2, <2>3 DEF TurnTypes
<1>6. Asks(t)'
  <2>1. Turns!Contains(messages', <<"ai", t>>) => pump'[t] = "over"  BY <1>2
  <2>2. Given(t, asked[t]) => Given(t, asked[t])'  BY <1>2 DEF Given
  <2> QED  BY <1>1, <1>2, <1>4, <2>1, <2>2 DEF Asks
<1>7. Keeps(t)'
  <2>1. Turns!Contains(rows, <<"ai", t>>) /\ Whole(t)' => Turns!Contains(messages', <<"ai", t>>)
        BY <1>1, <1>2, <1>3, <1>4 DEF Keeps, Whole, Follows, TurnTypes
  <2>2. Whole(t)' => Whole(t)  BY <1>2, <1>3 DEF Whole
  <2> QED  BY <1>1, <1>2, <1>4, <2>1, <2>2 DEF Keeps
<1>8. OneReads'
  <2>1. GoesOn(t)  BY <1>1, <1>2, <1>3 DEF GoesOn, Came, TurnTypes
  <2> QED  BY <2>1, ReadersStay
<1>9. OwnerInv'
  <2>1. CASE owner' = owner  BY <1>1, <1>2, <1>3, <2>1, OwnerStays DEF TurnTypes
  <2>2. CASE ~(path = "direct" /\ t \in abandoned)
    <3>1. ASSUME NEW u \in Turns!Turn, reader'[u] \in {"announcing", "reading"}, pump'[u] # "over"
          PROVE  t \in abandoned' /\ t < u
      <4>1. u # t /\ reader[u] \in {"announcing", "reading"}  BY <1>2, <3>1 DEF Local, Stays
      <4>2. reader[t] \in {"reading", "closing"} \/ t \in abandoned  BY <1>1, <1>2 DEF Follows
      <4> QED  BY <1>1, <1>2, <4>1, <4>2, TurnsAreNumbers DEF TurnsInv, OneReads, Follows, Came
    <3> QED  BY <3>1 DEF OwnerInv
  <2> QED  BY <1>2, <2>1, <2>2
<1>10. OrderInv'
  <2> SUFFICES ASSUME abandoned = {}  PROVE InOrder(messages') /\ InOrder(rows')
      BY <1>2 DEF OrderInv
  <2>1. InOrder(messages) /\ InOrder(rows')  BY <1>2 DEF TurnsInv, OrderInv
  <2>2. ~Turns!Contains(messages, <<"ai", t>>)  BY <1>1, <1>2 DEF Asks
  <2> QED  BY <1>1, <1>2, <2>1, <2>2, AnswerOrder DEF TurnTypes
<1> QED  BY <1>5, <1>6, <1>7, <1>8, <1>9, <1>10, StepStays


(* Cancel touches no turn but what it is told.                             *)
LEMMA CancelKeeps ==
    ASSUME TurnsInv, Turns!Cancel \/ UNCHANGED talking
    PROVE  TurnsInv'
<1>1. /\ UNCHANGED <<path, reader, messages, owner, pump, status, said, unread, asked, trace, rows,
                     abandoned, failed>>
      /\ set' \in BOOLEAN /\ told' \in SUBSET Turns!Turn
  <2>1. CASE Turns!Cancel
    <3>1. owner \in Turns!Turn  BY <2>1 DEF Turns!Cancel, TurnsInv, TurnTypes, Turns!Nobody
    <3> QED
          BY <2>1, <3>1
          DEF Turns!Cancel, Turns!consumer, Turns!run, Turns!store, TurnsInv, TurnTypes
  <2>2. CASE UNCHANGED talking  BY <2>2 DEF talking, TurnsInv, TurnTypes
  <2> QED  BY <2>1, <2>2
<1>2. Turns!Turn' = Turns!Turn /\ Said' = Said  BY DEF Turns!Turn, Said
<1>3. TurnTypes' /\ OneReads' /\ OwnerInv' /\ OrderInv'
      BY <1>1, <1>2 DEF TurnsInv, TurnTypes, OneReads, OwnerInv, OrderInv, InOrder
<1>4. ASSUME NEW t \in Turns!Turn  PROVE Follows(t)' /\ Asks(t)' /\ Keeps(t)'
  <2>1. Follows(t) /\ Asks(t) /\ Keeps(t)  BY DEF TurnsInv
  <2> QED  BY <1>1, <2>1 DEF Follows, Asks, Given, Keeps, Whole
<1> QED  BY <1>2, <1>3, <1>4 DEF TurnsInv

(* Init: nothing was asked.                                                *)
LEMMA TurnsStart == Turns!Init => TurnsInv
<1> SUFFICES ASSUME Turns!Init  PROVE TurnsInv
    OBVIOUS
<1> USE DEF Turns!Init
<1>1. \A x : ~Turns!Contains(messages, x) /\ ~Turns!Contains(rows, x)
      BY DEF Turns!Contains
<1>2. TurnTypes
  <2>1. /\ unread \in [Turns!Turn -> BOOLEAN] /\ said \in [Turns!Turn -> BOOLEAN]
        /\ set \in BOOLEAN
        OBVIOUS
  <2>2. owner \in Turns!Turn \cup {0}  BY DEF Turns!Nobody
  <2> QED  BY <2>1, <2>2 DEF TurnTypes
<1>3. OneReads /\ OwnerInv /\ OrderInv
      BY DEF OneReads, OwnerInv, OrderInv, InOrder
<1>4. ASSUME NEW t \in Turns!Turn  PROVE Follows(t) /\ Asks(t) /\ Keeps(t)
      BY <1>1, <1>4 DEF Follows, Asks, Keeps
<1> QED  BY <1>2, <1>3, <1>4 DEF TurnsInv

(* Every step of the turns.                                                *)
LEMMA TurnsStay == TurnsInv /\ (Turns!Next \/ UNCHANGED talking) => TurnsInv'
<1> SUFFICES ASSUME TurnsInv, Turns!Next \/ UNCHANGED talking  PROVE TurnsInv'
    OBVIOUS
<1>1. CASE Turns!Cancel \/ UNCHANGED talking  BY <1>1, CancelKeeps
<1>2. ASSUME NEW t \in Turns!Turn,
             \/ Turns!Prompt(t) \/ Turns!LeaveAnnouncing(t) \/ Turns!Leave(t)
             \/ Turns!CloseBridge(t) \/ \E event : Turns!LeaveDirect(t, event)
             \/ Turns!LeaveAtError(t) \/ Turns!ReaderCancelled(t) \/ Turns!TaskCancelled(t)
             \/ Turns!PumpStep(t) \/ Turns!ReaderStep(t)
      PROVE  TurnsInv'
  <2> USE DEF Turns!PumpStep, Turns!ReaderStep
  <2>1. Local(t)  BY <1>2, StepsAreLocal
  <2>2. CASE \/ Turns!Prompt(t) \/ Turns!LeaveAnnouncing(t) \/ Turns!Leave(t)
             \/ Turns!CloseBridge(t) \/ \E event : Turns!LeaveDirect(t, event)
             \/ Turns!LeaveAtError(t) \/ Turns!ReaderCancelled(t) \/ Turns!TaskCancelled(t)
        BY <2>1, <2>2, PromptKeeps, LeaveAnnouncingKeeps, LeaveKeeps, CloseBridgeKeeps,
           LeaveDirectKeeps, LeaveAtErrorKeeps, ReaderCancelledKeeps, TaskCancelledKeeps
  <2>3. CASE Turns!ReaderStep(t)
        BY <2>1, <2>3, SendKeeps, ReadKeeps, PollKeeps, LeftKeeps, LeaveTimesOutKeeps
  <2>4. CASE Turns!PumpStep(t)
        BY <2>1, <2>4, PumpStartsKeeps, BeginTraceKeeps, AppendHumanKeeps, SetupFailsKeeps,
           AgentEmitsKeeps, AgentEndsKeeps, AgentRaisesKeeps, AppendAnswerKeeps, AppendFailsKeeps,
           EndTraceKeeps, ShowErrorKeeps, TurnOverKeeps, CloseDirectKeeps
  <2> QED  BY <1>2, <2>2, <2>3, <2>4
<1> QED  BY <1>1, <1>2 DEF Turns!Next

(* Two items of history stand as the session has them.                     *)
LEMMA SameOrder ==
    ASSUME NEW r \in Seq(Said), NEW m \in Seq(Said), InOrder(r), InOrder(m),
           NEW i \in DOMAIN r, NEW j \in DOMAIN r, NEW k \in DOMAIN m, NEW l \in DOMAIN m,
           r[i] = m[k], r[j] = m[l]
    PROVE  i < j <=> k < l
<1>1. /\ i \in Nat /\ j \in Nat /\ k \in Nat /\ l \in Nat
      /\ r[i] \in Said /\ r[j] \in Said /\ r[i][2] \in Nat /\ r[j][2] \in Nat
  <2>1. DOMAIN r = 1..Len(r) /\ DOMAIN m = 1..Len(m) /\ Len(r) \in Nat /\ Len(m) \in Nat  OBVIOUS
  <2>2. r[i] \in Said /\ r[j] \in Said  BY <2>1
  <2>3. \A x \in Said : x[2] \in Nat  BY TurnsAreNumbers DEF Said
  <2> QED  BY <2>1, <2>2, <2>3
<1>2. \A a, b : Before(a, b) /\ a[2] \in Nat /\ b[2] \in Nat => ~Before(b, a) /\ a # b
      BY DEF Before
<1>3. ASSUME i < j  PROVE k < l
  <2>1. Before(m[k], m[l])  BY <1>3 DEF InOrder
  <2>2. k # l /\ ~(l < k)  BY <1>1, <1>2, <2>1 DEF InOrder
  <2> QED  BY <1>1, <2>2
<1>4. ASSUME k < l  PROVE i < j
  <2>1. Before(r[i], r[j])  BY <1>4 DEF InOrder
  <2>2. i # j /\ ~(j < i)  BY <1>1, <1>2, <2>1 DEF InOrder
  <2> QED  BY <1>1, <2>2
<1> QED  BY <1>3, <1>4

(* What follows for the session.                                           *)
LEMMA TurnsInvIsEnough ==
    ASSUME TurnsInv
    PROVE  /\ Turns!TypeOK /\ Turns!OwnQuestion /\ Turns!HistoryIsRemembered
           /\ Turns!CancelReachesTurn
<1>1. TurnTypes /\ \A t \in Turns!Turn : Follows(t) /\ Asks(t) /\ Keeps(t)
      BY DEF TurnsInv
<1>2. Turns!TypeOK
      BY <1>1 DEF Turns!TypeOK, TurnTypes, Turns!Nobody, Said, Asks
<1>3. Turns!OwnQuestion
      BY <1>1 DEF Turns!OwnQuestion, Asks, Given
<1>4. Turns!CancelReachesTurn
      BY DEF TurnsInv, OwnerInv, Turns!CancelReachesTurn
<1>5. Turns!HistoryIsRemembered
  <2>1. ASSUME NEW i \in DOMAIN rows, NEW t, t = rows[i][2], Whole(t), pump[t] = "over"
        PROVE  Turns!Contains(messages, rows[i])
    <3>1. i \in 1..Len(rows) /\ rows[i] \in Said  BY <1>1 DEF TurnTypes
    <3>2. Turns!Contains(rows, rows[i])  BY <3>1 DEF Turns!Contains
    <3>3. t \in Turns!Turn /\ (rows[i] = <<"human", t>> \/ rows[i] = <<"ai", t>>)
          BY <2>1, <3>1 DEF Said
    <3> QED  BY <1>1, <2>1, <3>2, <3>3 DEF Keeps
  <2>2. ASSUME NEW t \in Turns!Turn, Whole(t), t \notin failed,
               trace[t] \in {"completed", "cancelled", "dispatched"}
        PROVE  Turns!Contains(rows, <<"ai", t>>) <=> trace[t] = "completed" /\ said[t]
        BY <1>1, <2>2 DEF Keeps
  <2>3. ASSUME abandoned = {}, NEW i \in DOMAIN rows, NEW j \in DOMAIN rows,
               NEW k \in DOMAIN messages, NEW l \in DOMAIN messages,
               rows[i] = messages[k], rows[j] = messages[l]
        PROVE  i < j <=> k < l
        BY <1>1, <2>3, SameOrder DEF TurnsInv, OrderInv, TurnTypes
  <2> QED  BY <2>1, <2>2, <2>3 DEF Turns!HistoryIsRemembered, Whole
<1> QED  BY <1>2, <1>3, <1>4, <1>5

-----------------------------------------------------------------------------
(* The parts share no state: each behaves as it does alone, whichever of   *)
(* them is at work.                                                        *)
THEOREM PartsAreThemselves == Spec => Turns!Spec /\ Window!Spec
<1>1. Init => Turns!Init /\ Window!Init  BY DEF Init
<1>2. ASSUME [Next]_<<part, talking, drawing>>
      PROVE  [Turns!Next]_(Turns!vars) /\ [Window!Next]_(Window!vars)
      BY <1>2 DEF Next, talking, drawing, Turns!vars, Window!vars, Window!wiring
<1> QED  BY <1>1, <1>2, PTL DEF Spec, Turns!Spec, Window!Spec

(* So the invariants hold of each part, and what follows from them.        *)
LEMMA TurnsInvariance == Turns!Spec => []TurnsInv
<1>1. Turns!Init => TurnsInv  BY TurnsStart
<1>2. TurnsInv /\ [Turns!Next]_(Turns!vars) => TurnsInv'
      BY TurnsStay DEF talking, Turns!vars
<1> QED  BY <1>1, <1>2, PTL DEF Turns!Spec

LEMMA WindowInvariance == Window!Spec => []WindowInv
<1>1. Window!Init => WindowInv  BY WindowStarts
<1>2. WindowInv /\ [Window!Next]_(Window!vars) => WindowInv'
      BY WindowStays DEF drawing, Window!vars
<1> QED  BY <1>1, <1>2, PTL DEF Window!Spec

(* The types of both parts, and that a turn answers only when it is over.  *)
THEOREM TypeCorrect == Spec => []TypeOK
<1>1. TurnsInv /\ WindowInv => TypeOK
      BY TurnsInvIsEnough DEF WindowInv, TypeOK
<1> QED  BY <1>1, PartsAreThemselves, TurnsInvariance, WindowInvariance, PTL

(* run_turn and the pump: a run is given its own question, and history has *)
(* of a conversation what the session remembers, in its order, however     *)
(* stops, closed streams and cancelled tasks fall between the steps.       *)
THEOREM TurnsAreOwnHolds == Spec => []TurnsAreOwn
<1>1. TurnsInv => TurnsAreOwn  BY TurnsInvIsEnough DEF TurnsAreOwn
<1> QED  BY <1>1, PartsAreThemselves, TurnsInvariance, PTL

(* cancel: the event of the session is the one of the turn that is read,   *)
(* until that one is over, unless a turn was given up before it.           *)
THEOREM CancelReachesTurnHolds == Spec => []CancelReachesTurn
<1>1. TurnsInv => CancelReachesTurn  BY TurnsInvIsEnough DEF CancelReachesTurn
<1> QED  BY <1>1, PartsAreThemselves, TurnsInvariance, PTL

(* _ensure_tvchart_wired and the waiters of the chart controller: a data   *)
(* request of the chart gets one answer, with the bars of that chart, and  *)
(* only those who wait for the page are told.                              *)
THEOREM PageIsAnsweredHolds == Spec => []PageIsAnswered
<1>1. WindowInv => PageIsAnswered
      BY ChartIsAnsweredHolds DEF WindowInv, PageIsAnswered
<1> QED  BY <1>1, PartsAreThemselves, WindowInvariance, PTL
=============================================================================
