----------------------------- MODULE HttpContext -----------------------------
(***************************************************************************)
(* src/http/HttpContext.cpp, HttpContext.h and HttpRequest.h: the parser   *)
(* of HTTP requests that runs over a connection's input buffer each time   *)
(* bytes arrive.  A byte is a symbol; words that the parser only compares  *)
(* as a whole ("GET", "HTTP/1.1", a path, a header name) are one symbol.   *)
(*                                                                         *)
(* What a call returns and leaves behind is a record.  flag "CRASH" is an  *)
(* exception nobody catches or a null pointer that is followed.            *)
(***************************************************************************)
EXTENDS Buffer, SequencesExt

nullptr == 0

\* F(x).  TLC computes x once, however often F uses it.
Apply(F(_), x) == CHOOSE y \in {F(z) : z \in {x}} : TRUE

CR == "\r"
LF == "\n"
SP == " "

\* What isspace() accepts.
Blank == {CR, LF, SP}

NoRequest ==
    [method_ |-> "kInvalid", version_ |-> "kUnknown", path_ |-> <<>>, query_ |-> <<>>,
     headers_ |-> <<>>, body_ |-> <<>>]

\* HttpContext::HttpContext, and what reset() leaves
NewContext == [state_ |-> "STATE_PARSE_URI", hState_ |-> "H_START", request_ |-> NoRequest]

\* Mutant: the header state machine goes on from where the last request ended.
KeepsHeaderState(ctx) == [NewContext EXCEPT !.hState_ = ctx.hState_]

reset(ctx) == NewContext

gotAll(ctx) == ctx.state_ = "STATE_FINISH"

-----------------------------------------------------------------------------
(* HttpRequest *)

\* kInvalid makes setMethod return false.
setMethod(word) ==
    IF \E m \in {"GET", "POST", "HEAD", "PUT", "DELETE"} : word = <<m>>
    THEN word[1] ELSE "kInvalid"

Versions == {"HTTP/1.0", "HTTP/1.1"}

\* Blanks on both sides of a header's value are dropped.
Trim(s) ==
    LET solid == {i \in 1..Len(s) : s[i] \notin Blank}
    IN  IF solid = {} THEN <<>> ELSE SubSeq(s, Min(solid), Max(solid))

\* headers_ maps a field to its value.
addHeader(headers, field, value) == (field :> Trim(value)) @@ headers

hasHeader(req, field) == field \in DOMAIN req.headers_
getHeader(req, field) == IF hasHeader(req, field) THEN req.headers_[field] ELSE <<>>

-----------------------------------------------------------------------------
(* The request line *)

\* std::find over positions first..(last - 1) of s: last when there is none.
Find(s, first, last, ch) ==
    LET hits == {i \in first..(last - 1) : s[i] = ch}
    IN  IF hits = {} THEN last ELSE Min(hits)

\* What *(crlf + 1) may read when the carriage return is the last byte there is:
\* an older byte of the vector or, behind the vector, anything.
PastWriter(b) == IF b.writerIndex_ < b.size THEN {b.data[b.writerIndex_]} ELSE {LF, Zero}

\* The request line is s up to its carriage return at crlf; past is one of PastWriter(b).
ParseLine(s, crlf, b, req, past) ==
    LET space    == Find(s, 1, crlf, SP)
        space2   == Find(s, space + 1, crlf, SP)
        question == Find(s, space + 1, space2, "?")
        version  == SubSeq(s, space2 + 1, crlf - 1)
        named    == [req EXCEPT !.method_ = setMethod(SubSeq(s, 1, space - 1))]
        placed   == [named EXCEPT !.path_ = SubSeq(s, space + 1, question - 1),
                                  !.query_ = IF question # space2
                                             THEN SubSeq(s, question + 1, space2 - 1)
                                             ELSE @]
        full     == [placed EXCEPT !.version_ = version[1]]
        Ret(flag, buf, r) == [flag |-> flag, buf |-> buf, request_ |-> r]
    IN  IF crlf > Len(s) THEN Ret("AGAIN", b, req)
        ELSE IF space = crlf THEN Ret("ERROR", b, req)
        ELSE IF named.method_ = "kInvalid" \/ space2 = crlf THEN Ret("ERROR", b, named)
        ELSE IF \A v \in Versions : version # <<v>> THEN Ret("ERROR", b, placed)
        ELSE IF (IF crlf < Len(s) THEN s[crlf + 1] ELSE past) # LF THEN Ret("ERROR", b, full)
        ELSE Ret("SUCCESS", retrieve(b, crlf + 1), full)

\* HttpContext::parseURI
parseURI(b, req, past) ==
    Apply(LAMBDA s : Apply(LAMBDA crlf : ParseLine(s, crlf, b, req, past),
                           Find(s, 1, Len(s) + 1, CR)),
          Content(b))

-----------------------------------------------------------------------------
(* The headers *)

\* One turn of the loop of parseHeaders: t is what the loop has, i the position
\* of current in the readable bytes s.  key_start, key_end, val_start and val_end
\* are locals: null at the start of every call, whatever hState_ is by then.
HeaderStep(s, t, i) ==
    LET ch == s[i]
        \* a string made of, or a read through, one of these pointers
        Using(ptrs, next) == IF nullptr \in ptrs THEN [t EXCEPT !.flag = "CRASH"] ELSE next
        Fails == [t EXCEPT !.flag = "ERROR"]
        Stored(u) ==
            Using({u.key_start, u.key_end, u.val_start},
                  [u EXCEPT !.hState_ = "H_LF",
                            !.headers_ = addHeader(@, SubSeq(s, u.key_start, u.key_end - 1),
                                                   SubSeq(s, u.key_end + 1, u.val_end - 1))])
    IN  IF t.flag # "AGAIN" THEN t ELSE
        CASE t.hState_ = "H_START" ->
                IF ch \in {CR, LF} THEN t
                ELSE [t EXCEPT !.hState_ = "H_KEY", !.key_start = i]
          [] t.hState_ = "H_KEY" ->
                IF ch = ":"
                THEN Using({t.key_start}, [t EXCEPT !.hState_ = "H_COLON", !.key_end = i])
                ELSE IF ch \in {CR, LF} THEN Fails ELSE t
          [] t.hState_ = "H_COLON" ->
                IF ch = SP
                THEN Using({t.key_end}, [t EXCEPT !.hState_ = "H_SPACES_AFTER_COLON"])
                ELSE Fails
          [] t.hState_ = "H_SPACES_AFTER_COLON" ->
                [t EXCEPT !.hState_ = "H_VALUE", !.val_start = i]
          [] t.hState_ = "H_VALUE" ->
                IF ch = CR
                THEN Using({t.val_start}, [t EXCEPT !.hState_ = "H_CR", !.val_end = i])
                ELSE IF ch = LF THEN Stored([t EXCEPT !.val_end = i]) ELSE t
          [] t.hState_ = "H_CR" -> IF ch = LF THEN Stored(t) ELSE Fails
          [] t.hState_ = "H_LF" ->
                IF ch = CR THEN [t EXCEPT !.hState_ = "H_END_CR"]
                ELSE [t EXCEPT !.hState_ = "H_KEY", !.key_start = i]
          [] t.hState_ = "H_END_CR" ->
                IF ch = LF THEN [t EXCEPT !.hState_ = "H_END_LF", !.flag = "SUCCESS", !.last = i]
                ELSE Fails
          [] OTHER -> t    \* H_END_LF has no case

\* The loop of parseHeaders over the readable bytes s
HeaderLoop(s, ctx) ==
    LET init == [flag |-> "AGAIN", hState_ |-> ctx.hState_, headers_ |-> ctx.request_.headers_,
                 key_start |-> nullptr, key_end |-> nullptr,
                 val_start |-> nullptr, val_end |-> nullptr, last |-> 0]
        after[i \in 0..Len(s)] == IF i = 0 THEN init
                                  ELSE Apply(LAMBDA t : HeaderStep(s, t, i), after[i - 1])
    IN  after[Len(s)]

\* HttpContext::parseHeaders: nothing is retrieved unless the headers end here.
parseHeaders(b, ctx) ==
    Apply(LAMBDA t :
            [flag |-> t.flag,
             buf  |-> IF t.flag = "SUCCESS" THEN retrieve(b, t.last) ELSE b,
             ctx  |-> [ctx EXCEPT !.hState_ = t.hState_, !.request_.headers_ = t.headers_]],
          Apply(LAMBDA s : HeaderLoop(s, ctx), Content(b)))

-----------------------------------------------------------------------------
(* HttpContext::parseRequest: state_ only moves forward, so the turns of its *)
(* loop are these four in this order, each taken when its state is met.      *)

\* std::stoul, which throws for anything but a number
Digits == <<"0", "1", "2">>
IsNumber(text) == \E d \in DOMAIN Digits : text = <<Digits[d]>>
stoul(text) == (CHOOSE d \in DOMAIN Digits : text = <<Digits[d]>>) - 1

Turn(p, state, result) == IF p.flag = "MORE" /\ p.ctx.state_ = state THEN result ELSE p

UriTurn(p, past) ==
    Turn(p, "STATE_PARSE_URI",
         Apply(LAMBDA r :
                 IF r.flag = "SUCCESS"
                 THEN [p EXCEPT !.buf = r.buf, !.ctx.request_ = r.request_,
                                !.ctx.state_ = "STATE_PARSE_HEADERS"]
                 ELSE [p EXCEPT !.flag = r.flag, !.ctx.request_ = r.request_],
               parseURI(p.buf, p.ctx.request_, past)))

HeadersTurn(p) ==
    LET next == IF p.ctx.request_.method_ = "POST" THEN "STATE_RECV_BODY" ELSE "STATE_ANALYSIS"
    IN  Turn(p, "STATE_PARSE_HEADERS",
             Apply(LAMBDA r :
                     IF r.flag = "SUCCESS"
                     THEN [p EXCEPT !.buf = r.buf, !.ctx = [r.ctx EXCEPT !.state_ = next]]
                     ELSE [p EXCEPT !.flag = r.flag, !.ctx = r.ctx],
                   parseHeaders(p.buf, p.ctx)))

BodyTurn(p) ==
    LET req == p.ctx.request_
        sized == hasHeader(req, <<"Content-Length">>)
        text == getHeader(req, <<"Content-Length">>)
        len == stoul(text)
        done == [p EXCEPT !.ctx.state_ = "STATE_ANALYSIS"]
    IN  Turn(p, "STATE_RECV_BODY",
             IF ~sized THEN done
             ELSE IF ~IsNumber(text) THEN [p EXCEPT !.flag = "CRASH"]
             ELSE IF readableBytes(p.buf) < len THEN [p EXCEPT !.flag = "AGAIN"]
             ELSE [done EXCEPT !.ctx.request_.body_ = SubSeq(Content(p.buf), 1, len),
                               !.buf = retrieve(@, len)])

AnalysisTurn(p) ==
    Turn(p, "STATE_ANALYSIS", [p EXCEPT !.flag = "DONE", !.ctx.state_ = "STATE_FINISH"])

\* The buffer and the context afterwards, and a flag: DONE, AGAIN, ERROR or CRASH.
parseRequest(b, ctx, past) ==
    LET begun == [flag |-> "MORE", buf |-> b, ctx |-> ctx]
    IN  Apply(AnalysisTurn,
              Apply(BodyTurn,
                    Apply(HeadersTurn, Apply(LAMBDA p : UriTurn(p, past), begun))))
=============================================================================
