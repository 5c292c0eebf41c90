---------------------------- MODULE ClientFetch ----------------------------
(***************************************************************************)
(* customFetch of the generated client (lib/api-client-react): what a      *)
(* caller is given for a response.  A response's text is the class that    *)
(* the code tells apart: empty, blank, an object, a scalar such as a       *)
(* number, words, or an object that is cut off; it may have a byte order   *)
(* mark.  The URL, the request's headers and the wording of errors are     *)
(* left out.                                                               *)
(***************************************************************************)
EXTENDS Integers

VARIABLE exchange   \* the last request, its response and what came of it

Texts == [kind : {"empty", "blank", "object", "scalar", "words", "cut"},
          bom : BOOLEAN]

\* media: application/json or +json, text or xml, any other, or no header.
\* length: what content-length is.  blob: the runtime has response.blob.
Responses ==
  [status : {200, 204, 404}, media : {"json", "text", "binary", "none"},
   length : {"zero", "other"}, text : Texts, blob : BOOLEAN]

Types == {"json", "text", "blob", "auto"}

FetchRequests == [method : {"GET", "HEAD", "PUT"}, body : BOOLEAN, type : Types]

Value(data)  == [outcome |-> "value", data |-> data]
Throws(what) == [outcome |-> what, data |-> "null"]

HasNoBody(response, method) ==
  \/ method = "HEAD" \/ response.status \in {204, 205, 304}
  \/ response.length = "zero"

StripBom(text) == [text EXCEPT !.bom = FALSE]

\* JavaScript's trim takes a byte order mark for white space.
IsBlank(text) == text.kind \in {"empty", "blank"}

LooksLikeJson(text) == text.kind \in {"object", "cut"}

\* JSON.parse accepts it.
Parses(text) == ~text.bom /\ text.kind \in {"object", "scalar"}

ParseJsonBody(response) ==
  LET normalized == StripBom(response.text) IN
  IF IsBlank(normalized) THEN Value("null")
  ELSE IF Parses(normalized) THEN Value("parsed")
  ELSE Throws("ResponseParseError")

InferResponseType(response) ==
  CASE response.media = "json"             -> "json"
    [] response.media \in {"text", "none"} -> "text"
    [] response.media = "binary"           -> "blob"

ParseSuccessBody(response, type, method) ==
  LET effective == IF type = "auto" THEN InferResponseType(response) ELSE type
  IN IF HasNoBody(response, method) THEN Value("null")
     ELSE CASE effective = "json" -> ParseJsonBody(response)
            [] effective = "text" ->
                 Value(IF response.text = [kind |-> "empty", bom |-> FALSE]
                       THEN "null" ELSE "raw")
            [] effective = "blob" ->
                 IF response.blob THEN Value("blob") ELSE Throws("TypeError")

\* Mutant: what cannot be parsed is thrown.
ParseErrorBodyStrictly(response, method) ==
  IF HasNoBody(response, method) THEN Throws("ApiError")
  ELSE IF response.media = "json" THEN
       [ParseJsonBody(response) EXCEPT !.outcome =
          IF @ = "value" THEN "ApiError" ELSE @]
  ELSE [outcome |-> "ApiError", data |-> "raw"]

\* The data of an ApiError, which is thrown whatever the body is.
ParseErrorBody(response, method) ==
  LET normalized == StripBom(response.text)
      Error(data) == [outcome |-> "ApiError", data |-> data]
  IN IF HasNoBody(response, method) THEN Error("null")
     ELSE IF response.media = "binary"
     THEN Error(IF response.blob THEN "blob" ELSE "raw")
     ELSE IF IsBlank(normalized) THEN Error("null")
     ELSE IF (response.media = "json" \/ LooksLikeJson(normalized))
             /\ Parses(normalized)
     THEN Error("parsed")
     ELSE Error("raw")

IsOk(response) == response.status \in 200..299

CustomFetch(request, response) ==
  IF request.body /\ request.method \in {"GET", "HEAD"} THEN Throws("TypeError")
  ELSE IF ~IsOk(response) THEN ParseErrorBody(response, request.method)
  ELSE ParseSuccessBody(response, request.type, request.method)

Quiet == [request |-> "none"]

FetchNext ==
  /\ exchange = Quiet
  /\ \E request \in FetchRequests, response \in Responses :
       exchange' = [request |-> request, response |-> response,
                    result |-> CustomFetch(request, response)]

-----------------------------------------------------------------------------

\* Whatever the body of an answer is, JSON that is cut off or mislabelled
\* included, an error status reaches the caller as an ApiError, and no other
\* status does: the pages' onError depends on it (custom-fetch.ts).
ErrorsStayErrors ==
  exchange # Quiet =>
    LET r == exchange.request IN
    exchange.result.outcome = "ApiError"
      <=> /\ ~IsOk(exchange.response)
          /\ ~(r.body /\ r.method \in {"GET", "HEAD"})

\* A caller that asks for JSON, or is answered with JSON, is given the parsed
\* value, null for a body that is absent or blank, or an error; a text that is
\* JSON but for a byte order mark is no error (custom-fetch.ts).
JsonIsParsed ==
  exchange # Quiet =>
    LET q == exchange.request
        p == exchange.response
        r == exchange.result
    IN q.type = "json" \/ (q.type = "auto" /\ p.media = "json") =>
         /\ r.outcome = "value" =>
              /\ r.data \in {"parsed", "null"}
              /\ r.data = "null" <=>
                   HasNoBody(p, q.method) \/ p.text.kind \in {"empty", "blank"}
         /\ r.outcome = "ResponseParseError" => p.text.kind \in {"words", "cut"}

=============================================================================
