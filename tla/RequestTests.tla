---------------------------- MODULE RequestTests ----------------------------
(***************************************************************************)
(* The requests that memory_allocating_request's unit tests send, and what *)
(* the tests expect of the accessors, with the tables of the code.         *)
(***************************************************************************)
EXTENDS Request, UnitTests

LowerTable ==
  Table([c \in {CharOf(u) : u \in UpperLetters} |-> CharOf(to_lower(CodeOf(c)))])

get_method_trie == {CharsOf("GET"), CharsOf("PUT"), CharsOf("DELETE"), CharsOf("POST")}

get_version_trie == {CharsOf("HTTP/1.0"), CharsOf("HTTP/1.1"), CharsOf("HTTP/2")}

(* The trie returns the longest of the keys a text begins with. *)
get_header_key_trie ==
  CharsOf("accept") :> "accept"
    @@ CharsOf("connection") :> "connection"
    @@ CharsOf("content-length") :> "content_length"
    @@ CharsOf("content-md5") :> "content_md5"
    @@ CharsOf("content-type") :> "content_type"
    @@ CharsOf("date") :> "date"
    @@ CharsOf("from") :> "from"
    @@ CharsOf("host") :> "host"
    @@ CharsOf("referer") :> "referer"
    @@ CharsOf("user-agent") :> "user_agent"

AfterHttp10 == get_version_trie \ {CharsOf("HTTP/1.0")}

GET == CharsOf("GET")

keep_alive_str == CharsOf("keep-alive")

-----------------------------------------------------------------------------
(* What check_request_data expects of a request that was not parsed. *)
Unparsed ==
  [method |-> GET, path |-> Absent, host |-> Absent, query |-> Absent,
   fragment |-> Absent, version |-> UNKNOWN, keeps_connection |-> FALSE,
   date |-> Absent, content_length |-> 0, content_type |-> <<INVALID, INVALID>>,
   from |-> Absent, referer |-> Absent, user_agent |-> Absent]

(* What is expected of default_request. *)
Default ==
  [Unparsed EXCEPT !.path = CharsOf("/"), !.version = CharsOf("HTTP/1.1"),
                   !.keeps_connection = TRUE]

Answers ==
  [method |-> method, path |-> path, host |-> host, query |-> query(<<>>),
   fragment |-> fragment, version |-> version, keeps_connection |-> keeps_connection,
   date |-> fields.date, content_length |-> fields.content_length,
   content_type |-> fields.content_type, from |-> StringAt(header, fields.from),
   referer |-> StringAt(header, fields.referer),
   user_agent |-> StringAt(header, fields.user_agent)]

-----------------------------------------------------------------------------
HelloWorld == CharsOf("Hello World!")

HelloDigest == calculate_md5(CodesOf("Hello World!"))

WithContent(more) ==
  CharsOf("GET / HTTP/1.1\r\nContent-Length: 12") \o more
    \o CharsOf("\r\n\r\nHello World!")

RightChecksum == CharsOf("\r\nContent-MD5: 7Qdih1MuhjZehB6Sv8UNjA==")
WrongChecksum == CharsOf("\r\nContent-MD5: 7Qeih1MuhjZehB6Sv8UNjA==")

HasContent == [Default EXCEPT !.content_length = 12]

(* Requests with a content, what is answered, and whether it is fetched. *)
ContentTests ==
  {<<WithContent(<<>>), HasContent, TRUE>>,
   <<WithContent(RightChecksum), HasContent, TRUE>>,
   <<WithContent(WrongChecksum), HasContent, FALSE>>,
   <<WithContent(CharsOf("\r\nContent-Type: text/plain")),
     [HasContent EXCEPT !.content_type = <<CharsOf("text"), CharsOf("plain")>>], TRUE>>}

Ended(string) == CharsOf(string) \o CharsOf("\r\n\r\n")

http_1_0 == [Default EXCEPT !.version = CharsOf("HTTP/1.0"), !.keeps_connection = FALSE]

ConnectionTests ==
  {<<Ended("GET / HTTP/1.1"), Default>>,
   <<Ended("GET / HTTP/1.0"), http_1_0>>,
   <<Ended("GET / HTTP/1.0\r\nConnection: close"), http_1_0>>,
   <<Ended("GET / HTTP/1.0\r\nConnection: keep-alive"),
     [http_1_0 EXCEPT !.keeps_connection = TRUE]>>}

date_of_test == CharsOf("Sun, 06 Nov 1994 08:49:37 GMT")

FieldTests ==
  {<<Ended("GET / HTTP/1.1\r\nDate: Sun, 06 Nov 1994 08:49:37 GMT"),
     [Default EXCEPT !.date = date_of_test]>>,
   <<Ended("GET / HTTP/1.1\r\nFrom: info@example.com"),
     [Default EXCEPT !.from = CharsOf("info@example.com")]>>}

custom_header == Ended("GET / HTTP/1.1\r\na:b")

OtherFieldTests ==
  {<<Ended("GET / HTTP/1.1\r\nReferer: http://www.google.com/"),
     [Default EXCEPT !.referer = CharsOf("http://www.google.com/")]>>,
   <<Ended("GET / HTTP/1.1\r\nUser-Agent: libhutznohmd/0.0.1"),
     [Default EXCEPT !.user_agent = CharsOf("libhutznohmd/0.0.1")]>>,
   <<custom_header, Default>>}

example_com == CharsOf("example.com")

HostTests ==
  {<<Ended("GET / HTTP/1.1\r\nHost: example.com"), [Default EXCEPT !.host = example_com]>>,
   <<Ended("GET example.com HTTP/1.1\r\nHost: /"), [Default EXCEPT !.host = example_com]>>,
   <<Ended("GET / HTTP/1.1\r\nHost: #head"), [Default EXCEPT !.fragment = CharsOf("head")]>>}

HiddenHostTests ==
  {<<Ended("GET example.com HTTP/1.1\r\nHost: example2.com"),
     [Default EXCEPT !.host = example_com, !.path = Absent]>>,
   <<Ended("GET / HTTP/1.1\r\nHost: example.com/test"),
     [Default EXCEPT !.host = example_com]>>,
   <<Ended("GET /#head HTTP/1.1\r\nHost: example.com/#tail"),
     [Default EXCEPT !.host = example_com, !.fragment = CharsOf("head")]>>}

(* Whatever these tests say that is wrong with the request, no header ends *)
(* in it, and nothing of it is parsed.                                     *)
FailureTests ==
  {CharsOf(string) : string \in
     {" ", "PUT", "ARGHH ", "PUTT ", "DELETEE ", "PUT ", "PUT /", "PUT / ",
      "PUT / HTTP/1.1", "PUT / HTTP/x.x\n", "PUT / HTTP/22\n", "PUT / HTTP/1.11\n",
      "PUT / HTTP/1.1\na", "PUT / HTTP/2\na:b"}}

ParsedTests ==
  ConnectionTests \cup FieldTests \cup OtherFieldTests \cup HostTests
    \cup HiddenHostTests

TestRequests ==
  FailureTests \cup {test[1] : test \in ParsedTests \cup ContentTests}

-----------------------------------------------------------------------------
(***************************************************************************)
(* The accessors of memory_allocating_request return what its unit tests   *)
(* expect, in whatever chunks the tests' requests arrive, and before and   *)
(* after fetch_content: what the request line and the field "host" say     *)
(* both is taken from the request line.                                    *)
(***************************************************************************)
AnswersAsTested ==
  /\ at \in {"new", "failed"} => Answers = Unparsed \/ delivered \notin TestRequests
  /\ at = "failed" => delivered \notin {test[1] : test \in ParsedTests \cup ContentTests}
  /\ at = "parsed" =>
       /\ delivered \notin FailureTests
       /\ \A test \in ParsedTests :
            delivered = test[1] =>
              /\ Answers = test[2] /\ content_pointer = <<>> /\ fetched
              /\ header_value(CharsOf("a"))
                   = IF delivered = custom_header THEN CharsOf("b") ELSE Absent
       /\ \A test \in ContentTests :
            delivered = test[1] =>
              /\ Answers = test[2]
              /\ succeeded => /\ fetched = test[3]
                              /\ content_pointer = IF test[3] THEN HelloWorld ELSE <<>>
=============================================================================
