----------------------------- MODULE UriMeaning -----------------------------
(***************************************************************************)
(* What an uri means, said of positions in its text.  Escape sequences are *)
(* decoded in each part, and in the authority before it is divided.        *)
(***************************************************************************)
EXTENDS Uri

Cut(t, from, chars) ==
  LET found == {i \in from .. Len(t) : t[i] \in chars}
  IN  IF found = {} THEN Len(t) + 1
      ELSE CHOOSE i \in found : \A j \in found : i <= j

IsProper(t) ==
  /\ t # <<>>
  /\ \A i \in DOMAIN t :
       /\ t[i] \notin Ends
       /\ t[i] = "%" => i + 2 <= Len(t) /\ <<t[i + 1], t[i + 2]>> \in DOMAIN Decoded

Decode(t) ==
  LET kept == SelectSeq([i \in DOMAIN t |-> i],
                        LAMBDA i : \A k \in {1, 2} : i > k => t[i - k] # "%")
  IN  [j \in DOMAIN kept |->
         LET i == kept[j]
         IN  IF t[i] = "%" THEN Decoded[<<t[i + 1], t[i + 2]>>] ELSE t[i]]

Absent == <<"absent">>

(* The part of t from position i on, if it begins with start there. *)
Part(t, i, start, chars) ==
  IF i \in DOMAIN t /\ t[i] = start
  THEN Decode(SubSeq(t, IF start = "/" THEN i ELSE i + 1, Cut(t, i, chars) - 1))
  ELSE Absent

Meaning(t, skip_scheme) ==
  LET colon     == Cut(t, 1, {":", "/", "?", "#"})
      is_scheme == ~skip_scheme /\ colon \in DOMAIN t /\ t[colon] = ":"
      begin     == IF ~is_scheme THEN 1
                   ELSE IF \A k \in {1, 2} : Cut(t, colon + k, {"/"}) = colon + k
                              /\ colon + k <= Len(t)
                   THEN colon + 3 ELSE colon + 1
      path      == Cut(t, begin, {"/", "?", "#"})
      query     == Cut(t, path, {"?", "#"})
      fragment  == Cut(t, query, {"#"})
      scheme    == IF is_scheme THEN Decode(SubSeq(t, 1, colon - 1)) ELSE <<>>
      authority == Decode(SubSeq(t, begin, path - 1))
      at        == Cut(authority, 1, {"@"})
      host      == IF at \in DOMAIN authority THEN at + 1 ELSE 1
      port      == Cut(authority, host, {":"})
      digits    == SubSeq(authority, port + 1, Len(authority))
      known     == scheme = <<>> \/ scheme \in DOMAIN Schemes
      valid     == digits # <<>> => IsNumber(digits) /\ Number(digits) \in 1 .. MaxPort
  IN  [is_valid |-> known /\ valid,
       parts    |->
         [scheme   |-> scheme,
          userinfo |-> IF authority = <<>> \/ host = 1 THEN Absent
                       ELSE SubSeq(authority, 1, at - 1),
          host     |-> IF authority = <<>> THEN Absent
                       ELSE SubSeq(authority, host, port - 1),
          port     |-> IF IsNumber(digits) THEN Number(digits)
                       ELSE IF scheme \in DOMAIN Schemes THEN Schemes[scheme] ELSE 0,
          path     |-> Part(t, path, "/", {"?", "#"}),
          query    |-> Part(t, query, "?", {"#"}),
          fragment |-> Part(t, fragment, "#", {})]]

(* The strings that are read from a buffer, up to their null characters. *)
StringAt(buffer, pointer) ==
  IF pointer = NULL THEN Absent
  ELSE SubSeq(buffer, pointer, Cut(buffer, pointer, {"nul"}) - 1)

Parts(uri, buffer) ==
  [scheme   |-> uri.scheme,
   userinfo |-> StringAt(buffer, uri.userinfo),
   host     |-> StringAt(buffer, uri.host),
   port     |-> uri.port,
   path     |-> StringAt(buffer, uri.path),
   query    |-> StringAt(buffer, uri.query),
   fragment |-> StringAt(buffer, uri.fragment)]
=============================================================================
