----------------------------- MODULE MCMetadata ------------------------------
(* Consumers that share a URL, an index or a default, resolution services   *)
(* at the edges of a byte and of the unsigned short, in both roles.         *)
EXTENDS Metadata

Element(kind, binding, url, index, isDefault) ==
  [kind |-> kind, binding |-> binding, url |-> url, index |-> index,
   isDefault |-> isDefault]

Consumer(b, u, i, d) == Element("AssertionConsumerService", b, u, i, d)
Resolution(u, i, d) == Element("ArtifactResolutionService", "soap", u, i, d)

MCSpElements ==
  { Consumer("post", "u1", 1, "absent"),   Consumer("artifact", "u1", 2, "true"),
    Consumer("artifact", "u2", 0, "false"), Consumer("post", "u2", 2, "absent"),
    Consumer("redirect", "u1", 0, "true"), Consumer("paos", "u3", 3, "true"),
    Consumer("post", "u3", NoIndex, "true"), Consumer("post", NoUrl, 1, "absent"),
    Element("SingleLogoutService", "post", "u2", NoIndex, "absent"),
    Resolution("u4", 0, "true") }

MCIdpElements ==
  { Resolution("u5", 0, "absent"), Resolution("u6", 127, "true"),
    Resolution("u7", 128, "true"), Resolution("u8", 256, "false"),
    Resolution("u9", 65535, "true"), Resolution("u6", 0, "false") }

MCRequests ==
  LET Request(u, b, i) == [url |-> u, binding |-> b, index |-> i]
  IN  { Request(u, b, NoIndex) : u \in {NoUrl, "u1", "u2"},
                                 b \in {NoBinding, "post", "artifact", "redirect", "paos"} }
      \cup { Request(NoUrl, NoBinding, i) : i \in 0 .. 2 }
      \cup { Request("u1", NoBinding, 1) }
=============================================================================
