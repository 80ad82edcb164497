----------------------------- MODULE MCNetFetch -----------------------------
(* Instances of NetFetch: origins that differ in one part each, and        *)
(* resolver answers at the boundaries of the address table.                *)
EXTENDS NetFetch

Written(scheme, host, port, tail) ==
    [scheme |-> scheme, host |-> host, port |-> port, tail |-> tail]

\* Two origins on one host, a private literal and an entry that is not an
\* origin: together, and the first alone.
MCManifests ==
    LET api == Written("https", "api", NoPort, "slash")
    IN  { {api},
          { api, Written("https", "api", 8443, "none"),
            Written("http", "intranet", 80, "none"),
            Written("https", "other", NoPort, "wildcard") } }

MCUrls ==
    { Written("https", "api", 443, "path"), Written("https", "api", 8443, "query"),
      Written("http", "intranet", NoPort, "path"),
      Written("https", "other", NoPort, "path"),
      Written("https", "api", 443, "userinfo") }

MCBadHosts == {"-x"}

MCLiterals == [h \in {"intranet"} |-> <<10, 0, 0, 1>>]

\* The first and the last address of the blocks, those whose width is not a
\* whole number of octets above all, carried forms of some, and a public
\* address beside one of them.
MCAddresses ==
    { <<172, 16, 0, 0>>, <<172, 31, 255, 255>>, <<172, 32, 0, 0>>,
      <<100, 64, 0, 0>>, <<100, 127, 255, 255>>, <<198, 18, 0, 0>>, <<198, 19, 255, 255>>,
      <<169, 254, 169, 254>>, <<224, 0, 0, 0>>, <<239, 255, 255, 255>>, <<240, 0, 0, 0>>,
      <<255, 255, 255, 255>>, <<0, 0, 0, 0>>, <<127, 0, 0, 1>>, <<10, 255, 255, 255>>,
      <<192, 0, 0, 255>>, <<192, 0, 2, 255>>, <<192, 168, 255, 255>>, <<203, 0, 113, 7>>,
      <<0, 0, 0, 0, 0, 0, 0, 0>>, <<0, 0, 0, 0, 0, 0, 0, 1>>, <<0, 0, 0, 0, 0, 0, 0, 2>>,
      <<0, 0, 0, 0, 0, \hFFFF, \h7F00, 1>>, <<0, 0, 0, 0, 0, 0, \hAC1F, \hFFFF>>,
      <<\h64, \hFF9B, 0, 0, 0, 0, \hA00, 1>>, <<\h2002, \hAC1F, \hFFFF, 0, 0, 0, 0, 1>>,
      <<\hFC00, 0, 0, 0, 0, 0, 0, 1>>, <<\hFDFF, 0, 0, 0, 0, 0, 0, 1>>,
      <<\hFE80, 0, 0, 0, 0, 0, 0, 1>>, <<\hFEBF, 0, 0, 0, 0, 0, 0, 1>>,
      <<\hFF02, 0, 0, 0, 0, 0, 0, 1>>, <<\h2001, 0, 0, 0, 0, 0, 0, 1>>,
      <<\h2001, \h1FF, 0, 0, 0, 0, 0, 1>>, <<\h2001, \hDB8, 0, 0, 0, 0, 0, 1>>,
      <<\h100, 0, 0, 0, 0, 0, 0, 1>> }

\* One address, or a loopback address before one.
MCAnswers ==
    {<< >>} \cup {<<a>> : a \in MCAddresses}
        \cup {<<<<127, 0, 0, 1>>, a>> : a \in {<<172, 32, 0, 0>>, <<10, 0, 0, 1>>}}

\* Two connections; the second also covers the first one's origin.
MCRecords ==
    << {Written("https", "api", 443, "none")},
       {Written("https", "api", 8443, "slash"), Written("https", "api", NoPort, "none")} >>
=============================================================================
