--------------------------- MODULE MCArticleFetch ---------------------------
EXTENDS ArticleFetch

CONSTANTS a, b

\* The servers are removed and added again during a fetch.
BothOrNone == {<<a, b>>, <<>>}

\* One server is replaced by another.
Replaced == {<<a>>, <<b>>}
=============================================================================
