SPECIFICATION Spec
CONSTANTS
    Engine <- EvalQuery
    Catalog <- MCCatalog
    MergeFn <- MCMergeFn
    Nodes <- MCNodes
    Placements <- MCPlacements
    Quoted <- MCQuoted
    Requests <- MCRequests
INVARIANT FederatedMatchesCentral
\* A query's way ends with its answer or with a refusal.
CHECK_DEADLOCK FALSE
