SPECIFICATION CacheSpec
CONSTANTS
    RowKey = {ka}
    MaxTombstones = 1
    MaxCommits = 3
INVARIANT
    ColumnsFollowNewest
CHECK_DEADLOCK FALSE
